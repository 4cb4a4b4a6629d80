----------------------------- MODULE TwinOverlay -----------------------------
(***************************************************************************)
(* The twin overlay (demo/twin_overlay.js): a layer of telemetry that a    *)
(* timer refreshes while it is on, a section of the audit panel with the   *)
(* state of the audited cell, and a dialog that asks a model about it.     *)
(* Start and stop are exposed besides the button, so either may come       *)
(* twice; the page may render its panel anew at any time.                  *)
(***************************************************************************)
EXTENDS Integers, FiniteSets

CONSTANTS
    FineCells,        \* cells of the page
    Rollup,           \* Rollup[c]: the ancestor of resolution 8
    MaxTwinGestures,  \* bound: gestures of the user and polls of the timer
    MaxTwinPolls      \* bound: polls in flight

VARIABLES
    overlayActive,
    timers,        \* intervals that run
    refreshTimer,  \* an interval is remembered
    polls,         \* requests of all_latest in flight
    layers,        \* the source and its layers are on the map
    handlers,      \* how often the click handler of the layer is registered
    inflightCell,  \* the cell of the last audit, 0 before any
    states,        \* requests of twin/state in flight
    sections,      \* the twin sections of the panel
    inspector,     \* the dialogs of the inspector, at most one in the code
    escapes,       \* dialogs with a listener for Escape
    twinGestures

twinVars == <<overlayActive, timers, refreshTimer, polls, layers, handlers,
              inflightCell, states, sections, inspector, escapes, twinGestures>>
mapPart == <<overlayActive, timers, refreshTimer, polls, layers, handlers>>
panelPart == <<inflightCell, states, sections>>
dialogPart == <<inspector, escapes>>

TwinInit ==
    /\ overlayActive = FALSE /\ timers = 0 /\ refreshTimer = FALSE /\ polls = 0
    /\ layers = FALSE /\ handlers = 0
    /\ inflightCell = 0 /\ states = {} /\ sections = {}
    /\ inspector = {} /\ escapes = {}
    /\ twinGestures = 0

TwinGesture ==
    /\ twinGestures < MaxTwinGestures
    /\ twinGestures' = twinGestures + 1

-----------------------------------------------------------------------------
\* Mutant: every start runs an interval of its own.
AlwaysTicks == timers + 1

Ticking == IF refreshTimer THEN timers ELSE timers + 1

StartOverlay ==
    /\ TwinGesture
    /\ polls < MaxTwinPolls
    /\ overlayActive' = TRUE
    /\ polls' = polls + 1
    /\ timers' = Ticking
    /\ refreshTimer' = TRUE
    /\ UNCHANGED <<layers, handlers, panelPart, dialogPart>>

StopOverlay ==
    /\ TwinGesture
    /\ overlayActive' = FALSE
    /\ timers' = IF refreshTimer THEN timers - 1 ELSE timers
    /\ refreshTimer' = FALSE
    /\ layers' = FALSE
    /\ UNCHANGED <<polls, handlers, panelPart, dialogPart>>

\* refreshOverlay: of the timer, or of the exposed function.
Poll ==
    /\ TwinGesture
    /\ polls < MaxTwinPolls
    /\ overlayActive
    /\ polls' = polls + 1
    /\ UNCHANGED <<overlayActive, timers, refreshTimer, layers, handlers, panelPart, dialogPart>>

\* applyMapOverlay: new layers, or their data set; nobody asks whether the
\* overlay is still active.
PollArrives ==
    /\ polls > 0
    /\ polls' = polls - 1
    /\ layers' = TRUE
    /\ handlers' = IF layers THEN handlers ELSE handlers + 1
    /\ UNCHANGED <<overlayActive, timers, refreshTimer, panelPart, dialogPart, twinGestures>>

PollFails ==
    /\ polls > 0
    /\ polls' = polls - 1
    /\ UNCHANGED <<overlayActive, timers, refreshTimer, layers, handlers,
                   panelPart, dialogPart, twinGestures>>

-----------------------------------------------------------------------------
TwinSection(says, cell) == [says |-> says, of |-> cell]

\* Mutant: the cell of the event is kept, not the one that is asked for.
RawCell(c) == c

ExtractCellId(c) == Rollup[c]

\* onAuditOpen, once for each of the events: a section that loads takes the
\* place of the sections there, and every event asks for the state.
OnAuditOpen(c, events) ==
    /\ inflightCell' = ExtractCellId(c)
    /\ states' = states \cup
           {[no |-> twinGestures, event |-> k, cell |-> Rollup[c]] : k \in 1 .. events}
    /\ sections' = {TwinSection("loading", Rollup[c])}

\* The page opened a bundle, or a cell of the layer was clicked: then every
\* registered handler dispatches an event of its own.
AuditOpen(c, ofLayer) ==
    /\ TwinGesture
    /\ ofLayer => layers /\ handlers > 0
    /\ OnAuditOpen(c, IF ofLayer THEN handlers ELSE 1)
    /\ UNCHANGED <<mapPart, dialogPart>>

\* The page renders the panel anew: loading, or an error.
PanelRendered ==
    /\ TwinGesture
    /\ sections' = {}
    /\ UNCHANGED <<mapPart, inflightCell, states, dialogPart>>

\* Mutant: the answer of any cell is shown.
AnyCell(a) == TRUE

LastAsked(a) == a.cell = inflightCell

\* A record, no record, or an error; the user may have moved on.
StateArrives(a) ==
    /\ states' = states \ {a}
    /\ IF LastAsked(a)
       THEN \E says \in {"telemetry", "empty", "error"} : sections' = {TwinSection(says, a.cell)}
       ELSE UNCHANGED sections
    /\ UNCHANGED <<mapPart, inflightCell, dialogPart, twinGestures>>

-----------------------------------------------------------------------------
\* openAiModal: any dialog is removed, but not its listener.
OpenAiModal(s) ==
    /\ TwinGesture
    /\ s.says = "telemetry"
    /\ inspector' = {[no |-> twinGestures + 1, cell |-> s.of, asked |-> FALSE]}
    /\ escapes' = escapes \cup {twinGestures + 1}
    /\ UNCHANGED <<mapPart, panelPart>>

CloseInspector ==
    /\ TwinGesture
    /\ inspector' = {}
    /\ UNCHANGED <<mapPart, panelPart, escapes>>

\* Each listener removes its dialog and itself.
EscapeKey ==
    /\ TwinGesture
    /\ inspector' = {d \in inspector : d.no \notin escapes}
    /\ escapes' = {}
    /\ UNCHANGED <<mapPart, panelPart>>

Submit(d) ==
    /\ TwinGesture
    /\ ~d.asked
    /\ inspector' = {[d EXCEPT !.asked = TRUE]}
    /\ UNCHANGED <<mapPart, panelPart, escapes>>

\* The answer or the error is rendered, and in both cases the button is freed.
Answered(d) ==
    /\ d.asked
    /\ inspector' = {[d EXCEPT !.asked = FALSE]}
    /\ UNCHANGED <<mapPart, panelPart, escapes, twinGestures>>

TwinNext ==
    \/ StartOverlay \/ StopOverlay \/ Poll \/ PollArrives \/ PollFails
    \/ \E c \in FineCells, ofLayer \in BOOLEAN : AuditOpen(c, ofLayer)
    \/ PanelRendered
    \/ \E a \in states : StateArrives(a)
    \/ \E s \in sections : OpenAiModal(s)
    \/ CloseInspector \/ EscapeKey
    \/ \E d \in inspector : Submit(d) \/ Answered(d)

\* Every request is answered or fails.
TwinFairness == WF_twinVars(\E a \in states : StateArrives(a))

TwinSpec == TwinInit /\ [][TwinNext]_twinVars /\ TwinFairness

-----------------------------------------------------------------------------
\* No interval outlives a stop, in whatever order the button and the exposed
\* functions start and stop the overlay (twin_overlay.js:608-625, 1002-1008).
NoTimerAfterStop == overlayActive \/ timers = 0

\* The panel has one twin section at most, and it is of the cell last audited,
\* although the page may have removed sections and the answers come in any
\* order (twin_overlay.js:932-985).
SectionIsOfLastAudit ==
    /\ Cardinality(sections) <= 1
    /\ \A s \in sections : s.of = inflightCell

\* A section that loads settles or goes (twin_overlay.js:941-984).
TwinSectionSettles ==
    (\E s \in sections : s.says = "loading") ~> ~ \E s \in sections : s.says = "loading"
=============================================================================
