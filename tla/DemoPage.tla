------------------------------ MODULE DemoPage ------------------------------
(***************************************************************************)
(* The demo page (demo/app.js): a map whose view the user moves, a slider  *)
(* for the epoch, the signed cells of the view, and the audit panel of a   *)
(* clicked cell.  The page runs one task of the browser at a time; a task  *)
(* is an action.  What is awaited, an answer of the server or a timer,     *)
(* ends in a task of its own, and other tasks come in between.             *)
(*                                                                         *)
(* A view stands for bounds and zoom together.  A request aborted before   *)
(* its answer has been read rejects with AbortError, upon which            *)
(* refreshCells returns: it is as if the request had vanished.             *)
(***************************************************************************)
EXTENDS Naturals

CONSTANTS
    Views,       \* what the user can look at
    HighViews,   \* the views at zoom cell_min_zoom and above
    Cells,       \* the H3 cells of the views
    Epochs,      \* the positions of the slider
    Region,      \* Region[v]: the cells the server finds in the bounds of v
    Sealed,      \* Sealed[e]: the cells the server stores for epoch e
    Genuine,     \* the <<cell, epoch>> whose bundle verifyProvenance accepts
    FirstView, FirstEpoch,  \* where the page starts
    None,        \* no cell, no request
    MaxGestures, \* bound: moves of the map and of the slider
    MaxClicks    \* bound: clicks on cells

ASSUME PageAssumption ==
    /\ HighViews \subseteq Views
    /\ Region \in [Views -> SUBSET Cells]
    /\ Sealed \in [Epochs -> SUBSET Cells]
    /\ Epochs \subseteq Nat
    /\ FirstView \in Views
    /\ FirstEpoch \in Epochs
    /\ None \notin Cells
    /\ None \notin [view : Views, epoch : Epochs]
    /\ MaxGestures \in Nat
    /\ MaxClicks \in Nat

VARIABLES
    loaded,          \* MapLibre's "load" has been handled
    view,            \* map.getBounds() and map.getZoom()
    debounce,        \* the timer of a debounced refreshCells is armed
    currentEpoch,
    sliding,         \* the slider is held: "input" without its "change"
    fetches,         \* the requests of refreshCells under way
    lastFetchAbort,  \* the request this controller can abort
    source,          \* the features of map source "cells"
    mobydbState,     \* what the overlays see: the cells and their epoch
    epochs_touched,
    hint,            \* the hint over the map
    gestures,        \* for the bound: moves made so far
    clicked,         \* the number of the last click
    selected,        \* selectedFeatureId
    clicks,          \* the requests of onCellClick under way
    panel,           \* what the audit panel shows
    verifying        \* the calls of doVerify under way

mapVars == <<loaded, view, debounce, currentEpoch, sliding, fetches, lastFetchAbort,
             source, mobydbState, epochs_touched, hint, gestures>>
auditVars == <<clicked, selected, clicks, panel, verifying>>
pageVars == <<mapVars, auditVars>>

Fetch == [view : Views, epoch : Epochs]
Feature == [cell : Cells, epoch : Epochs]
Click == [no : Nat, cell : Cells, epoch : Epochs]

\* What the panel shows of which click; the verdict belongs to a bundle.
Panel == [shows : {"loading", "bundle", "error"}, of : Click,
          verdict : {"none", "verifying", "ok", "bad"}]
EmptyPanel == [shows |-> "empty", of |-> None, verdict |-> "none"]

PageTypeOK ==
    /\ loaded \in BOOLEAN
    /\ view \in Views
    /\ debounce \in BOOLEAN
    /\ currentEpoch \in Epochs
    /\ sliding \in BOOLEAN
    /\ fetches \subseteq Fetch
    /\ lastFetchAbort \in Fetch \cup {None}
    /\ source \subseteq Feature
    /\ mobydbState \in [cells : SUBSET Feature, currentEpoch : Epochs]
    /\ epochs_touched \subseteq Epochs
    /\ hint \in {"none", "zoom", "server"}
    /\ gestures \in Nat
    /\ clicked \in Nat
    /\ selected \in Cells \cup {None}
    /\ clicks \subseteq Click
    /\ panel \in Panel \cup {EmptyPanel}
    /\ verifying \subseteq Click

PageInit ==
    /\ loaded = FALSE
    /\ view = FirstView
    /\ debounce = FALSE
    /\ currentEpoch = FirstEpoch
    /\ sliding = FALSE
    /\ fetches = {}
    /\ lastFetchAbort = None
    /\ source = {}
    /\ mobydbState = [cells |-> {}, currentEpoch |-> FirstEpoch]
    /\ epochs_touched = {}
    /\ hint = "none"
    /\ gestures = 0
    /\ clicked = 0
    /\ selected = None
    /\ clicks = {}
    /\ panel = EmptyPanel
    /\ verifying = {}

-----------------------------------------------------------------------------
(* The cells of the map.                                                   *)

\* The features made of the server's answer.
Features(f) ==
    {[cell |-> c, epoch |-> f.epoch] : c \in Region[f.view] \cap Sealed[f.epoch]}

\* Mutant: the overlays hear of cells, not of their absence.
PaintQuietly(features) ==
    /\ source' = features
    /\ mobydbState' = IF features = {} THEN mobydbState
                      ELSE [cells |-> features, currentEpoch |-> currentEpoch]

\* setData on the map, then the same to the overlays, under the epoch of now.
Paint(features) ==
    /\ source' = features
    /\ mobydbState' = [cells |-> features, currentEpoch |-> currentEpoch]

\* Mutant: the request under way is left alone.
RefreshWithoutAbort ==
    \/ /\ view \notin HighViews
       /\ Paint({})
       /\ hint' = "zoom"
       /\ UNCHANGED <<fetches, lastFetchAbort>>
    \/ /\ view \in HighViews
       /\ hint' = "none"
       /\ lastFetchAbort' = [view |-> view, epoch |-> currentEpoch]
       /\ fetches' = fetches \cup {lastFetchAbort'}
       /\ UNCHANGED <<source, mobydbState>>

\* refreshCells up to its await: below the threshold it clears the cells and
\* returns, and the request under way goes on; above, it replaces that request.
RefreshCells ==
    \/ /\ view \notin HighViews
       /\ Paint({})
       /\ hint' = "zoom"
       /\ UNCHANGED <<fetches, lastFetchAbort>>
    \/ /\ view \in HighViews
       /\ hint' = "none"
       /\ lastFetchAbort' = [view |-> view, epoch |-> currentEpoch]
       /\ fetches' = (fetches \ {lastFetchAbort}) \cup {lastFetchAbort'}
       /\ UNCHANGED <<source, mobydbState>>

\* The style is there: the source is added, moveend is listened to.
Load ==
    /\ ~loaded
    /\ loaded' = TRUE
    /\ RefreshCells
    /\ UNCHANGED <<view, debounce, currentEpoch, sliding, epochs_touched, gestures,
                   auditVars>>

Gesture ==
    /\ gestures < MaxGestures
    /\ gestures' = gestures + 1

\* moveend: the debounced refreshCells is put off, or armed.
MoveEnd(v) ==
    /\ Gesture
    /\ v # view
    /\ view' = v
    /\ debounce' = (debounce \/ loaded)
    /\ UNCHANGED <<loaded, currentEpoch, sliding, fetches, lastFetchAbort, source,
                   mobydbState, epochs_touched, hint, auditVars>>

\* Mutant: an interval in place of the timeout.
DebounceRepeats ==
    /\ debounce
    /\ RefreshCells
    /\ UNCHANGED <<loaded, view, debounce, currentEpoch, sliding, epochs_touched,
                   gestures, auditVars>>

\* No moveend for 400 ms.
DebounceFires ==
    /\ debounce
    /\ debounce' = FALSE
    /\ RefreshCells
    /\ UNCHANGED <<loaded, view, currentEpoch, sliding, epochs_touched, gestures,
                   auditVars>>

\* Mutant: the slider has a position after the last epoch.
InputAfterLast(e) ==
    /\ Gesture
    /\ e + 1 # currentEpoch
    /\ currentEpoch' = e + 1
    /\ sliding' = TRUE
    /\ UNCHANGED <<loaded, view, debounce, fetches, lastFetchAbort, source, mobydbState,
                   epochs_touched, hint, auditVars>>

\* "input": the epoch changes while the slider is dragged.
Input(e) ==
    /\ Gesture
    /\ e # currentEpoch
    /\ currentEpoch' = e
    /\ sliding' = TRUE
    /\ UNCHANGED <<loaded, view, debounce, fetches, lastFetchAbort, source, mobydbState,
                   epochs_touched, hint, auditVars>>

\* "change": the slider is let go.
Change ==
    /\ sliding
    /\ sliding' = FALSE
    /\ RefreshCells
    /\ UNCHANGED <<loaded, view, debounce, currentEpoch, epochs_touched, gestures,
                   auditVars>>

\* The catch clause of refreshCells.
Clear ==
    /\ Paint({})
    /\ hint' = "server"

\* The answer of query_cells_in_region, booked under the epoch of now.  Before
\* "load" there is no source to paint: setData throws, and the catch clause runs.
CellsArrive(f) ==
    /\ fetches' = fetches \ {f}
    /\ epochs_touched' = epochs_touched \cup {currentEpoch}
    /\ \/ loaded /\ Paint(Features(f)) /\ UNCHANGED hint
       \/ ~loaded /\ Clear
    /\ UNCHANGED <<loaded, view, debounce, currentEpoch, sliding, lastFetchAbort,
                   gestures, auditVars>>

\* No answer, an error, or a viewport of too many cells.
FetchFails(f) ==
    /\ fetches' = fetches \ {f}
    /\ Clear
    /\ UNCHANGED <<loaded, view, debounce, currentEpoch, sliding, lastFetchAbort,
                   epochs_touched, gestures, auditVars>>

-----------------------------------------------------------------------------
(* The audit panel.                                                        *)

Show(what, click) ==
    panel' = [shows |-> what, of |-> click, verdict |-> "none"]

\* onCellClick up to its await.  The feature is on the map; the epoch asked for
\* is that of the slider.
CellClick(feature) ==
    LET click == [no |-> clicked + 1, cell |-> feature.cell, epoch |-> currentEpoch]
    IN  /\ clicked < MaxClicks
        /\ clicked' = clicked + 1
        /\ selected' = feature.cell
        /\ clicks' = clicks \cup {click}
        /\ Show("loading", click)
        /\ UNCHANGED <<mapVars, verifying>>

\* get_provenance has found the cell.
BundleArrives(k) ==
    /\ k.cell \in Sealed[k.epoch]
    /\ clicks' = clicks \ {k}
    /\ Show("bundle", k)
    /\ UNCHANGED <<mapVars, clicked, selected, verifying>>

\* Mutant: an error is logged and not shown.
BundleFailsSilently(k) ==
    /\ clicks' = clicks \ {k}
    /\ UNCHANGED <<mapVars, clicked, selected, panel, verifying>>

\* It has not, or there is no answer.
BundleFails(k) ==
    /\ clicks' = clicks \ {k}
    /\ Show("error", k)
    /\ UNCHANGED <<mapVars, clicked, selected, verifying>>

\* doVerify up to its await: it holds on to the elements of this panel.
Verify ==
    /\ panel.shows = "bundle"
    /\ panel.verdict # "verifying"
    /\ panel' = [panel EXCEPT !.verdict = "verifying"]
    /\ verifying' = verifying \cup {panel.of}
    /\ UNCHANGED <<mapVars, clicked, selected, clicks>>

VerdictOf(k) == IF <<k.cell, k.epoch>> \in Genuine THEN "ok" ELSE "bad"

\* Mutant: the elements are looked up when the verdict is there.
VerdictLookedUp(k) ==
    /\ verifying' = verifying \ {k}
    /\ panel' = IF panel.shows = "bundle"
                THEN [panel EXCEPT !.verdict = VerdictOf(k)] ELSE panel
    /\ UNCHANGED <<mapVars, clicked, selected, clicks>>

\* The verdict, 120 ms later, written to elements that may be gone.
Verdict(k) ==
    /\ verifying' = verifying \ {k}
    /\ panel' = IF panel.shows = "bundle" /\ panel.of = k
                THEN [panel EXCEPT !.verdict = VerdictOf(k)] ELSE panel
    /\ UNCHANGED <<mapVars, clicked, selected, clicks>>

-----------------------------------------------------------------------------
\* A request of refreshCells ends, in an answer or in an error.
FetchEnds == \E f \in fetches : CellsArrive(f) \/ FetchFails(f)

\* The tasks that leave the elements of the audit panel in place.
MapStep ==
    \/ Load
    \/ DebounceFires
    \/ \E v \in Views : MoveEnd(v)
    \/ \E e \in Epochs : Input(e)
    \/ Change
    \/ FetchEnds
    \/ Verify
    \/ \E k \in verifying : Verdict(k)

PageNext ==
    \/ MapStep
    \/ \E feature \in source : CellClick(feature)
    \/ \E k \in clicks : BundleArrives(k) \/ BundleFails(k)

\* The browser delivers events and timers, and a request ends, be it in an error.
BundleEnds(n) == \E k \in clicks : k.no = n /\ (BundleArrives(k) \/ BundleFails(k))

PageFairness ==
    /\ WF_pageVars(Load)
    /\ WF_pageVars(DebounceFires)
    /\ WF_pageVars(FetchEnds)
    /\ \A n \in 1 .. MaxClicks : WF_pageVars(BundleEnds(n))

PageSpec == PageInit /\ [][PageNext]_pageVars /\ PageFairness

-----------------------------------------------------------------------------
\* The user has let go, and no task of the map is outstanding.
Settled == loaded /\ ~debounce /\ ~sliding /\ fetches = {}

\* A map at rest above the threshold shows the cells of what the user looks at,
\* in the epoch of the slider, and has booked that epoch; or it says that the
\* server failed.  No older answer can be what is left.
SettledShowsView ==
    Settled /\ view \in HighViews =>
       \/ /\ source = Features([view |-> view, epoch |-> currentEpoch])
          /\ hint = "none"
          /\ currentEpoch \in epochs_touched
       \/ source = {} /\ hint = "server"

\* The overlays see the cells that are on the map; at rest, under the slider's
\* epoch.
OverlaysSeeTheMap ==
    /\ mobydbState.cells = source
    /\ Settled => mobydbState.currentEpoch = currentEpoch

\* A panel that says "loading" waits for an answer to the click it names.
LoadingIsAwaited == panel.shows = "loading" => panel.of \in clicks

\* The verdict beside a bundle is about that bundle, whatever the panel showed
\* when verification began.
VerdictIsOfBundle ==
    panel.shows = "bundle" /\ panel.verdict \in {"ok", "bad"} =>
        panel.verdict = VerdictOf(panel.of)

\* Below the threshold only lines are shown: "Clear any existing cells from the
\* previous high-zoom view" (app.js:365-366).
LowZoomShowsNoCells == Settled /\ view \notin HighViews => source = {}
=============================================================================
