----------------------------- MODULE LabOverlay -----------------------------
(***************************************************************************)
(* The lab section of the audit panel (demo/lab_overlay.js), beside the    *)
(* page: whenever the page opens a bundle it dispatches audit-open, and    *)
(* the overlay asks for the predictions about the cell's resolution-8      *)
(* ancestor, verifies the latest record, and appends a section.  The page  *)
(* knows nothing of the section: rendering the panel anew removes it.      *)
(***************************************************************************)
EXTENDS DemoPage

CONSTANTS
    LabCells,  \* cells of resolution 8
    Parent,    \* Parent[c]: h3.cellToParent(c, LAB_RESOLUTION)
    Recorded   \* the lab cells with a prediction

ASSUME LabAssumption ==
    /\ Parent \in [Cells -> LabCells]
    /\ Recorded \subseteq LabCells

VARIABLES
    cache,     \* the lab cells whose response is cached
    inflight,  \* the number of the click whose request this controller aborts
    lab,       \* the calls of onAuditOpen under way, and what each awaits
    section    \* the section under the panel, and the call that attached it

labVars == <<cache, inflight, lab, section>>
labPageVars == <<pageVars, labVars>>

LabCall == [awaits : {"response", "verdict"}, of : Click]
Section == [says : {"loading", "empty", "failed", "verdict"}, of : Click]
NoSection == [says |-> "nothing", of |-> None]

LabTypeOK ==
    /\ PageTypeOK
    /\ cache \subseteq LabCells
    /\ inflight \in Nat
    /\ lab \subseteq LabCall
    /\ section \in Section \cup {NoSection}

LabInit ==
    /\ PageInit
    /\ cache = {}
    /\ inflight = 0
    /\ lab = {}
    /\ section = NoSection

-----------------------------------------------------------------------------
Attach(what, k) == section' = [says |-> what, of |-> k]

Awaiting(what, k) == [awaits |-> what, of |-> k]

\* Mutant: the request of an earlier click goes on.
NoAbort == lab

\* The request of an earlier click rejects, and its call returns; a call that
\* awaits a verdict has no request, and goes on.
AfterAbort == {l \in lab : ~(l.awaits = "response" /\ l.of.no = inflight)}

\* The response is there: a record is verified, no record is a section at once.
Judge(k, calls) ==
    IF Parent[k.cell] \in Recorded
    THEN /\ lab' = calls \cup {Awaiting("verdict", k)}
         /\ UNCHANGED section
    ELSE lab' = calls /\ Attach("empty", k)

\* onAuditOpen for a response in the cache.  The panel has just been rendered.
OpenCached(k) ==
    /\ Parent[k.cell] \in cache
    /\ IF Parent[k.cell] \in Recorded
       THEN lab' = AfterAbort \cup {Awaiting("verdict", k)} /\ section' = NoSection
       ELSE lab' = AfterAbort /\ Attach("empty", k)

\* onAuditOpen for a response that has to be fetched.
OpenFetching(k) ==
    /\ Parent[k.cell] \notin cache
    /\ lab' = AfterAbort \cup {Awaiting("response", k)}
    /\ Attach("loading", k)

\* The page opens a bundle and dispatches audit-open in the same task.
AuditOpen(k) ==
    /\ BundleArrives(k)
    /\ inflight' = k.no
    /\ OpenCached(k) \/ OpenFetching(k)
    /\ UNCHANGED cache

\* The predictions arrive.
LabResponse(l) ==
    /\ l.awaits = "response"
    /\ cache' = cache \cup {Parent[l.of.cell]}
    /\ Judge(l.of, lab \ {l})
    /\ UNCHANGED <<pageVars, inflight>>

\* Mutant: a failed request is only logged.
LabFailsSilently(l) ==
    /\ l.awaits = "response"
    /\ lab' = lab \ {l}
    /\ UNCHANGED <<pageVars, cache, inflight, section>>

\* The request fails.
LabFails(l) ==
    /\ l.awaits = "response"
    /\ lab' = lab \ {l}
    /\ Attach("failed", l.of)
    /\ UNCHANGED <<pageVars, cache, inflight>>

\* verifyLabRecord is done, or has thrown.
LabVerdict(l) ==
    /\ l.awaits = "verdict"
    /\ lab' = lab \ {l}
    /\ Attach("verdict", l.of)
    /\ UNCHANGED <<pageVars, cache, inflight>>

-----------------------------------------------------------------------------
\* The page renders a panel that no audit-open follows.
SectionGone ==
    /\ section' = NoSection
    /\ UNCHANGED <<cache, inflight, lab>>

ClickEnds(n) ==
    \E k \in clicks : k.no = n /\ (AuditOpen(k) \/ (BundleFails(k) /\ SectionGone))

LabNext ==
    \/ MapStep /\ UNCHANGED labVars
    \/ \E feature \in source : CellClick(feature) /\ SectionGone
    \/ \E k \in clicks : AuditOpen(k) \/ (BundleFails(k) /\ SectionGone)
    \/ \E l \in lab : LabResponse(l) \/ LabFails(l) \/ LabVerdict(l)

LabCallEnds(n) ==
    \E l \in lab : l.of.no = n /\ (LabResponse(l) \/ LabFails(l) \/ LabVerdict(l))

\* As for the page; and a request or a verification of the overlay ends.
LabFairness ==
    /\ WF_labPageVars(Load /\ UNCHANGED labVars)
    /\ WF_labPageVars(DebounceFires /\ UNCHANGED labVars)
    /\ WF_labPageVars(FetchEnds /\ UNCHANGED labVars)
    /\ \A n \in 1 .. MaxClicks : WF_labPageVars(ClickEnds(n))
    /\ \A n \in 1 .. MaxClicks : WF_labPageVars(LabCallEnds(n))

LabSpec == LabInit /\ [][LabNext]_labPageVars /\ LabFairness

-----------------------------------------------------------------------------
\* A bundle has its section, or the call that will attach it is under way.
BundleHasSection ==
    panel.shows = "bundle" =>
        \/ section.says \notin {"nothing", "loading"}
        \/ \E l \in lab : l.of = panel.of

\* A section that reports on a request, before the verdict, stands under the
\* bundle it was asked for: requests of earlier clicks have been aborted.
RequestsOfThisBundle ==
    panel.shows = "bundle" /\ section.says \in {"loading", "empty", "failed"} =>
        section.of = panel.of

\* Whenever the user leaves the page alone, every request and timer comes to an
\* end and nothing is left loading.
ComesToRest ==
    <>[](/\ ~debounce /\ fetches = {} /\ clicks = {} /\ lab = {}
         /\ panel.shows # "loading"
         /\ section.says # "loading")

\* The section under a bundle is about the ancestor of that bundle's cell, the
\* verdict included: a call stops when the "user clicked another cell"
\* (lab_overlay.js:443).
SectionOfThisCell ==
    panel.shows = "bundle" /\ section # NoSection =>
        Parent[section.of.cell] = Parent[panel.of.cell]
=============================================================================
