-------------------------- MODULE LabOverlayProofs --------------------------
(***************************************************************************)
(* Proofs about LabOverlay: it leaves the page as it is, and its sections  *)
(* stand under the bundles they are about until verdicts are awaited.      *)
(***************************************************************************)
EXTENDS LabOverlay, DemoPageProofs

\* A request of the overlay can be aborted, and is about the bundle shown.
OneRequest ==
    \A l \in lab : l.awaits = "response" =>
        /\ l.of.no = inflight
        /\ panel.shows = "bundle" => l.of = panel.of

LabInv == OneRequest /\ BundleHasSection /\ RequestsOfThisBundle

-----------------------------------------------------------------------------
\* Every step of the two is a step the page takes alone.
LEMMA StepOfPage == [LabNext]_labPageVars => [PageNext]_pageVars
  BY DEF LabNext, labPageVars, PageNext, AuditOpen, LabResponse, LabFails, LabVerdict

\* With the overlay loaded the page takes the steps it takes without it
\* (lab_overlay.js is a drop-in: no change of app.js is required).
THEOREM OverlayKeepsPage == LabSpec => PageInit /\ [][PageNext]_pageVars
  BY StepOfPage, PTL DEF LabSpec, LabInit

\* The invariant of the page holds beside the overlay.
LEMMA InvariantBesideOverlay == LabSpec => []PageInv
  <1>1. LabInit => PageInv
    BY PageInitInv DEF LabInit
  <1>2. PageInv /\ [LabNext]_labPageVars => PageInv'
    BY StepOfPage, PageNextInv
  <1> QED
    BY <1>1, <1>2, PTL DEF LabSpec

\* What holds of the page alone holds of it beside the overlay.
THEOREM PageHoldsBesideOverlay ==
    LabSpec => [](/\ SettledShowsView /\ OverlaysSeeTheMap
                  /\ LoadingIsAwaited /\ VerdictIsOfBundle)
  <1>1. PageInv => /\ SettledShowsView /\ OverlaysSeeTheMap
                   /\ LoadingIsAwaited /\ VerdictIsOfBundle
    BY DEF PageInv, MapInv, Current, Answered, SettledShowsView, OverlaysSeeTheMap,
           Settled
  <1> QED
    BY <1>1, InvariantBesideOverlay, PTL

\* The variables of the overlay keep their types.
LEMMA LabTypes ==
    ASSUME LabTypeOK, LabNext
    PROVE  /\ cache' \subseteq LabCells
           /\ inflight' \in Nat
           /\ lab' \subseteq LabCall
           /\ section' \in Section \cup {NoSection}
  <1>1. /\ cache \subseteq LabCells
        /\ inflight \in Nat
        /\ lab \subseteq LabCall
        /\ section \in Section \cup {NoSection}
        /\ clicks \subseteq Click
    BY DEF LabTypeOK, PageTypeOK
  <1>2. ASSUME NEW k \in Click
        PROVE  /\ Awaiting("response", k) \in LabCall
               /\ Awaiting("verdict", k) \in LabCall
               /\ [says |-> "loading", of |-> k] \in Section
               /\ [says |-> "empty", of |-> k] \in Section
               /\ [says |-> "failed", of |-> k] \in Section
               /\ [says |-> "verdict", of |-> k] \in Section
    BY DEF Awaiting, LabCall, Section
  <1>3. CASE UNCHANGED labVars
    BY <1>1, <1>3 DEF labVars
  <1>4. CASE SectionGone
    BY <1>1, <1>4 DEF SectionGone
  <1>5. ASSUME NEW k \in clicks, AuditOpen(k)
        PROVE  /\ cache' \subseteq LabCells
               /\ inflight' \in Nat
               /\ lab' \subseteq LabCall
               /\ section' \in Section \cup {NoSection}
    <2>1. k \in Click /\ k.no \in Nat /\ AfterAbort \subseteq LabCall
      BY <1>1 DEF Click, AfterAbort
    <2>2. inflight' \in Nat /\ cache' \subseteq LabCells
      BY <1>1, <1>5, <2>1 DEF AuditOpen
    <2>3. CASE OpenCached(k)
      <3>1. \/ /\ lab' = AfterAbort \cup {Awaiting("verdict", k)}
               /\ section' = NoSection
            \/ lab' = AfterAbort /\ section' = [says |-> "empty", of |-> k]
        BY <2>3 DEF OpenCached, Attach
      <3> QED
        BY <1>2, <2>1, <2>2, <3>1
    <2>4. CASE OpenFetching(k)
      BY <1>2, <2>1, <2>2, <2>4 DEF OpenFetching, Attach
    <2> QED
      BY <1>5, <2>3, <2>4 DEF AuditOpen
  <1>6. ASSUME NEW l \in lab, LabResponse(l) \/ LabFails(l) \/ LabVerdict(l)
        PROVE  /\ cache' \subseteq LabCells
               /\ inflight' \in Nat
               /\ lab' \subseteq LabCall
               /\ section' \in Section \cup {NoSection}
    <2>1. l.of \in Click /\ Parent[l.of.cell] \in LabCells
      BY <1>1, LabAssumption DEF LabCall, Click
    <2>2. CASE LabResponse(l)
      <3>1. cache' \subseteq LabCells /\ inflight' \in Nat
        BY <1>1, <2>1, <2>2 DEF LabResponse
      <3>2. \/ /\ lab' = (lab \ {l}) \cup {Awaiting("verdict", l.of)}
               /\ section' = section
            \/ lab' = lab \ {l} /\ section' = [says |-> "empty", of |-> l.of]
        BY <2>2 DEF LabResponse, Judge, Attach
      <3> QED
        BY <1>1, <1>2, <2>1, <3>1, <3>2
    <2>3. CASE LabFails(l) \/ LabVerdict(l)
      BY <1>1, <1>2, <2>1, <2>3 DEF LabFails, LabVerdict, Attach
    <2> QED
      BY <1>6, <2>2, <2>3
  <1> QED
    BY <1>3, <1>4, <1>5, <1>6 DEF LabNext

\* Page and overlay are type-correct.
THEOREM LabTypeCorrect == LabSpec => []LabTypeOK
  <1>1. LabInit => LabTypeOK
    BY PageInitInv DEF LabInit, LabTypeOK, PageInv
  <1>2. PageInv' /\ LabTypeOK /\ [LabNext]_labPageVars => LabTypeOK'
    BY LabTypes DEF PageInv, LabTypeOK, labPageVars, labVars
  <1> QED
    BY <1>1, <1>2, InvariantBesideOverlay, PTL DEF LabSpec

-----------------------------------------------------------------------------
\* A step of the page that renders no panel keeps what the panel is of.
LEMMA PanelStays ==
    ASSUME PageTypeOK, MapStep
    PROVE  panel'.shows = panel.shows /\ panel'.of = panel.of
  <1>1. panel \in Panel \cup {EmptyPanel}
    BY DEF PageTypeOK
  <1>2. ASSUME NEW v, panel' = [panel EXCEPT !.verdict = v]
        PROVE  panel'.shows = panel.shows /\ panel'.of = panel.of
    BY <1>1, <1>2 DEF Panel, EmptyPanel
  <1>3. CASE Verify
    BY <1>2, <1>3 DEF Verify
  <1>4. ASSUME NEW k \in verifying, Verdict(k)
        PROVE  panel'.shows = panel.shows /\ panel'.of = panel.of
    BY <1>2, <1>4 DEF Verdict
  <1> QED
    BY <1>3, <1>4 DEF MapStep, Load, DebounceFires, MoveEnd, Input, Change, FetchEnds,
                      CellsArrive, FetchFails, auditVars

\* Opening a bundle aborts the request of the bundle before.
LEMMA OpenInv ==
    ASSUME OneRequest, NEW k \in clicks, AuditOpen(k)
    PROVE  LabInv'
  <1>1. panel'.shows = "bundle" /\ panel'.of = k /\ inflight' = k.no
    BY DEF AuditOpen, BundleArrives, Show
  <1>2. \A l \in AfterAbort : l.awaits # "response"
    BY DEF AfterAbort, OneRequest
  <1>3. ASSUME NEW what, lab' = AfterAbort \cup {Awaiting(what, k)}
        PROVE  OneRequest' /\ \E l \in lab' : l.of = panel'.of
    <2>1. Awaiting(what, k).of = k
      BY DEF Awaiting
    <2>2. \A l \in lab' : l.awaits = "response" => l.of = k
      BY <1>2, <1>3, <2>1
    <2> QED
      BY <1>1, <1>3, <2>1, <2>2 DEF OneRequest
  <1>4. CASE OpenCached(k) /\ Parent[k.cell] \in Recorded
    <2>1. lab' = AfterAbort \cup {Awaiting("verdict", k)} /\ section' = NoSection
      BY <1>4 DEF OpenCached
    <2> QED
      BY <1>3, <2>1 DEF NoSection, LabInv, BundleHasSection, RequestsOfThisBundle
  <1>5. CASE OpenCached(k) /\ Parent[k.cell] \notin Recorded
    <2>1. lab' = AfterAbort /\ section' = [says |-> "empty", of |-> k]
      BY <1>5 DEF OpenCached, Attach
    <2> QED
      BY <1>1, <1>2, <2>1 DEF LabInv, OneRequest, BundleHasSection, RequestsOfThisBundle
  <1>6. CASE OpenFetching(k)
    <2>1. /\ lab' = AfterAbort \cup {Awaiting("response", k)}
          /\ section' = [says |-> "loading", of |-> k]
      BY <1>6 DEF OpenFetching, Attach
    <2> QED
      BY <1>1, <1>3, <2>1 DEF LabInv, BundleHasSection, RequestsOfThisBundle
  <1> QED
    BY <1>4, <1>5, <1>6 DEF AuditOpen

\* A call of the overlay goes on or ends.
LEMMA LabCallInv ==
    ASSUME LabInv, NEW l \in lab, LabResponse(l) \/ LabFails(l) \/ LabVerdict(l)
    PROVE  LabInv'
  <1>1. UNCHANGED <<panel, inflight>>
    BY DEF LabResponse, LabFails, LabVerdict, pageVars, auditVars
  <1>2. CASE LabResponse(l)
    <2>1. CASE Parent[l.of.cell] \in Recorded
      <3>1. /\ lab' = (lab \ {l}) \cup {Awaiting("verdict", l.of)}
            /\ UNCHANGED section
        BY <1>2, <2>1 DEF LabResponse, Judge
      <3>2. /\ Awaiting("verdict", l.of).awaits # "response"
            /\ Awaiting("verdict", l.of).of = l.of
        BY DEF Awaiting
      <3>3. OneRequest' /\ RequestsOfThisBundle'
        BY <1>1, <3>1, <3>2 DEF LabInv, OneRequest, RequestsOfThisBundle
      <3>4. BundleHasSection'
        BY <1>1, <3>1, <3>2 DEF LabInv, BundleHasSection
      <3> QED
        BY <3>3, <3>4 DEF LabInv
    <2>2. CASE Parent[l.of.cell] \notin Recorded
      BY <1>1, <1>2, <2>2 DEF LabResponse, Judge, Attach, LabInv, OneRequest,
                              BundleHasSection, RequestsOfThisBundle
    <2> QED
      BY <2>1, <2>2
  <1>3. CASE LabFails(l)
    BY <1>1, <1>3 DEF LabFails, Attach, LabInv, OneRequest, BundleHasSection,
                      RequestsOfThisBundle
  <1>4. CASE LabVerdict(l)
    BY <1>1, <1>4 DEF LabVerdict, Attach, LabInv, OneRequest, BundleHasSection,
                      RequestsOfThisBundle
  <1> QED
    BY <1>2, <1>3, <1>4

\* Every step of the two keeps the invariant of the overlay.
LEMMA LabNextInv == PageInv /\ LabInv /\ [LabNext]_labPageVars => LabInv'
  <1> SUFFICES ASSUME PageInv, LabInv, [LabNext]_labPageVars
               PROVE  LabInv'
    OBVIOUS
  <1>1. CASE UNCHANGED labPageVars
    BY <1>1 DEF labPageVars, pageVars, auditVars, labVars, LabInv, OneRequest,
                BundleHasSection, RequestsOfThisBundle
  <1>2. CASE MapStep /\ UNCHANGED labVars
    BY <1>2, PanelStays DEF PageInv, labVars, LabInv, OneRequest, BundleHasSection,
                            RequestsOfThisBundle
  <1>3. ASSUME SectionGone, panel'.shows # "bundle"
        PROVE  LabInv'
    BY <1>3 DEF SectionGone, LabInv, OneRequest, BundleHasSection, RequestsOfThisBundle
  <1>4. ASSUME NEW feature \in source, CellClick(feature) /\ SectionGone
        PROVE  LabInv'
    BY <1>3, <1>4 DEF CellClick, Show
  <1>5. ASSUME NEW k \in clicks, BundleFails(k) /\ SectionGone
        PROVE  LabInv'
    BY <1>3, <1>5 DEF BundleFails, Show
  <1> QED
    BY <1>1, <1>2, <1>4, <1>5, OpenInv, LabCallInv DEF LabNext, LabInv

\* What is kept of the lab section holds in every behaviour of page and overlay.
LEMMA LabInvariance == LabSpec => []LabInv
  <1>1. LabInit => LabInv
    BY DEF LabInit, PageInit, EmptyPanel, LabInv, OneRequest, BundleHasSection,
           RequestsOfThisBundle
  <1> QED
    BY <1>1, LabNextInv, InvariantBesideOverlay, PTL DEF LabSpec

\* A bundle on the panel has its section, or a call of the overlay that will
\* attach one (onAuditOpen).
THEOREM BundlesHaveSections == LabSpec => []BundleHasSection
  <1>1. LabInv => BundleHasSection
    BY DEF LabInv
  <1> QED
    BY <1>1, LabInvariance, PTL

\* What a section says of a request, before the verdict, is about the bundle it
\* stands under (onAuditOpen).
THEOREM SectionsArePlaced == LabSpec => []RequestsOfThisBundle
  <1>1. LabInv => RequestsOfThisBundle
    BY DEF LabInv
  <1> QED
    BY <1>1, LabInvariance, PTL
=============================================================================
