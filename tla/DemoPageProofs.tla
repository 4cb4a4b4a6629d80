--------------------------- MODULE DemoPageProofs ---------------------------
(***************************************************************************)
(* Proofs about DemoPage, for any views, cells and epochs, any answers of  *)
(* the server, and any number of gestures and clicks.                      *)
(*                                                                         *)
(* What a map at rest shows follows from an invariant about a page that is *)
(* not at rest: whenever the user has let go, the request for the view and *)
(* epoch of now is the one under way, or its outcome is on the map.        *)
(***************************************************************************)
EXTENDS DemoPage, TLAPS

Answered == source = Features([view |-> view, epoch |-> currentEpoch])

\* At most the last request of refreshCells is under way.
OneFetch == fetches \subseteq {lastFetchAbort}

\* Once the user has let go, either the request for what is to be shown is
\* under way, or its outcome is on the map and known to the overlays.
Current ==
    loaded /\ ~debounce /\ ~sliding =>
        /\ fetches = {} => mobydbState.currentEpoch = currentEpoch
        /\ view \in HighViews =>
             \/ /\ fetches # {}
                /\ lastFetchAbort = [view |-> view, epoch |-> currentEpoch]
                /\ hint = "none"
             \/ /\ fetches = {}
                /\ \/ Answered /\ hint = "none" /\ currentEpoch \in epochs_touched
                   \/ source = {} /\ hint = "server"

MapInv == mobydbState.cells = source /\ OneFetch /\ Current

PageInv == PageTypeOK /\ MapInv /\ LoadingIsAwaited /\ VerdictIsOfBundle

-----------------------------------------------------------------------------
\* The features of an answer are features.
LEMMA FeaturesType ==
    ASSUME NEW f \in Fetch
    PROVE  Features(f) \subseteq Feature
  BY PageAssumption DEF Features, Fetch, Feature

\* The page starts in the invariant.
LEMMA PageInitInv == PageInit => PageInv
  <1> SUFFICES ASSUME PageInit
               PROVE  PageInv
    OBVIOUS
  <1>1. PageTypeOK
    BY PageAssumption DEF PageInit, PageTypeOK
  <1>2. MapInv
    BY DEF PageInit, MapInv, OneFetch, Current
  <1>3. LoadingIsAwaited /\ VerdictIsOfBundle
    BY DEF PageInit, EmptyPanel, LoadingIsAwaited, VerdictIsOfBundle
  <1> QED
    BY <1>1, <1>2, <1>3 DEF PageInv

\* What refreshCells may leave behind.
LEMMA RefreshInv ==
    ASSUME PageTypeOK, MapInv, RefreshCells,
           loaded' \in BOOLEAN,
           UNCHANGED <<view, currentEpoch, epochs_touched>>
    PROVE  /\ fetches' \subseteq Fetch
           /\ lastFetchAbort' \in Fetch \cup {None}
           /\ source' \subseteq Feature
           /\ mobydbState' \in [cells : SUBSET Feature, currentEpoch : Epochs]
           /\ hint' \in {"none", "zoom", "server"}
           /\ MapInv'
  <1>1. CASE view \notin HighViews
    BY <1>1 DEF PageTypeOK, MapInv, OneFetch, Current, RefreshCells, Paint
  <1>2. CASE view \in HighViews
    <2>1. lastFetchAbort' = [view |-> view, epoch |-> currentEpoch] /\ hint' = "none"
      BY <1>2 DEF RefreshCells
    <2>2. lastFetchAbort' \in Fetch
      BY <2>1 DEF PageTypeOK, Fetch
    <2>3. fetches' = {lastFetchAbort'} /\ UNCHANGED <<source, mobydbState>>
      BY <1>2 DEF RefreshCells, MapInv, OneFetch
    <2> QED
      BY <1>2, <2>1, <2>2, <2>3 DEF PageTypeOK, MapInv, OneFetch, Current
  <1> QED
    BY <1>1, <1>2

\* A step of the map, or of the verification, keeps the invariant.
LEMMA MapStepInv ==
    ASSUME PageTypeOK, MapInv, LoadingIsAwaited, VerdictIsOfBundle, MapStep
    PROVE  PageInv'
  <1>1. CASE Load
    <2>1. /\ RefreshCells
          /\ loaded' \in BOOLEAN
          /\ UNCHANGED <<view, currentEpoch, epochs_touched>>
      BY <1>1 DEF Load
    <2>2. PageTypeOK' /\ MapInv'
      BY <1>1, <2>1, RefreshInv DEF Load, PageTypeOK, auditVars
    <2> QED
      BY <1>1, <2>2 DEF PageInv, Load, auditVars,
         LoadingIsAwaited, VerdictIsOfBundle
  <1>2. CASE DebounceFires
    <2>1. /\ RefreshCells
          /\ loaded' \in BOOLEAN
          /\ UNCHANGED <<view, currentEpoch, epochs_touched>>
      BY <1>2 DEF DebounceFires, PageTypeOK
    <2>2. PageTypeOK' /\ MapInv'
      BY <1>2, <2>1, RefreshInv DEF DebounceFires, PageTypeOK, auditVars
    <2> QED
      BY <1>2, <2>2 DEF PageInv, DebounceFires, auditVars,
         LoadingIsAwaited, VerdictIsOfBundle
  <1>3. ASSUME NEW v \in Views, MoveEnd(v)
        PROVE  PageInv'
    <2>1. PageTypeOK'
      BY <1>3 DEF MoveEnd, Gesture, PageTypeOK, auditVars
    <2>2. MapInv'
      BY <1>3 DEF MoveEnd, MapInv, OneFetch, Current, PageTypeOK
    <2> QED
      BY <1>3, <2>1, <2>2 DEF PageInv, MoveEnd, auditVars,
         LoadingIsAwaited, VerdictIsOfBundle
  <1>4. ASSUME NEW e \in Epochs, Input(e)
        PROVE  PageInv'
    <2>1. PageTypeOK'
      BY <1>4 DEF Input, Gesture, PageTypeOK, auditVars
    <2>2. MapInv'
      BY <1>4 DEF Input, MapInv, OneFetch, Current
    <2> QED
      BY <1>4, <2>1, <2>2 DEF PageInv, Input, auditVars,
         LoadingIsAwaited, VerdictIsOfBundle
  <1>5. CASE Change
    <2>1. /\ RefreshCells
          /\ loaded' \in BOOLEAN
          /\ UNCHANGED <<view, currentEpoch, epochs_touched>>
      BY <1>5 DEF Change, PageTypeOK
    <2>2. PageTypeOK' /\ MapInv'
      BY <1>5, <2>1, RefreshInv DEF Change, PageTypeOK, auditVars
    <2> QED
      BY <1>5, <2>2 DEF PageInv, Change, auditVars,
         LoadingIsAwaited, VerdictIsOfBundle
  <1>6. ASSUME NEW f \in fetches, CellsArrive(f)
        PROVE  PageInv'
    <2>1. f \in Fetch /\ f = lastFetchAbort /\ fetches' = {}
      BY <1>6 DEF PageTypeOK, MapInv, OneFetch, CellsArrive
    <2>2. Features(f) \subseteq Feature
      BY <2>1, FeaturesType
    <2>3. PageTypeOK'
      BY <1>6, <2>1, <2>2 DEF CellsArrive, Clear, Paint, PageTypeOK, auditVars
    <2>4. MapInv'
      BY <1>6, <2>1 DEF CellsArrive, Clear, Paint, PageTypeOK, MapInv, OneFetch,
                        Current, Answered
    <2> QED
      BY <1>6, <2>3, <2>4 DEF PageInv, CellsArrive, auditVars,
         LoadingIsAwaited, VerdictIsOfBundle
  <1>7. ASSUME NEW f \in fetches, FetchFails(f)
        PROVE  PageInv'
    <2>1. fetches' = {}
      BY <1>7 DEF MapInv, OneFetch, FetchFails
    <2>2. PageTypeOK'
      BY <1>7, <2>1 DEF FetchFails, Clear, Paint, PageTypeOK, auditVars
    <2>3. MapInv'
      BY <1>7, <2>1 DEF FetchFails, Clear, Paint, MapInv, OneFetch, Current
    <2> QED
      BY <1>7, <2>2, <2>3 DEF PageInv, FetchFails, auditVars,
         LoadingIsAwaited, VerdictIsOfBundle
  <1>8. CASE Verify
    <2>1. panel \in Panel
      BY <1>8 DEF Verify, PageTypeOK, EmptyPanel
    <2>2. PageTypeOK'
      BY <1>8, <2>1 DEF Verify, PageTypeOK, Panel, mapVars
    <2>3. MapInv'
      BY <1>8 DEF Verify, mapVars, MapInv, OneFetch, Current, Answered
    <2> QED
      BY <1>8, <2>1, <2>2, <2>3 DEF PageInv, Verify, Panel,
         LoadingIsAwaited, VerdictIsOfBundle
  <1>9. ASSUME NEW k \in verifying, Verdict(k)
        PROVE  PageInv'
    <2>1. VerdictOf(k) \in {"ok", "bad"}
      BY DEF VerdictOf
    <2>2. panel.shows = "bundle" => panel \in Panel
      BY DEF PageTypeOK, EmptyPanel
    <2>3. PageTypeOK'
      BY <1>9, <2>1, <2>2 DEF Verdict, PageTypeOK, Panel, mapVars
    <2>4. MapInv'
      BY <1>9 DEF Verdict, mapVars, MapInv, OneFetch, Current, Answered
    <2>5. LoadingIsAwaited' /\ VerdictIsOfBundle'
      BY <1>9, <2>2 DEF Verdict, Panel, LoadingIsAwaited, VerdictIsOfBundle, VerdictOf
    <2> QED
      BY <2>3, <2>4, <2>5 DEF PageInv
  <1> QED
    BY <1>1, <1>2, <1>3, <1>4, <1>5, <1>6, <1>7, <1>8, <1>9 DEF MapStep, FetchEnds

\* A click, and the end of its request, keep the invariant.
LEMMA ClickInv ==
    ASSUME PageTypeOK, MapInv, LoadingIsAwaited, VerdictIsOfBundle,
           \/ \E feature \in source : CellClick(feature)
           \/ \E k \in clicks : BundleArrives(k) \/ BundleFails(k)
    PROVE  PageInv'
  <1>1. ASSUME UNCHANGED mapVars
        PROVE  MapInv'
    BY <1>1 DEF mapVars, MapInv, OneFetch, Current, Answered
  <1>2. ASSUME NEW feature \in source, CellClick(feature)
        PROVE  PageInv'
    <2> DEFINE click == [no |-> clicked + 1, cell |-> feature.cell,
                          epoch |-> currentEpoch]
    <2>1. click \in Click /\ feature.cell \in Cells
      BY DEF PageTypeOK, Feature, Click
    <2>2. /\ panel' = [shows |-> "loading", of |-> click, verdict |-> "none"]
          /\ clicks' = clicks \cup {click}
          /\ clicked' = clicked + 1
          /\ selected' = feature.cell
          /\ UNCHANGED <<mapVars, verifying>>
      BY <1>2 DEF CellClick, Show
    <2>3. panel' \in Panel
      BY <2>1, <2>2 DEF Panel
    <2>4. PageTypeOK'
      BY <2>1, <2>2, <2>3 DEF PageTypeOK, mapVars
    <2> QED
      BY <1>1, <2>2, <2>4 DEF PageInv, LoadingIsAwaited, VerdictIsOfBundle
  <1>3. ASSUME NEW k \in clicks, BundleArrives(k) \/ BundleFails(k)
        PROVE  PageInv'
    <2>1. PICK what \in {"bundle", "error"} :
             panel' = [shows |-> what, of |-> k, verdict |-> "none"]
      BY <1>3 DEF BundleArrives, BundleFails, Show
    <2>2. clicks' = clicks \ {k} /\ UNCHANGED <<mapVars, clicked, selected, verifying>>
      BY <1>3 DEF BundleArrives, BundleFails
    <2>3. k \in Click
      BY DEF PageTypeOK
    <2>4. panel' \in Panel
      BY <2>1, <2>3 DEF Panel
    <2>5. PageTypeOK'
      BY <2>2, <2>4 DEF PageTypeOK, mapVars
    <2> QED
      BY <1>1, <2>1, <2>2, <2>5 DEF PageInv, LoadingIsAwaited, VerdictIsOfBundle
  <1> QED
    BY <1>2, <1>3

\* Every step of the page keeps the invariant.
LEMMA PageNextInv == PageInv /\ [PageNext]_pageVars => PageInv'
  <1> SUFFICES ASSUME PageInv, [PageNext]_pageVars
               PROVE  PageInv'
    OBVIOUS
  <1>1. CASE UNCHANGED pageVars
    BY <1>1 DEF pageVars, mapVars, auditVars, PageInv, PageTypeOK, MapInv, OneFetch,
                Current, Answered, LoadingIsAwaited, VerdictIsOfBundle
  <1>2. CASE PageNext
    BY <1>2, MapStepInv, ClickInv DEF PageNext, PageInv
  <1> QED
    BY <1>1, <1>2

\* The invariant holds of the page.
THEOREM PageInvariant == PageSpec => []PageInv
  BY PageInitInv, PageNextInv, PTL DEF PageSpec

\* A map that has come to rest above the threshold shows the view and epoch the
\* user looks at, or says that the server failed (refreshCells).
THEOREM MapShowsView == PageSpec => []SettledShowsView
  <1>1. PageInv => SettledShowsView
    BY DEF PageInv, MapInv, Current, Answered, SettledShowsView, Settled
  <1> QED
    BY <1>1, PageInvariant, PTL

\* The overlays see what is on the map (__syncCellsToBus).
THEOREM StateIsShared == PageSpec => []OverlaysSeeTheMap
  <1>1. PageInv => OverlaysSeeTheMap
    BY DEF PageInv, MapInv, Current, OverlaysSeeTheMap, Settled
  <1> QED
    BY <1>1, PageInvariant, PTL

\* A loading panel awaits the click it names, and a verdict is about the bundle
\* beside it (onCellClick, doVerify).
THEOREM PanelIsHonest == PageSpec => [](LoadingIsAwaited /\ VerdictIsOfBundle)
  <1>1. PageInv => LoadingIsAwaited /\ VerdictIsOfBundle
    BY DEF PageInv
  <1> QED
    BY <1>1, PageInvariant, PTL
=============================================================================
