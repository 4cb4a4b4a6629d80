--------------------------- MODULE OverlayProofs ---------------------------
(***************************************************************************)
(* Proofs about the twin, Cuneo, compliance, ticker, preview and verifier  *)
(* scripts of the demo page and about the benchmark, for any number of     *)
(* gestures, stations, devices, records, requests in flight and calls.     *)
(***************************************************************************)
EXTENDS TwinOverlay, CuneoOverlay, ComplianceOverlay, ObserverTicker,
        TilePreview, LabVerify, LatencyBench, FiniteSetTheorems,
        SequenceTheorems, TLAPS

-----------------------------------------------------------------------------
(* The timer of the twin overlay: the interval that runs is the one that   *)
(* is remembered, and it is remembered exactly while the overlay is on.    *)

TimerInv ==
    /\ overlayActive \in BOOLEAN
    /\ refreshTimer = overlayActive
    /\ timers = IF refreshTimer THEN 1 ELSE 0

\* Starts and stops, in any order and number, leave one interval while the
\* overlay is on and none while it is off (twin_overlay.js:591-625).
THEOREM NoTimerIsLeft == TwinSpec => []NoTimerAfterStop
<1>1. TwinInit => TimerInv
  BY DEF TwinInit, TimerInv
<1>2. TimerInv /\ [TwinNext]_twinVars => TimerInv'
  <2>. SUFFICES ASSUME TimerInv, [TwinNext]_twinVars PROVE TimerInv'
    OBVIOUS
  <2>1. CASE StartOverlay
    <3>1. overlayActive' = TRUE /\ refreshTimer' = TRUE
      BY <2>1 DEF StartOverlay
    <3>2. timers' = 1
      BY <2>1 DEF TimerInv, StartOverlay, Ticking
    <3>. QED
      BY <3>1, <3>2 DEF TimerInv
  <2>2. CASE StopOverlay
    <3>1. overlayActive' = FALSE /\ refreshTimer' = FALSE
      BY <2>2 DEF StopOverlay
    <3>2. timers' = 0
      BY <2>2 DEF TimerInv, StopOverlay
    <3>. QED
      BY <3>1, <3>2 DEF TimerInv
  <2>3. CASE UNCHANGED <<overlayActive, timers, refreshTimer>>
    BY <2>3 DEF TimerInv
  <2>4. CASE Poll \/ PollArrives \/ PollFails
    BY <2>3, <2>4 DEF Poll, PollArrives, PollFails
  <2>5. CASE PanelRendered \/ CloseInspector \/ EscapeKey
    BY <2>3, <2>5 DEF PanelRendered, CloseInspector, EscapeKey, mapPart
  <2>6. ASSUME NEW c \in FineCells, NEW ofLayer \in BOOLEAN, AuditOpen(c, ofLayer)
        PROVE  TimerInv'
    BY <2>3, <2>6 DEF AuditOpen, mapPart
  <2>7. ASSUME NEW a \in states, StateArrives(a) PROVE TimerInv'
    BY <2>3, <2>7 DEF StateArrives, mapPart
  <2>8. ASSUME NEW s \in sections, OpenAiModal(s) PROVE TimerInv'
    BY <2>3, <2>8 DEF OpenAiModal, mapPart
  <2>9. ASSUME NEW d \in inspector, Submit(d) \/ Answered(d) PROVE TimerInv'
    BY <2>3, <2>9 DEF Submit, Answered, mapPart
  <2>10. CASE UNCHANGED twinVars
    BY <2>3, <2>10 DEF twinVars
  <2>. QED
    BY <2>1, <2>2, <2>4, <2>5, <2>6, <2>7, <2>8, <2>9, <2>10 DEF TwinNext
<1>3. TimerInv => NoTimerAfterStop
  BY DEF TimerInv, NoTimerAfterStop
<1>. QED
  BY <1>1, <1>2, <1>3, PTL DEF TwinSpec

-----------------------------------------------------------------------------
(* The section of the panel: there is none, or it is of the cell that was  *)
(* asked for last.                                                         *)

SectionInv == sections = {} \/ \E says : sections = {TwinSection(says, inflightCell)}

\* Whatever answers arrive, and in whatever order, the panel shows one twin
\* section at most, of the cell audited last (twin_overlay.js:932-985).
THEOREM SectionsAreOfLastAudit == TwinSpec => []SectionIsOfLastAudit
<1>1. TwinInit => SectionInv
  BY DEF TwinInit, SectionInv
<1>2. SectionInv /\ [TwinNext]_twinVars => SectionInv'
  <2>. SUFFICES ASSUME SectionInv, [TwinNext]_twinVars PROVE SectionInv'
    OBVIOUS
  <2>1. CASE UNCHANGED panelPart
    BY <2>1 DEF SectionInv, panelPart, TwinSection
  <2>2. CASE StartOverlay \/ StopOverlay \/ Poll \/ PollArrives \/ PollFails
    BY <2>1, <2>2 DEF StartOverlay, StopOverlay, Poll, PollArrives, PollFails
  <2>3. CASE CloseInspector \/ EscapeKey
    BY <2>1, <2>3 DEF CloseInspector, EscapeKey
  <2>4. CASE PanelRendered
    BY <2>4 DEF PanelRendered, SectionInv
  <2>5. ASSUME NEW c \in FineCells, NEW ofLayer \in BOOLEAN, AuditOpen(c, ofLayer)
        PROVE  SectionInv'
    BY <2>5 DEF AuditOpen, OnAuditOpen, ExtractCellId, SectionInv, TwinSection
  <2>6. ASSUME NEW a \in states, StateArrives(a) PROVE SectionInv'
    <3>1. inflightCell' = inflightCell
      BY <2>6 DEF StateArrives
    <3>2. CASE LastAsked(a)
      BY <2>6, <3>1, <3>2 DEF StateArrives, LastAsked, SectionInv, TwinSection
    <3>3. CASE ~LastAsked(a)
      BY <2>6, <3>1, <3>3 DEF StateArrives, SectionInv, TwinSection
    <3>. QED
      BY <3>2, <3>3
  <2>7. ASSUME NEW s \in sections, OpenAiModal(s) PROVE SectionInv'
    BY <2>1, <2>7 DEF OpenAiModal
  <2>8. ASSUME NEW d \in inspector, Submit(d) \/ Answered(d) PROVE SectionInv'
    BY <2>1, <2>8 DEF Submit, Answered
  <2>9. CASE UNCHANGED twinVars
    BY <2>1, <2>9 DEF twinVars, panelPart
  <2>. QED
    BY <2>2, <2>3, <2>4, <2>5, <2>6, <2>7, <2>8, <2>9 DEF TwinNext
<1>3. SectionInv => SectionIsOfLastAudit
  <2>1. ASSUME sections = {} PROVE SectionIsOfLastAudit
    <3>1. Cardinality(sections) = 0
      BY <2>1, FS_EmptySet
    <3>. QED
      BY <2>1, <3>1 DEF SectionIsOfLastAudit
  <2>2. ASSUME NEW says, sections = {TwinSection(says, inflightCell)}
        PROVE  SectionIsOfLastAudit
    <3>1. Cardinality(sections) = 1
      BY <2>2, FS_Singleton, Zenon
    <3>2. ASSUME NEW s \in sections PROVE s.of = inflightCell
      BY <2>2, <3>2 DEF TwinSection
    <3>. QED
      BY <3>1, <3>2 DEF SectionIsOfLastAudit
  <2>. QED
    BY <2>1, <2>2 DEF SectionInv
<1>. QED
  BY <1>1, <1>2, <1>3, PTL DEF TwinSpec

-----------------------------------------------------------------------------
(* The markers of the Cuneo overlay.                                       *)

MarkerInv ==
    /\ stationLoads \in Nat
    /\ ActiveStationsAreMarked

\* However often the overlay is switched on and off while the stations are on
\* their way, once it is on and they are here each has one marker
\* (cuneo_overlay.js:626-653, 699-740).
THEOREM StationsAreMarked == PilotSpec => []ActiveStationsAreMarked
<1>1. PilotInit => MarkerInv
  BY DEF PilotInit, MarkerInv, ActiveStationsAreMarked
<1>2. MarkerInv /\ [PilotNext]_pilotVars => MarkerInv'
  <2>. SUFFICES ASSUME MarkerInv, [PilotNext]_pilotVars PROVE MarkerInv'
    OBVIOUS
  <2>1. CASE Activate
    BY <2>1 DEF Activate, MarkerInv, ActiveStationsAreMarked
  <2>2. CASE Deactivate
    BY <2>2 DEF Deactivate, MarkerInv, ActiveStationsAreMarked
  <2>3. CASE StationsArrive
    BY <2>3 DEF StationsArrive, Rendered, MarkerInv, ActiveStationsAreMarked
  <2>4. CASE UNCHANGED <<pilotOn, stationLoads, markers>>
    BY <2>4 DEF MarkerInv, ActiveStationsAreMarked
  <2>5. CASE Close \/ UNCHANGED pilotVars
    BY <2>4, <2>5 DEF Close, pilotVars
  <2>6. ASSUME NEW s \in Stations, MarkerClick(s) PROVE MarkerInv'
    BY <2>4, <2>6 DEF MarkerClick
  <2>7. ASSUME NEW i \in DOMAIN dialogs, Back(i) \/ VerifyClick(i) PROVE MarkerInv'
    BY <2>4, <2>7 DEF Back, VerifyClick
  <2>8. ASSUME NEW i \in DOMAIN dialogs, NEW d \in dialogs[i].rows, RowClick(i, d)
        PROVE  MarkerInv'
    BY <2>4, <2>8 DEF RowClick
  <2>9. ASSUME NEW i \in DOMAIN dialogs, NEW picked, Filter(i, picked) PROVE MarkerInv'
    BY <2>4, <2>9 DEF Filter
  <2>10. ASSUME NEW a \in asks,
                DevicesArrive(a) \/ DetailArrives(a) \/ DetailFails(a) \/ VerdictArrives(a)
         PROVE  MarkerInv'
    BY <2>4, <2>10, Zenon DEF DevicesArrive, DetailArrives, DetailFails, VerdictArrives
  <2>. QED
    BY <2>1, <2>2, <2>3, <2>5, <2>6, <2>7, <2>8, <2>9, <2>10 DEF PilotNext
<1>3. MarkerInv => ActiveStationsAreMarked
  BY DEF MarkerInv
<1>. QED
  BY <1>1, <1>2, <1>3, PTL DEF PilotSpec

-----------------------------------------------------------------------------
(* The verdicts of the Cuneo overlay.  A button has the number of the      *)
(* gesture that asked for its device, and so has the request for a         *)
(* verdict: a gesture asks for one device, whose verdict finds no button   *)
(* of another.                                                             *)

Dialog ==
    [no : Nat, of : Stations, devices : SUBSET Devices, rows : SUBSET Devices,
     wired : Seq(Stations), shows : Devices \cup {0}, button : Nat \X Nat,
     says : {"idle", "loading", "ok", "bad"}]

Request ==
    [for : {"list", "detail", "verdict"}, no : Nat \X Nat, of : Stations,
     device : Devices \cup {0}]

PilotTypeOK ==
    /\ dialogs \in Seq(Dialog)
    /\ asks \subseteq Request
    /\ modalEl \in Nat
    /\ pilotGestures \in 0 .. MaxPilotGestures

\* deviceOf[n] is the device whose detail gesture n asked for, of n gestures.
DialogFits(d, deviceOf, n) ==
    IF d.shows = 0
    THEN d.button = <<0, 0>> /\ d.says = "idle"
    ELSE /\ d.button[1] \in 1 .. n
         /\ d.shows = deviceOf[d.button[1]]
         /\ d.says = "ok" => d.shows \in Signed \/ d.shows \notin Native

RequestFits(a, deviceOf, n) ==
    a.for # "list" =>
        a.no[1] \in 1 .. n /\ a.device = deviceOf[a.no[1]] /\ a.device # 0

Fits(deviceOf) ==
    /\ \A i \in DOMAIN dialogs : DialogFits(dialogs[i], deviceOf, pilotGestures)
    /\ \A a \in asks : RequestFits(a, deviceOf, pilotGestures)

PilotInv ==
    /\ PilotTypeOK
    /\ \E deviceOf \in [1 .. MaxPilotGestures -> Devices \cup {0}] : Fits(deviceOf)

\* A sequence without one of its elements has no others.
LEMMA RemoveAtElements ==
  ASSUME NEW S, NEW q \in Seq(S), NEW k \in 1 .. Len(q)
  PROVE  /\ RemoveAt(q, k) \in Seq(S)
         /\ \A j \in DOMAIN RemoveAt(q, k) : \E i \in DOMAIN q : RemoveAt(q, k)[j] = q[i]
<1>. DEFINE before == SubSeq(q, 1, k - 1)
            after == SubSeq(q, k + 1, Len(q))
<1>1. /\ before \in Seq(S) /\ after \in Seq(S)
      /\ Len(before) = k - 1 /\ Len(after) = Len(q) - k
      /\ \A j \in 1 .. (k - 1) : before[j] = q[j]
      /\ \A j \in 1 .. (Len(q) - k) : after[j] = q[k + j]
  BY SubSeqProperties
<1>2. RemoveAt(q, k) = before \o after
  BY DEF RemoveAt
<1>. HIDE DEF before, after
<1>3. /\ before \o after \in Seq(S)
      /\ Len(before \o after) = Len(before) + Len(after)
      /\ \A j \in 1 .. Len(before) + Len(after) :
             (before \o after)[j] = IF j <= Len(before) THEN before[j] ELSE after[j - Len(before)]
  BY <1>1, ConcatProperties, Zenon
<1>. DEFINE rest == before \o after
<1>4. rest \in Seq(S) /\ Len(rest) = Len(q) - 1 /\ DOMAIN rest = 1 .. (Len(q) - 1)
  <2>1. Len(rest) = (k - 1) + (Len(q) - k)
    BY <1>1, <1>3
  <2>. HIDE DEF rest
  <2>2. rest \in Seq(S)
    BY <1>3 DEF rest
  <2>. QED
    BY <2>1, <2>2
<1>5. ASSUME NEW j \in 1 .. (Len(q) - 1)
      PROVE  rest[j] = IF j < k THEN q[j] ELSE q[j + 1]
  <2>1. rest[j] = IF j <= k - 1 THEN before[j] ELSE after[j - (k - 1)]
    BY <1>1, <1>3
  <2>2. CASE j < k
    BY <1>1, <2>1, <2>2
  <2>3. CASE ~(j < k)
    <3>1. j - (k - 1) \in 1 .. (Len(q) - k) /\ k + (j - (k - 1)) = j + 1
      BY <2>3
    <3>2. after[j - (k - 1)] = q[j + 1]
      BY <1>1, <3>1
    <3>3. ~(j <= k - 1)
      BY <2>3
    <3>. HIDE DEF rest
    <3>. QED
      BY <2>1, <2>3, <3>2, <3>3
  <2>. QED
    BY <2>2, <2>3
<1>. HIDE DEF rest
<1>6. \A j \in DOMAIN rest : \E i \in DOMAIN q : rest[j] = q[i]
  BY <1>4, <1>5
<1>. QED
  BY <1>2, <1>4, <1>6 DEF rest

\* A dialog is closed, and the others stay as they are (cuneo_overlay.js:848-853).
LEMMA ClosedDialogs ==
  ASSUME PilotTypeOK
  PROVE  /\ Closed \in Seq(Dialog)
         /\ \A j \in DOMAIN Closed : \E i \in DOMAIN dialogs : Closed[j] = dialogs[i]
<1>1. CASE Current = {}
  BY <1>1 DEF Closed, PilotTypeOK
<1>2. CASE Current # {}
  <2>1. (CHOOSE i \in Current : TRUE) \in Current
    BY <1>2
  <2>. DEFINE k == CHOOSE i \in Current : TRUE
  <2>2. k \in 1 .. Len(dialogs)
    BY <2>1 DEF Current, PilotTypeOK
  <2>3. Closed = RemoveAt(dialogs, k)
    BY <1>2 DEF Closed
  <2>4. dialogs \in Seq(Dialog)
    BY DEF PilotTypeOK
  <2>. HIDE DEF k
  <2>. QED
    BY <2>2, <2>3, <2>4, RemoveAtElements
<1>. QED
  BY <1>1, <1>2

\* More gestures leave what fits as it is.
LEMMA FitsLonger ==
  ASSUME NEW deviceOf, NEW n \in Nat, NEW m \in Nat, n <= m
  PROVE  /\ \A d : DialogFits(d, deviceOf, n) => DialogFits(d, deviceOf, m)
         /\ \A a : RequestFits(a, deviceOf, n) => RequestFits(a, deviceOf, m)
  BY DEF DialogFits, RequestFits

\* What a dialog of the document is made of.
LEMMA DialogParts ==
  ASSUME PilotTypeOK
  PROVE  /\ DOMAIN dialogs = 1 .. Len(dialogs) /\ Len(dialogs) \in Nat
         /\ dialogs \in [1 .. Len(dialogs) -> Dialog]
         /\ \A i \in DOMAIN dialogs :
                /\ dialogs[i] \in Dialog
                /\ dialogs[i].of \in Stations
                /\ dialogs[i].devices \in SUBSET Devices
                /\ dialogs[i].rows \in SUBSET Devices
                /\ dialogs[i].wired \in Seq(Stations)
                /\ dialogs[i].shows \in Devices \cup {0}
                /\ dialogs[i].button \in Nat \X Nat
<1>1. dialogs \in Seq(Dialog)
  BY DEF PilotTypeOK
<1>2. /\ DOMAIN dialogs = 1 .. Len(dialogs) /\ Len(dialogs) \in Nat
      /\ dialogs \in [1 .. Len(dialogs) -> Dialog]
  BY <1>1, LenProperties, Zenon
<1>3. \A d \in Dialog : /\ d.of \in Stations
                        /\ d.devices \in SUBSET Devices
                        /\ d.rows \in SUBSET Devices
                        /\ d.wired \in Seq(Stations)
                        /\ d.shows \in Devices \cup {0}
                        /\ d.button \in Nat \X Nat
  BY DEF Dialog
<1>. QED
  BY <1>2, <1>3

\* A list of devices is a dialog that shows none of them.
LEMMA ListFits ==
  ASSUME NEW n \in Nat, NEW s \in Stations, NEW devices \in SUBSET Devices
  PROVE  /\ List(n, s, devices) \in Dialog
         /\ \A deviceOf, m : DialogFits(List(n, s, devices), deviceOf, m)
<1>1. <<s>> \in Seq(Stations)
  OBVIOUS
<1>. QED
  BY <1>1 DEF List, Dialog, DialogFits

\* The dialogs of a step that come from those there were, or are lists, and the
\* requests that come from those there were, or are for lists.
LEMMA StepFits ==
  ASSUME PilotInv, PilotTypeOK', pilotGestures' >= pilotGestures,
         \A i \in DOMAIN dialogs' :
             \/ \E j \in DOMAIN dialogs : dialogs'[i] = dialogs[j]
             \/ \A deviceOf, m : DialogFits(dialogs'[i], deviceOf, m),
         \A a \in asks' : a \in asks \/ a.for = "list"
  PROVE  PilotInv'
<1>1. PICK deviceOf \in [1 .. MaxPilotGestures -> Devices \cup {0}] : Fits(deviceOf)
  BY DEF PilotInv
<1>2. pilotGestures \in Nat /\ pilotGestures' \in Nat
  BY DEF PilotInv, PilotTypeOK
<1>3. ASSUME NEW i \in DOMAIN dialogs' PROVE DialogFits(dialogs'[i], deviceOf, pilotGestures')
  BY <1>1, <1>2, FitsLonger DEF Fits
<1>4. ASSUME NEW a \in asks' PROVE RequestFits(a, deviceOf, pilotGestures')
  <2>1. CASE a \in asks
    BY <1>1, <1>2, <2>1, FitsLonger DEF Fits
  <2>2. CASE a.for = "list"
    BY <2>2 DEF RequestFits
  <2>. QED
    BY <2>1, <2>2
<1>5. Fits(deviceOf)'
  BY <1>3, <1>4 DEF Fits
<1>. QED
  BY <1>5 DEF PilotInv

\* A step that closes, opens or asks for the list of a station, of a user's
\* gesture (cuneo_overlay.js:747-833).
LEMMA OpenStationFits ==
  ASSUME PilotInv, PilotGesture, NEW s \in Stations, OpenStation(s)
  PROVE  PilotInv'
<1>. DEFINE n == pilotGestures + 1
<1>1. /\ pilotGestures' = n /\ n \in 1 .. MaxPilotGestures /\ pilotGestures \in Nat
      /\ PilotTypeOK
  BY PilotAssumption DEF PilotInv, PilotTypeOK, PilotGesture
<1>2. Installed[s] \in SUBSET Devices
  BY PilotAssumption
<1>3. CASE s \in deviceCache
  <2>. DEFINE l == List(n, s, Installed[s])
  <2>1. dialogs' = Append(Closed, l) /\ modalEl' = n /\ asks' = asks
    BY <1>3 DEF OpenStation
  <2>2. l \in Dialog /\ \A deviceOf, m : DialogFits(l, deviceOf, m)
    BY <1>1, <1>2, ListFits
  <2>. HIDE DEF l
  <2>3. Closed \in Seq(Dialog)
    BY <1>1, ClosedDialogs
  <2>4. /\ Append(Closed, l) \in Seq(Dialog)
        /\ \A i \in DOMAIN Append(Closed, l) :
               Append(Closed, l)[i] = l \/ (i \in DOMAIN Closed /\ Append(Closed, l)[i] = Closed[i])
    BY <2>2, <2>3
  <2>5. /\ dialogs' \in Seq(Dialog)
        /\ \A i \in DOMAIN dialogs' :
               dialogs'[i] = l \/ (i \in DOMAIN Closed /\ dialogs'[i] = Closed[i])
    BY <2>1, <2>4
  <2>6. PilotTypeOK' /\ pilotGestures' >= pilotGestures
    BY <1>1, <2>1, <2>5 DEF PilotTypeOK
  <2>7. \A i \in DOMAIN dialogs' :
            \/ \E j \in DOMAIN dialogs : dialogs'[i] = dialogs[j]
            \/ \A deviceOf, m : DialogFits(dialogs'[i], deviceOf, m)
    <3>1. \A j \in DOMAIN Closed : \E i \in DOMAIN dialogs : Closed[j] = dialogs[i]
      BY <1>1, ClosedDialogs, Zenon
    <3>. QED
      BY <2>2, <2>5, <3>1, Zenon
  <2>. QED
    BY <2>1, <2>6, <2>7, StepFits
<1>4. CASE s \notin deviceCache
  <2>. DEFINE a == Ask("list", <<n, 0>>, s, 0)
  <2>1. dialogs' = Closed /\ modalEl' = 0 /\ asks' = asks \cup {a}
    BY <1>4 DEF OpenStation, CloseStationModal
  <2>2. a \in Request /\ a.for = "list"
    BY <1>1 DEF Ask, Request
  <2>. HIDE DEF a
  <2>. QED
    BY <1>1, <2>1, <2>2, ClosedDialogs, StepFits DEF PilotTypeOK
<1>. QED
  BY <1>3, <1>4

\* A click on a row asks for the detail of one device, in as many requests as the
\* row has handlers (cuneo_overlay.js:835-846, 907-916).
LEMMA RowClickFits ==
  ASSUME PilotInv, NEW i \in DOMAIN dialogs, NEW d \in dialogs[i].rows, RowClick(i, d)
  PROVE  PilotInv'
<1>. DEFINE n == pilotGestures + 1
            asked == {Ask("detail", <<n, h>>, dialogs[i].wired[h], d) :
                          h \in DOMAIN dialogs[i].wired}
<1>1. /\ pilotGestures' = n /\ n \in 1 .. MaxPilotGestures /\ pilotGestures \in Nat
      /\ asks' = asks \cup asked /\ dialogs' = dialogs /\ modalEl' = modalEl
      /\ PilotTypeOK
  BY PilotAssumption DEF RowClick, PilotInv, PilotTypeOK, PilotGesture
<1>2. /\ d \in Devices /\ d # 0
      /\ \A h \in DOMAIN dialogs[i].wired : h \in Nat /\ dialogs[i].wired[h] \in Stations
  <2>1. dialogs[i].rows \in SUBSET Devices /\ dialogs[i].wired \in Seq(Stations)
    BY <1>1, DialogParts
  <2>. QED
    BY <2>1, PilotAssumption
<1>3. \A a \in asked : /\ a \in Request /\ a.for # "list"
                       /\ a.no[1] = n /\ a.device = d
  BY <1>1, <1>2 DEF Ask, Request
<1>. HIDE DEF asked
<1>4. PilotTypeOK'
  BY <1>1, <1>3 DEF PilotTypeOK
<1>5. PICK deviceOf \in [1 .. MaxPilotGestures -> Devices \cup {0}] : Fits(deviceOf)
  BY DEF PilotInv
<1>6. PICK next \in [1 .. MaxPilotGestures -> Devices \cup {0}] :
          next[n] = d /\ \A k \in 1 .. pilotGestures : next[k] = deviceOf[k]
  <2>1. [deviceOf EXCEPT ![n] = d] \in [1 .. MaxPilotGestures -> Devices \cup {0}]
    BY <1>1, <1>2
  <2>2. [deviceOf EXCEPT ![n] = d][n] = d
    BY <1>1
  <2>3. \A k \in 1 .. pilotGestures : [deviceOf EXCEPT ![n] = d][k] = deviceOf[k]
    BY <1>1
  <2>. QED
    BY <2>1, <2>2, <2>3
<1>7. ASSUME NEW j \in DOMAIN dialogs PROVE DialogFits(dialogs[j], next, n)
  BY <1>1, <1>5, <1>6 DEF Fits, DialogFits
<1>8. ASSUME NEW a \in asks' PROVE RequestFits(a, next, n)
  <2>1. CASE a \in asks
    BY <1>1, <1>5, <1>6, <2>1 DEF Fits, RequestFits
  <2>2. CASE a \in asked
    BY <1>1, <1>2, <1>3, <1>6, <2>2 DEF RequestFits
  <2>. QED
    BY <1>1, <2>1, <2>2
<1>9. Fits(next)'
  BY <1>1, <1>7, <1>8 DEF Fits
<1>. QED
  BY <1>4, <1>6, <1>9 DEF PilotInv

\* The rows wired anew keep what each dialog shows (cuneo_overlay.js:816-846).
LEMMA FilterFits ==
  ASSUME PilotInv, NEW i \in DOMAIN dialogs, NEW picked \in SUBSET dialogs[i].devices,
         Filter(i, picked)
  PROVE  PilotInv'
<1>. DEFINE first == Min({j \in DOMAIN dialogs : dialogs[j].shows = 0})
            refilled == [dialogs EXCEPT ![first].rows = picked, ![first].wired = <<>>]
<1>1. /\ pilotGestures' = pilotGestures + 1 /\ pilotGestures + 1 \in 1 .. MaxPilotGestures
      /\ pilotGestures \in Nat /\ PilotTypeOK
      /\ asks' = asks /\ modalEl' = modalEl
  BY PilotAssumption DEF Filter, PilotInv, PilotTypeOK, PilotGesture
<1>2. dialogs' = [j \in DOMAIN dialogs |->
              IF j \in Current
              THEN [refilled[j] EXCEPT !.wired = Append(@, dialogs[i].of)]
              ELSE refilled[j]]
  BY Zenon DEF Filter
<1>3. /\ dialogs[i].of \in Stations /\ picked \in SUBSET Devices
      /\ dialogs \in [1 .. Len(dialogs) -> Dialog] /\ DOMAIN dialogs = 1 .. Len(dialogs)
      /\ Len(dialogs) \in Nat
  BY <1>1, DialogParts
<1>. HIDE DEF first
<1>4. ASSUME NEW j \in DOMAIN dialogs
      PROVE  /\ refilled[j] \in Dialog
             /\ refilled[j].shows = dialogs[j].shows
             /\ refilled[j].button = dialogs[j].button
             /\ refilled[j].says = dialogs[j].says
  <2>1. dialogs[j] \in Dialog
    BY <1>3
  <2>2. CASE j # first
    <3>1. refilled[j] = dialogs[j]
      BY <2>2
    <3>. QED
      BY <2>1, <3>1
  <2>3. CASE j = first
    <3>1. refilled[j] = [[dialogs[j] EXCEPT !.rows = picked] EXCEPT !.wired = <<>>]
      BY <1>3, <2>3
    <3>2. <<>> \in Seq(Stations)
      OBVIOUS
    <3>. DEFINE once == [dialogs[j] EXCEPT !.rows = picked]
    <3>3. /\ once \in Dialog /\ once.shows = dialogs[j].shows
          /\ once.button = dialogs[j].button /\ once.says = dialogs[j].says
      BY <1>3, <2>1 DEF Dialog
    <3>4. refilled[j] = [once EXCEPT !.wired = <<>>]
      BY <3>1
    <3>. HIDE DEF once
    <3>. QED
      BY <3>2, <3>3, <3>4 DEF Dialog
  <2>. QED
    BY <2>2, <2>3
<1>. HIDE DEF refilled
<1>5. ASSUME NEW j \in DOMAIN dialogs
      PROVE  /\ dialogs'[j] \in Dialog
             /\ dialogs'[j].shows = dialogs[j].shows
             /\ dialogs'[j].button = dialogs[j].button
             /\ dialogs'[j].says = dialogs[j].says
  <2>1. CASE j \notin Current
    BY <1>2, <1>4, <2>1
  <2>2. CASE j \in Current
    <3>1. dialogs'[j] = [refilled[j] EXCEPT !.wired = Append(refilled[j].wired, dialogs[i].of)]
      BY <1>2, <2>2
    <3>2. refilled[j].wired \in Seq(Stations)
      BY <1>4 DEF Dialog
    <3>3. Append(refilled[j].wired, dialogs[i].of) \in Seq(Stations)
      BY <1>3, <3>2
    <3>. QED
      BY <1>4, <3>1, <3>3 DEF Dialog
  <2>. QED
    BY <2>1, <2>2
<1>6. DOMAIN dialogs' = DOMAIN dialogs
  BY <1>2
<1>7. dialogs' \in Seq(Dialog)
  <2>1. dialogs' \in [1 .. Len(dialogs) -> Dialog] /\ Len(dialogs) \in Nat
    BY <1>2, <1>3, <1>5
  <2>. QED
    BY <2>1
<1>8. PICK deviceOf \in [1 .. MaxPilotGestures -> Devices \cup {0}] : Fits(deviceOf)
  BY DEF PilotInv
<1>. DEFINE n == pilotGestures + 1
<1>12. /\ \A d : DialogFits(d, deviceOf, pilotGestures) => DialogFits(d, deviceOf, n)
       /\ \A a : RequestFits(a, deviceOf, pilotGestures) => RequestFits(a, deviceOf, n)
  BY <1>1, FitsLonger
<1>9. ASSUME NEW j \in DOMAIN dialogs' PROVE DialogFits(dialogs'[j], deviceOf, n)
  <2>1. DialogFits(dialogs[j], deviceOf, n)
    BY <1>6, <1>8, <1>12 DEF Fits
  <2>. QED
    BY <1>5, <1>6, <2>1 DEF DialogFits
<1>10. ASSUME NEW a \in asks' PROVE RequestFits(a, deviceOf, n)
  BY <1>1, <1>8, <1>12 DEF Fits
<1>11. Fits(deviceOf)'
  BY <1>1, <1>9, <1>10 DEF Fits
<1>. QED
  BY <1>1, <1>7, <1>11 DEF PilotInv, PilotTypeOK

\* The dialogs of a step that keeps their number, and the requests that were there
\* already: what fits the devices asked for still does.
LEMMA SameFits ==
  ASSUME PilotInv, pilotGestures' \in pilotGestures .. MaxPilotGestures, modalEl' \in Nat,
         DOMAIN dialogs' = DOMAIN dialogs, dialogs' \in [1 .. Len(dialogs) -> Dialog],
         asks' \subseteq Request,
         \A deviceOf : Fits(deviceOf) =>
             /\ \A i \in DOMAIN dialogs : DialogFits(dialogs'[i], deviceOf, pilotGestures)
             /\ \A a \in asks' : RequestFits(a, deviceOf, pilotGestures)
  PROVE  PilotInv'
<1>1. PilotTypeOK /\ pilotGestures \in Nat /\ pilotGestures' \in Nat /\ pilotGestures <= pilotGestures'
  BY PilotAssumption DEF PilotInv, PilotTypeOK
<1>2. dialogs' \in Seq(Dialog)
  BY <1>1, DialogParts
<1>3. PilotTypeOK'
  BY <1>1, <1>2, PilotAssumption DEF PilotTypeOK
<1>4. PICK deviceOf \in [1 .. MaxPilotGestures -> Devices \cup {0}] : Fits(deviceOf)
  BY DEF PilotInv
<1>5. /\ \A i \in DOMAIN dialogs' : DialogFits(dialogs'[i], deviceOf, pilotGestures')
      /\ \A a \in asks' : RequestFits(a, deviceOf, pilotGestures')
  BY <1>1, <1>4, FitsLonger
<1>6. Fits(deviceOf)'
  BY <1>5 DEF Fits
<1>. QED
  BY <1>3, <1>4, <1>6 DEF PilotInv

\* The devices arrive and a dialog lists them (cuneo_overlay.js:747-833).
LEMMA DevicesArriveFits ==
  ASSUME PilotInv, NEW a \in asks, DevicesArrive(a)
  PROVE  PilotInv'
<1>1. PilotTypeOK /\ a \in Request
  BY DEF PilotInv, PilotTypeOK
<1>2. a.no[1] \in Nat /\ a.of \in Stations /\ Installed[a.of] \in SUBSET Devices
  BY <1>1, PilotAssumption DEF Request
<1>3. /\ asks' = asks \ {a} /\ modalEl' = a.no[1] /\ pilotGestures' = pilotGestures
      /\ \/ dialogs' = Append(dialogs, List(a.no[1], a.of, Installed[a.of]))
         \/ dialogs' = Append(dialogs, List(a.no[1], a.of, {}))
  BY DEF DevicesArrive
<1>4. PICK l : /\ l \in Dialog /\ \A deviceOf, m : DialogFits(l, deviceOf, m)
               /\ dialogs' = Append(dialogs, l)
  BY <1>2, <1>3, ListFits
<1>5. dialogs \in Seq(Dialog)
  BY <1>1 DEF PilotTypeOK
<1>6. /\ Append(dialogs, l) \in Seq(Dialog)
      /\ \A i \in DOMAIN Append(dialogs, l) :
             \/ Append(dialogs, l)[i] = l
             \/ i \in DOMAIN dialogs /\ Append(dialogs, l)[i] = dialogs[i]
  BY <1>4, <1>5
<1>7. PilotTypeOK'
  BY <1>1, <1>2, <1>3, <1>4, <1>6 DEF PilotTypeOK
<1>8. pilotGestures' >= pilotGestures
  BY <1>1, <1>3, PilotAssumption DEF PilotTypeOK
<1>. QED
  BY <1>3, <1>4, <1>6, <1>7, <1>8, StepFits

\* The detail arrives in the dialog known, and its button gets the number of the
\* gesture that asked (cuneo_overlay.js:907-1021).
LEMMA DetailArrivesFits ==
  ASSUME PilotInv, NEW a \in asks, DetailArrives(a)
  PROVE  PilotInv'
<1>1. PilotTypeOK /\ a \in Request
  BY DEF PilotInv, PilotTypeOK
<1>10. a.for = "detail"
  BY Zenon DEF DetailArrives
<1>2. /\ a.no \in Nat \X Nat /\ a.of \in Stations /\ a.device \in Devices \cup {0}
      /\ a.for # "list"
  BY <1>1, <1>10 DEF Request
<1>3. asks' = asks \ {a} /\ modalEl' = modalEl /\ pilotGestures' = pilotGestures
  BY Zenon DEF DetailArrives
<1>. DEFINE replaced(i) == [dialogs[i] EXCEPT !.of = a.of, !.shows = a.device,
                                              !.button = a.no, !.says = "idle"]
<1>11. dialogs' = [i \in DOMAIN dialogs |->
              IF i \in Current THEN replaced(i) ELSE dialogs[i]]
  BY Zenon DEF DetailArrives
<1>. HIDE DEF replaced
<1>4. ASSUME NEW i \in Current
      PROVE  /\ dialogs'[i] \in Dialog /\ dialogs'[i].shows = a.device
             /\ dialogs'[i].button = a.no /\ dialogs'[i].says = "idle"
  <2>1. i \in DOMAIN dialogs /\ dialogs[i] \in Dialog
    BY <1>1, DialogParts DEF Current
  <2>2. dialogs'[i] = replaced(i)
    BY <1>11, <2>1
  <2>. QED
    BY <1>2, <2>1, <2>2 DEF Dialog, replaced
<1>5. \A i \in DOMAIN dialogs : i \notin Current => dialogs'[i] = dialogs[i]
  BY <1>11
<1>6. DOMAIN dialogs' = DOMAIN dialogs /\ dialogs' \in [1 .. Len(dialogs) -> Dialog]
  BY <1>1, <1>11, <1>4, <1>5, DialogParts
<1>7. ASSUME NEW deviceOf, Fits(deviceOf), NEW i \in DOMAIN dialogs
      PROVE  DialogFits(dialogs'[i], deviceOf, pilotGestures)
  <2>1. CASE i \in Current
    BY <1>2, <1>4, <1>7, <2>1 DEF Fits, DialogFits, RequestFits
  <2>2. CASE i \notin Current
    BY <1>5, <1>7, <2>2 DEF Fits
  <2>. QED
    BY <2>1, <2>2
<1>8. \A deviceOf : Fits(deviceOf) => \A b \in asks' : RequestFits(b, deviceOf, pilotGestures)
  BY <1>3 DEF Fits
<1>9. pilotGestures' \in pilotGestures .. MaxPilotGestures /\ modalEl' \in Nat
        /\ asks' \subseteq Request
  BY <1>1, <1>3, PilotAssumption DEF PilotTypeOK
<1>. QED
  BY <1>6, <1>7, <1>8, <1>9, SameFits

\* The button asks for a verdict on the device beside it, under its number
\* (cuneo_overlay.js:1016-1031).
LEMMA VerifyClickFits ==
  ASSUME PilotInv, NEW k \in DOMAIN dialogs, VerifyClick(k)
  PROVE  PilotInv'
<1>. DEFINE a == Ask("verdict", dialogs[k].button, dialogs[k].of, dialogs[k].shows)
<1>1. /\ pilotGestures' = pilotGestures + 1 /\ pilotGestures + 1 \in 1 .. MaxPilotGestures
      /\ pilotGestures \in Nat /\ PilotTypeOK /\ modalEl' = modalEl
      /\ asks' = asks \cup {a} /\ dialogs[k].shows # 0
  BY PilotAssumption DEF VerifyClick, PilotInv, PilotTypeOK, PilotGesture
<1>2. dialogs' = [dialogs EXCEPT ![k].says = "loading"]
  BY Zenon DEF VerifyClick
<1>3. /\ dialogs[k] \in Dialog /\ dialogs[k].button \in Nat \X Nat
      /\ dialogs[k].of \in Stations /\ dialogs[k].shows \in Devices \cup {0}
  BY <1>1, DialogParts
<1>4. /\ a \in Request /\ a.for = "verdict" /\ a.no = dialogs[k].button
      /\ a.device = dialogs[k].shows
  BY <1>3 DEF Ask, Request
<1>. HIDE DEF a
<1>5. /\ dialogs'[k] \in Dialog /\ dialogs'[k].shows = dialogs[k].shows
      /\ dialogs'[k].button = dialogs[k].button /\ dialogs'[k].says = "loading"
  <2>1. dialogs'[k] = [dialogs[k] EXCEPT !.says = "loading"]
    BY <1>2
  <2>. QED
    BY <1>3, <2>1 DEF Dialog
<1>6. \A i \in DOMAIN dialogs : i # k => dialogs'[i] = dialogs[i]
  BY <1>2
<1>7. DOMAIN dialogs' = DOMAIN dialogs /\ dialogs' \in [1 .. Len(dialogs) -> Dialog]
  BY <1>1, <1>2, <1>5, <1>6, DialogParts
<1>8. ASSUME NEW deviceOf, Fits(deviceOf), NEW i \in DOMAIN dialogs
      PROVE  DialogFits(dialogs'[i], deviceOf, pilotGestures)
  <2>1. CASE i = k
    BY <1>1, <1>5, <1>8, <2>1 DEF Fits, DialogFits
  <2>2. CASE i # k
    BY <1>6, <1>8, <2>2 DEF Fits
  <2>. QED
    BY <2>1, <2>2
<1>9. ASSUME NEW deviceOf, Fits(deviceOf), NEW b \in asks'
      PROVE  RequestFits(b, deviceOf, pilotGestures)
  <2>1. DialogFits(dialogs[k], deviceOf, pilotGestures)
    BY <1>9 DEF Fits
  <2>2. CASE b = a
    BY <1>1, <1>4, <2>1, <2>2 DEF DialogFits, RequestFits
  <2>3. CASE b \in asks
    BY <1>9, <2>3 DEF Fits
  <2>. QED
    BY <1>1, <2>2, <2>3
<1>10. pilotGestures' \in pilotGestures .. MaxPilotGestures /\ modalEl' \in Nat
         /\ asks' \subseteq Request
  BY <1>1, <1>4 DEF PilotTypeOK
<1>. QED
  BY <1>7, <1>8, <1>9, <1>10, SameFits

\* The verdict arrives, at the button that asked for it when it is still there:
\* the number finds the device (cuneo_overlay.js:1033-1045).
LEMMA VerdictArrivesFits ==
  ASSUME PilotInv, NEW a \in asks, VerdictArrives(a)
  PROVE  PilotInv'
<1>1. PilotTypeOK /\ a \in Request /\ a.for # "list"
  BY DEF PilotInv, PilotTypeOK, VerdictArrives
<1>2. PICK says \in {Verdict(a.device), "bad"} :
          dialogs' = [i \in DOMAIN dialogs |->
              IF i \in Button(a) THEN [dialogs[i] EXCEPT !.says = says] ELSE dialogs[i]]
  BY Zenon DEF VerdictArrives
<1>3. asks' = asks \ {a} /\ modalEl' = modalEl /\ pilotGestures' = pilotGestures
  BY DEF VerdictArrives
<1>4. /\ says \in {"ok", "bad"}
      /\ says = "ok" => a.device \in Signed \/ a.device \notin Native
  BY DEF Verdict
<1>5. ASSUME NEW i \in Button(a)
      PROVE  /\ dialogs'[i] \in Dialog /\ dialogs'[i].shows = dialogs[i].shows
             /\ dialogs'[i].button = dialogs[i].button /\ dialogs'[i].says = says
             /\ dialogs[i].button = a.no
  <2>1. i \in DOMAIN dialogs /\ dialogs[i] \in Dialog /\ dialogs[i].button = a.no
    BY <1>1, DialogParts DEF Button
  <2>2. dialogs'[i] = [dialogs[i] EXCEPT !.says = says]
    BY <1>2, <2>1
  <2>. QED
    BY <1>4, <2>1, <2>2 DEF Dialog
<1>6. \A i \in DOMAIN dialogs : i \notin Button(a) => dialogs'[i] = dialogs[i]
  BY <1>2
<1>7. DOMAIN dialogs' = DOMAIN dialogs /\ dialogs' \in [1 .. Len(dialogs) -> Dialog]
  BY <1>1, <1>2, <1>5, <1>6, DialogParts
<1>8. ASSUME NEW deviceOf, Fits(deviceOf), NEW i \in DOMAIN dialogs
      PROVE  DialogFits(dialogs'[i], deviceOf, pilotGestures)
  <2>1. DialogFits(dialogs[i], deviceOf, pilotGestures)
        /\ RequestFits(a, deviceOf, pilotGestures)
    BY <1>8 DEF Fits
  <2>2. CASE i \in Button(a)
    <3>1. a.no[1] \in 1 .. pilotGestures /\ a.device = deviceOf[a.no[1]] /\ a.device # 0
      BY <1>1, <2>1 DEF RequestFits
    <3>2. dialogs[i].shows # 0
      <4>1. dialogs[i].button[1] # 0
        BY <1>1, <1>5, <2>2, <3>1, PilotAssumption DEF PilotTypeOK
      <4>. QED
        BY <2>1, <4>1 DEF DialogFits
    <3>3. dialogs[i].shows = a.device
      BY <1>5, <2>1, <2>2, <3>1, <3>2 DEF DialogFits
    <3>. QED
      BY <1>4, <1>5, <2>1, <2>2, <3>2, <3>3 DEF DialogFits
  <2>3. CASE i \notin Button(a)
    BY <1>6, <2>1, <2>3
  <2>. QED
    BY <2>2, <2>3
<1>9. \A deviceOf : Fits(deviceOf) => \A b \in asks' : RequestFits(b, deviceOf, pilotGestures)
  BY <1>3 DEF Fits
<1>10. pilotGestures' \in pilotGestures .. MaxPilotGestures /\ modalEl' \in Nat
         /\ asks' \subseteq Request
  BY <1>1, <1>3, PilotAssumption DEF PilotTypeOK
<1>. QED
  BY <1>7, <1>8, <1>9, <1>10, SameFits

\* A dialog is closed, by a gesture or with the overlay.
LEMMA CloseFits ==
  ASSUME PilotInv, PilotGesture, CloseStationModal, asks' = asks
  PROVE  PilotInv'
<1>1. /\ pilotGestures' = pilotGestures + 1 /\ pilotGestures + 1 \in 1 .. MaxPilotGestures
      /\ pilotGestures \in Nat /\ PilotTypeOK /\ modalEl' = 0 /\ dialogs' = Closed
  BY PilotAssumption DEF CloseStationModal, PilotInv, PilotTypeOK, PilotGesture
<1>2. PilotTypeOK'
  BY <1>1, ClosedDialogs DEF PilotTypeOK
<1>. QED
  BY <1>1, <1>2, ClosedDialogs, StepFits

\* Whatever is clicked while verdicts are on their way, and whatever dialogs and
\* details take the place of others, a button says "ok" beside a device that its
\* verdict is of (cuneo_overlay.js:1029-1077).
THEOREM VerdictsAreOfDevice == PilotSpec => []PilotVerdictIsOfDevice
<1>1. PilotInit => PilotInv
  <2>. SUFFICES ASSUME PilotInit PROVE PilotInv
    OBVIOUS
  <2>1. PilotTypeOK
    BY PilotAssumption DEF PilotInit, PilotTypeOK
  <2>2. [n \in 1 .. MaxPilotGestures |-> 0] \in [1 .. MaxPilotGestures -> Devices \cup {0}]
    OBVIOUS
  <2>3. \A deviceOf : Fits(deviceOf)
    BY DEF PilotInit, Fits
  <2>. QED
    BY <2>1, <2>2, <2>3 DEF PilotInv
<1>2. PilotInv /\ [PilotNext]_pilotVars => PilotInv'
  <2>. SUFFICES ASSUME PilotInv, [PilotNext]_pilotVars PROVE PilotInv'
    OBVIOUS
  <2>1. PilotTypeOK /\ pilotGestures \in Nat
    BY PilotAssumption DEF PilotInv, PilotTypeOK
  <2>2. ASSUME UNCHANGED <<dialogs, asks, modalEl>>,
               pilotGestures' \in pilotGestures .. MaxPilotGestures
        PROVE  PilotInv'
    <3>1. PilotTypeOK' /\ pilotGestures' >= pilotGestures
      BY <2>1, <2>2 DEF PilotTypeOK
    <3>. QED
      BY <2>2, <3>1, StepFits
  <2>3. CASE Activate
    BY <2>1, <2>2, <2>3, PilotAssumption DEF Activate, PilotGesture
  <2>4. CASE StationsArrive
    BY <2>1, <2>2, <2>4 DEF StationsArrive, PilotTypeOK
  <2>5. CASE Deactivate \/ Close
    BY <2>5, CloseFits DEF Deactivate, Close
  <2>6. ASSUME NEW s \in Stations, MarkerClick(s) PROVE PilotInv'
    BY <2>6, OpenStationFits DEF MarkerClick
  <2>7. ASSUME NEW i \in DOMAIN dialogs, Back(i) PROVE PilotInv'
    BY <2>1, <2>7, OpenStationFits, DialogParts DEF Back
  <2>8. ASSUME NEW i \in DOMAIN dialogs, VerifyClick(i) PROVE PilotInv'
    BY <2>8, VerifyClickFits
  <2>9. ASSUME NEW i \in DOMAIN dialogs, NEW d \in dialogs[i].rows, RowClick(i, d)
        PROVE  PilotInv'
    BY <2>9, RowClickFits
  <2>10. ASSUME NEW i \in DOMAIN dialogs,
                \/ Filter(i, dialogs[i].devices)
                \/ \E d \in dialogs[i].devices :
                       Filter(i, {e \in dialogs[i].devices : Category[e] = Category[d]})
         PROVE  PilotInv'
    BY <2>10, FilterFits
  <2>11. ASSUME NEW a \in asks, DetailFails(a) PROVE PilotInv'
    <3>1. PilotTypeOK' /\ pilotGestures' >= pilotGestures
      BY <2>1, <2>11 DEF DetailFails, PilotTypeOK
    <3>. QED
      BY <2>11, <3>1, StepFits DEF DetailFails
  <2>12. ASSUME NEW a \in asks, DevicesArrive(a) \/ DetailArrives(a) \/ VerdictArrives(a)
         PROVE  PilotInv'
    BY <2>12, DevicesArriveFits, DetailArrivesFits, VerdictArrivesFits
  <2>13. CASE UNCHANGED pilotVars
    BY <2>1, <2>2, <2>13 DEF pilotVars, PilotTypeOK
  <2>. QED
    BY <2>3, <2>4, <2>5, <2>6, <2>7, <2>8, <2>9, <2>10, <2>11, <2>12, <2>13 DEF PilotNext
<1>3. PilotInv => PilotVerdictIsOfDevice
  <2>. SUFFICES ASSUME PilotInv, NEW i \in DOMAIN dialogs, dialogs[i].says = "ok"
                PROVE  dialogs[i].shows \in Signed \/ dialogs[i].shows \notin Native
    BY DEF PilotVerdictIsOfDevice
  <2>. QED
    BY DEF PilotInv, Fits, DialogFits
<1>. QED
  BY <1>1, <1>2, <1>3, PTL DEF PilotSpec

-----------------------------------------------------------------------------
(* The compliance view: the source has a feature for each shared cell, so  *)
(* a paint leaves no tier of an earlier epoch behind.                      *)

ViewInv ==
    /\ viewOn \in BOOLEAN /\ mapLoaded \in BOOLEAN
    /\ DOMAIN tiers = sharedCells
    /\ TiersFollowSharedState

\* A paint of features whose cells are the shared ones gives each its tier.
LEMMA PaintIsWhole ==
  ASSUME NEW features, NEW cells, NEW epoch, DOMAIN features = cells,
         Paint(features, cells, epoch)
  PROVE  /\ colours' = "tiers"
         /\ tiers' = [c \in cells |-> Tier(c, epoch)]
<1>. DEFINE T(c) == Tier(c, epoch)
<1>1. colours' = "tiers"
      /\ tiers' = [c \in DOMAIN features |-> IF c \in cells THEN T(c) ELSE features[c]]
  BY DEF Paint, Annotated
<1>. HIDE DEF T
<1>2. [c \in DOMAIN features |-> IF c \in cells THEN T(c) ELSE features[c]]
        = [c \in cells |-> T(c)]
  OBVIOUS
<1>3. tiers' = [c \in cells |-> T(c)]
  BY <1>1, <1>2
<1>. QED
  BY <1>1, <1>3 DEF T

\* Toggles, cells, slider moves and source events come in any order, and each
\* feature has the tier of its cell at the shared state's epoch
\* (compliance_overlay.js:433-448, 533-591; app.js:737-746).
THEOREM TiersAreOfSharedState == ComplianceSpec => []TiersFollowSharedState
<1>1. ComplianceInit => ViewInv
  BY DEF ComplianceInit, Plain, ViewInv, TiersFollowSharedState
<1>2. ViewInv /\ [ComplianceNext]_complianceVars => ViewInv'
  <2>. SUFFICES ASSUME ViewInv, [ComplianceNext]_complianceVars PROVE ViewInv'
    OBVIOUS
  <2>1. ASSUME Paint(tiers, sharedCells, sharedEpoch),
               sharedCells' = sharedCells, sharedEpoch' = sharedEpoch,
               viewOn' \in BOOLEAN, mapLoaded' \in BOOLEAN
        PROVE  ViewInv'
    <3>1. colours' = "tiers" /\ tiers' = [c \in sharedCells |-> Tier(c, sharedEpoch)]
      BY <2>1, PaintIsWhole DEF ViewInv
    <3>2. tiers' = [c \in sharedCells' |-> Tier(c, sharedEpoch')] /\ DOMAIN tiers' = sharedCells'
      BY <2>1, <3>1
    <3>. QED
      BY <2>1, <3>1, <3>2 DEF ViewInv, TiersFollowSharedState, Tier, Passed
  <2>2. CASE UNCHANGED <<viewOn, mapLoaded, sharedEpoch, sharedCells, tiers, colours>>
    BY <2>2 DEF ViewInv, TiersFollowSharedState, Tier, Passed
  <2>3. CASE MapLoads
    <3>1. CASE viewOn
      BY <2>1, <2>3, <3>1 DEF MapLoads, ViewInv
    <3>2. CASE ~viewOn
      BY <2>3, <3>2 DEF MapLoads, ViewInv, TiersFollowSharedState
    <3>. QED
      BY <3>1, <3>2
  <2>4. CASE ToggleView
    <3>1. CASE mapLoaded /\ ~viewOn
      BY <2>1, <2>4, <3>1 DEF ToggleView, ViewInv
    <3>2. CASE ~(mapLoaded /\ ~viewOn)
      BY <2>4, <3>2 DEF ToggleView, ViewInv, TiersFollowSharedState
    <3>. QED
      BY <3>1, <3>2
  <2>5. ASSUME NEW cells \in SUBSET ScoredCells, CellsSynced(cells) PROVE ViewInv'
    <3>1. sharedCells' = cells /\ sharedEpoch' = slider /\ viewOn' = viewOn
            /\ mapLoaded' = mapLoaded
      BY <2>5 DEF CellsSynced
    <3>2. CASE viewOn
      <4>1. colours' = "tiers" /\ tiers' = [c \in cells |-> Tier(c, slider)]
        BY <2>5, <3>2, PaintIsWhole DEF CellsSynced, OnCells, Plain
      <4>2. tiers' = [c \in sharedCells' |-> Tier(c, sharedEpoch')] /\ DOMAIN tiers' = sharedCells'
        BY <3>1, <4>1
      <4>. QED
        BY <3>1, <4>1, <4>2 DEF ViewInv, TiersFollowSharedState, Tier, Passed
    <3>3. CASE ~viewOn
      BY <2>5, <3>1, <3>3 DEF CellsSynced, OnCells, Plain, ViewInv, TiersFollowSharedState
    <3>. QED
      BY <3>2, <3>3
  <2>6. CASE EpochEvent
    BY <2>1, <2>2, <2>6 DEF EpochEvent, ViewInv
  <2>7. CASE SourceData
    BY <2>1, <2>2, <2>7 DEF SourceData, ViewInv
  <2>8. CASE PanelCleared \/ LegendBack
    BY <2>2, <2>8 DEF PanelCleared, LegendBack
  <2>9. ASSUME NEW c \in ScoredCells, AuditOpens(c) PROVE ViewInv'
    BY <2>2, <2>9 DEF AuditOpens
  <2>10. ASSUME NEW e \in SliderEpochs, SliderInput(e) PROVE ViewInv'
    BY <2>2, <2>10 DEF SliderInput
  <2>11. CASE UNCHANGED complianceVars
    BY <2>2, <2>11 DEF complianceVars
  <2>. QED
    BY <2>3, <2>4, <2>5, <2>6, <2>7, <2>8, <2>9, <2>10, <2>11 DEF ComplianceNext
<1>3. ViewInv => TiersFollowSharedState
  BY DEF ViewInv
<1>. QED
  BY <1>1, <1>2, <1>3, PTL DEF ComplianceSpec

-----------------------------------------------------------------------------
(* The ticker: a timer that runs is the one remembered.  A release clears  *)
(* the one before it, be it pending or fired, and a text the one before.   *)

TickerInv ==
    /\ phase \in {"fetching", "waiting", "running"}
    /\ releases = IF phase = "running" THEN {releaseTimer} ELSE {}
    /\ DOMAIN typewriters \subseteq {typewriterTimer}

\* A release that begins with at most the remembered timer running ends with the
\* new one alone (ai_observer_ticker.js:404-408).
LEMMA OneRelease ==
    ASSUME NEW running, running \subseteq {releaseTimer}, ScheduleNextRelease(running)
    PROVE  releases' = {releaseTimer'}
BY DEF ScheduleNextRelease, Cleared

\* A text that begins ends the one before (ai_observer_ticker.js:310-328).
LEMMA OneText ==
    ASSUME DOMAIN typewriters \subseteq {typewriterTimer}, TypewriteInto
    PROVE  DOMAIN typewriters' \subseteq {typewriterTimer'}
<1>1. PICK w \in TimerIds :
          /\ typewriters' = [x \in Cleared(DOMAIN typewriters, typewriterTimer) \cup {w} |->
                                 IF x = w THEN 0 ELSE typewriters[x]]
          /\ typewriterTimer' = w
  BY DEF TypewriteInto
<1>2. DOMAIN typewriters' = Cleared(DOMAIN typewriters, typewriterTimer) \cup {w}
  BY <1>1
<1>3. Cleared(DOMAIN typewriters, typewriterTimer) = {}
  BY DEF Cleared
<1>. QED
  BY <1>1, <1>2, <1>3

\* Whatever the pools that come back, releases by hand, and texts cut short, the
\* release that is pending and the text that is typed are the remembered ones
\* (ai_observer_ticker.js:310-414).
THEOREM TickerNeverStops == TickerSpec => []TickerGoesOn
<1>1. TickerInit => TickerInv
  BY DEF TickerInit, TickerInv
<1>2. TickerInv /\ [TickerNext]_tickerVars => TickerInv'
  <2>. SUFFICES ASSUME TickerInv, [TickerNext]_tickerVars PROVE TickerInv'
    OBVIOUS
  <2>1. ASSUME NEW running, running \subseteq {releaseTimer}, NEW n, ReleaseOne(running, n)
        PROVE  releases' = {releaseTimer'} /\ DOMAIN typewriters' \subseteq {typewriterTimer'}
    <3>1. releases' = {releaseTimer'}
      BY <2>1, OneRelease DEF ReleaseOne
    <3>2. CASE TypewriteInto
      BY <3>1, <3>2, OneText DEF TickerInv
    <3>3. CASE UNCHANGED textPart
      BY <3>1, <3>3 DEF TickerInv, textPart
    <3>. QED
      BY <2>1, <3>2, <3>3 DEF ReleaseOne
  <2>2. CASE UNCHANGED <<phase, releases, releaseTimer, typewriters, typewriterTimer>>
    BY <2>2 DEF TickerInv
  <2>3. ASSUME NEW n \in 0 .. MaxPool, BootAnswered(n) PROVE TickerInv'
    <3>1. phase = "fetching" /\ phase' = IF n = 0 THEN "waiting" ELSE "running"
      BY <2>3 DEF BootAnswered
    <3>2. releases = {}
      BY <3>1 DEF TickerInv
    <3>3. CASE n > 0
      <4>1. phase' = "running" /\ ReleaseOne(releases, n)
        BY <2>3, <3>1, <3>3 DEF BootAnswered
      <4>. QED
        BY <2>1, <3>2, <4>1 DEF TickerInv
    <3>4. CASE ~(n > 0)
      <4>1. phase' = "waiting" /\ UNCHANGED <<releasePart, textPart>>
        BY <2>3, <3>1, <3>4 DEF BootAnswered
      <4>. QED
        BY <3>2, <4>1 DEF TickerInv, releasePart, textPart
    <3>. QED
      BY <3>3, <3>4
  <2>4. CASE BootRetries
    BY <2>4 DEF BootRetries, releasePart, textPart, TickerInv
  <2>5. ASSUME NEW t \in releases, ReleaseFires(t) PROVE TickerInv'
    <3>1. phase = "running" /\ releases \ {t} \subseteq {releaseTimer}
      BY <2>5 DEF TickerInv
    <3>2. phase' = "running" /\ ReleaseOne(releases \ {t}, pool)
      BY <2>5, <3>1 DEF ReleaseFires
    <3>. QED
      BY <2>1, <3>1, <3>2 DEF TickerInv
  <2>6. CASE ReleaseByHand
    <3>1. phase' = "running" /\ releases \subseteq {releaseTimer} /\ ReleaseOne(releases, pool)
      BY <2>6 DEF ReleaseByHand, TickerInv
    <3>. QED
      BY <2>1, <3>1 DEF TickerInv
  <2>7. ASSUME NEW w \in DOMAIN typewriters, TypewriterTick(w) PROVE TickerInv'
    <3>1. UNCHANGED <<phase, releases, releaseTimer>>
      BY <2>7 DEF TypewriterTick, releasePart
    <3>2. CASE typewriters[w] = TextLength
      <4>1. typewriters' = [x \in Cleared(DOMAIN typewriters, typewriterTimer) |->
                                typewriters[x]]
        BY <2>7, <3>2 DEF TypewriterTick
      <4>2. DOMAIN typewriters' = {}
        BY <4>1 DEF Cleared, TickerInv
      <4>. QED
        BY <3>1, <4>2 DEF TickerInv
    <3>3. CASE typewriters[w] # TextLength
      <4>1. DOMAIN typewriters' = DOMAIN typewriters /\ UNCHANGED typewriterTimer
        BY <2>7, <3>3 DEF TypewriterTick
      <4>. QED
        BY <3>1, <4>1 DEF TickerInv
    <3>. QED
      BY <3>2, <3>3
  <2>8. ASSUME NEW n \in 0 .. MaxPool, RefreshAnswered(n) PROVE TickerInv'
    BY <2>2, <2>8 DEF RefreshAnswered, releasePart, textPart
  <2>9. CASE RefreshStarts \/ Sweep
    BY <2>2, <2>9 DEF RefreshStarts, Sweep, releasePart, textPart
  <2>10. CASE OpenTimeline \/ CloseTimeline
    BY <2>2, <2>10 DEF OpenTimeline, CloseTimeline, releasePart, textPart
  <2>11. CASE UNCHANGED tickerVars
    BY <2>2, <2>11 DEF tickerVars
  <2>. QED
    BY <2>3, <2>4, <2>5, <2>6, <2>7, <2>8, <2>9, <2>10, <2>11 DEF TickerNext
<1>3. TickerInv => TickerGoesOn
  BY DEF TickerInv, TickerGoesOn
<1>. QED
  BY <1>1, <1>2, <1>3, PTL DEF TickerSpec

-----------------------------------------------------------------------------
(* The preview: a modal has a number of its own, and once its picture is   *)
(* asked for, its metadata are those of its record's tile.                 *)

TileInv ==
    /\ tileGestures \in Nat /\ openModal \in 0 .. tileGestures
    /\ \A u \in DOMAIN itemCache : itemCache[u] = u
    /\ \A t \in tiles :
           /\ t = Picture(t.no, t.record, t.stage, t.item)
           /\ t.no \in 1 .. tileGestures
           /\ t.stage \in {"image", "drawn"} => t.item = TileOf[t.record]
    /\ openModal # 0 => keyListens /\ \E t \in tiles : t.no = openModal

\* A modal goes on to another stage under its number, with its record.
LEMMA ModalGoesOn ==
  ASSUME TileInv, NEW t \in tiles, NEW stage, NEW item,
         stage \in {"image", "drawn"} => item = TileOf[t.record],
         tiles' = (tiles \ {t}) \cup {Picture(t.no, t.record, stage, item)},
         openModal' = openModal, keyListens' = keyListens, tileGestures' = tileGestures,
         \A u \in DOMAIN itemCache' : itemCache'[u] = u
  PROVE  TileInv'
<1>. DEFINE p == Picture(t.no, t.record, stage, item)
<1>1. /\ p.no = t.no /\ p.record = t.record /\ p.stage = stage /\ p.item = item
      /\ p = Picture(p.no, p.record, p.stage, p.item)
  BY DEF Picture
<1>. HIDE DEF p
<1>2. \A q \in tiles' : q \in tiles \/ q = p
  BY DEF p
<1>3. ASSUME NEW q \in tiles' PROVE /\ q = Picture(q.no, q.record, q.stage, q.item)
                                    /\ q.no \in 1 .. tileGestures
                                    /\ q.stage \in {"image", "drawn"} => q.item = TileOf[q.record]
  <2>1. CASE q \in tiles
    BY <2>1, Zenon DEF TileInv
  <2>2. CASE q = p
    <3>1. t.no \in 1 .. tileGestures
      BY Zenon DEF TileInv
    <3>. QED
      BY <1>1, <2>2, <3>1
  <2>. QED
    BY <1>2, <2>1, <2>2
<1>4. openModal # 0 => \E q \in tiles' : q.no = openModal
  <2>. SUFFICES ASSUME openModal # 0 PROVE \E q \in tiles' : q.no = openModal
    OBVIOUS
  <2>1. PICK q \in tiles : q.no = openModal
    BY DEF TileInv
  <2>2. CASE q = t
    BY <1>1, <2>1, <2>2 DEF p
  <2>3. CASE q # t
    BY <2>1, <2>3
  <2>. QED
    BY <2>2, <2>3
<1>. QED
  BY <1>3, <1>4 DEF TileInv, Picture

\* Whichever modals were closed, and whichever requests failed, the open modal
\* draws its record's own tile and listens for Escape
\* (lab_tile_preview.js:232-241, 313-403).
THEOREM PicturesAreOfRecord == TileSpec => []PictureIsOfRecord
<1>1. TileInit => TileInv
  BY DEF TileInit, TileInv
<1>2. TileInv /\ [TileNext]_tileVars => TileInv'
  <2>. SUFFICES ASSUME TileInv, [TileNext]_tileVars PROVE TileInv'
    OBVIOUS
  <2>1. CASE UNCHANGED <<itemCache, openModal, tiles, keyListens>> /\ tileGestures' \in Nat
             /\ tileGestures' >= tileGestures
    BY <2>1 DEF TileInv, Picture
  <2>2. ASSUME NEW r \in Records, SectionRendered(r) PROVE TileInv'
    BY <2>1, <2>2 DEF SectionRendered, TileGesture, TileInv
  <2>3. CASE InjectTrigger
    BY <2>1, <2>3 DEF InjectTrigger, TileInv
  <2>4. CASE CloseTile
    BY <2>4 DEF CloseTile, TileGesture, CloseModal, Aborted, TileInv, Picture
  <2>5. ASSUME NEW r \in Records, BuildModal(r) PROVE TileInv'
    <3>. DEFINE n == tileGestures + 1
                known == DOMAIN itemCache # {} /\ TileOf[r] \in DOMAIN itemCache
                p == IF known THEN Picture(n, r, "image", Cached(TileOf[r]))
                              ELSE Picture(n, r, "item", NoTile)
    <3>1. /\ tiles' = Aborted \cup {p} /\ openModal' = n /\ keyListens' = TRUE
          /\ itemCache' = itemCache /\ tileGestures' = n
      BY <2>5 DEF BuildModal, TileGesture
    <3>2. /\ p = Picture(p.no, p.record, p.stage, p.item) /\ p.no = n
          /\ p.stage \in {"image", "drawn"} => p.item = TileOf[p.record]
      BY DEF Picture, Cached, TileInv
    <3>. HIDE DEF p
    <3>3. \A q \in tiles' : q \in tiles \/ q = p
      BY <3>1 DEF Aborted
    <3>. QED
      BY <3>1, <3>2, <3>3 DEF TileInv, Picture
  <2>6. ASSUME NEW t \in tiles, ItemArrives(t) PROVE TileInv'
    <3>1. \A u \in DOMAIN itemCache' : itemCache'[u] = u
      BY <2>6 DEF ItemArrives, TileInv
    <3>2. PICK stage : tiles' = (tiles \ {t}) \cup {Picture(t.no, t.record, stage, TileOf[t.record])}
      BY <2>6, Zenon DEF ItemArrives
    <3>. QED
      BY <2>6, <3>1, <3>2, ModalGoesOn DEF ItemArrives
  <2>7. ASSUME NEW t \in tiles, NEW stage \in {"drawn", "failed"},
               t.stage \in {"item", "image"}, t.stage = "item" => stage = "failed",
               tiles' = (tiles \ {t}) \cup {[t EXCEPT !.stage = stage]},
               UNCHANGED <<itemCache, openModal, keyListens, tileGestures>>
        PROVE  TileInv'
    <3>1. t = Picture(t.no, t.record, t.stage, t.item)
      BY Zenon DEF TileInv
    <3>2. [t EXCEPT !.stage = stage] = Picture(t.no, t.record, stage, t.item)
      BY <3>1 DEF Picture
    <3>3. stage \in {"image", "drawn"} => t.item = TileOf[t.record]
      BY <2>7 DEF TileInv
    <3>. QED
      BY <2>7, <3>2, <3>3, ModalGoesOn DEF TileInv
  <2>8. ASSUME NEW t \in tiles, ImageArrives(t) PROVE TileInv'
    BY <2>7, <2>8 DEF ImageArrives
  <2>9. ASSUME NEW t \in tiles, ItemFails(t) PROVE TileInv'
    BY <2>7, <2>9 DEF ItemFails
  <2>10. CASE UNCHANGED tileVars
    BY <2>1, <2>10 DEF tileVars, TileInv
  <2>. QED
    BY <2>2, <2>3, <2>4, <2>5, <2>6, <2>8, <2>9, <2>10 DEF TileNext
<1>3. TileInv => PictureIsOfRecord
  BY DEF TileInv, PictureIsOfRecord
<1>. QED
  BY <1>1, <1>2, <1>3, PTL DEF TileSpec

-----------------------------------------------------------------------------
(* The verifier of lab records.                                            *)

RootIsTrusted ==
    record.certs[1].issuer = TrustRoot /\ record.certs[1].subject = record.certs[1].issuer

Passes(i) == CertErrors(record.certs[i], ParentKey(i)) = 0

\* The errors noted are those of the root and of the certificates looked at, and
\* the verdict is given when all three have been.
VerifyInv ==
    /\ checked \in Seq(BOOLEAN) /\ Len(checked) <= 3
    /\ errors \in Nat
    /\ verdict \in {"pending", "checking", "verified", "refused"}
    /\ verdict = "pending" => checked = <<>>
    /\ verdict \in {"checking", "verified"} => record.version = 1 /\ record.readable
    /\ verdict # "pending" /\ record.version = 1 /\ record.readable =>
           /\ \A i \in 1 .. Len(checked) : checked[i] <=> Passes(i)
           /\ errors = 0 <=> RootIsTrusted /\ \A i \in 1 .. Len(checked) : Passes(i)
           /\ verdict # "checking" => Len(checked) = 3
           /\ verdict = "verified" <=>
                  /\ verdict # "checking"
                  /\ RootIsTrusted /\ \A i \in 1 .. 3 : Passes(i)
                  /\ record.certs[3].subject = record.signer
                  /\ record.signedBy = record.signer

\* A certificate adds one or two errors, or none.
LEMMA CertErrorsCount == \A cert, parent : CertErrors(cert, parent) \in 0 .. 2
  BY DEF CertErrors

\* A certificate adds no error exactly when it is complete, in force, and issued
\* and signed by the key of its parent (lab_verify.js:127-172).
LEMMA CertIsSound ==
  ASSUME NEW cert, NEW parent
  PROVE  CertErrors(cert, parent) = 0 <=>
           cert.complete /\ cert.current /\ cert.issuer = parent /\ cert.signedBy = parent
  BY DEF CertErrors

\* The verdict on a record is the one its certificates, its signer and its
\* signature call for, whatever the keys (lab_verify.js:127-172, 223-286).
THEOREM VerdictsAreGenuine == VerifySpec => []VerdictIsGenuine
<1>1. VerifyInit => VerifyInv
  BY DEF VerifyInit, VerifyInv
<1>2. VerifyInv /\ [VerifyNext]_verifyVars => VerifyInv'
  <2>. SUFFICES ASSUME VerifyInv, [VerifyNext]_verifyVars PROVE VerifyInv'
    OBVIOUS
  <2>1. CASE Anchor
    BY <2>1 DEF Anchor, VerifyInv, RootIsTrusted, Passes, ParentKey
  <2>2. CASE VerifyCert
    <3>. DEFINE i == Len(checked) + 1
                found == CertErrors(record.certs[i], ParentKey(i))
    <3>1. /\ verdict = "checking" /\ Len(checked) < 3
          /\ checked' = Append(checked, found = 0)
          /\ errors' = errors + found
          /\ record' = record /\ verdict' = verdict
      BY <2>2 DEF VerifyCert
    <3>2. found \in 0 .. 2 /\ ((found = 0) <=> Passes(i))
      BY CertErrorsCount DEF Passes
    <3>. HIDE DEF found
    <3>3. \A j \in 1 .. 3 : Passes(j)' <=> Passes(j)
      BY <3>1 DEF Passes, ParentKey, CertErrors
    <3>4. RootIsTrusted' <=> RootIsTrusted
      BY <3>1 DEF RootIsTrusted
    <3>5. i \in 1 .. 3 /\ 1 .. i = (1 .. Len(checked)) \cup {i}
      BY <3>1 DEF VerifyInv
    <3>6. /\ checked' \in Seq(BOOLEAN) /\ Len(checked') = i
          /\ \A j \in 1 .. Len(checked) : checked'[j] = checked[j]
          /\ checked'[i] = (found = 0)
      BY <3>1 DEF VerifyInv
    <3>7. \A j \in 1 .. i : checked'[j] <=> Passes(j)
      BY <3>1, <3>2, <3>5, <3>6 DEF VerifyInv
    <3>8. errors' = 0 <=> RootIsTrusted /\ \A j \in 1 .. i : Passes(j)
      <4>1. errors' \in Nat /\ (errors' = 0 <=> errors = 0 /\ found = 0)
        BY <3>1, <3>2 DEF VerifyInv
      <4>. QED
        BY <3>1, <3>2, <3>5, <4>1 DEF VerifyInv
    <3>. QED
      BY <3>1, <3>2, <3>3, <3>4, <3>5, <3>6, <3>7, <3>8 DEF VerifyInv
  <2>3. CASE VerifyOuter
    <3>1. record' = record /\ checked' = checked /\ errors' = errors
      BY <2>3 DEF VerifyOuter
    <3>2. \A j : Passes(j)' <=> Passes(j)
      BY <3>1 DEF Passes, ParentKey, CertErrors
    <3>3. RootIsTrusted' <=> RootIsTrusted
      BY <3>1 DEF RootIsTrusted
    <3>. QED
      BY <2>3, <3>1, <3>2, <3>3 DEF VerifyOuter, VerifyInv
  <2>4. CASE UNCHANGED verifyVars
    BY <2>4 DEF verifyVars, VerifyInv, Passes, ParentKey, CertErrors, RootIsTrusted
  <2>. QED
    BY <2>1, <2>2, <2>3, <2>4 DEF VerifyNext
<1>3. VerifyInv => VerdictIsGenuine
  <2>1. Vouched(TrustRoot) <=>
          /\ RootIsTrusted /\ \A i \in 1 .. 3 : Passes(i)
          /\ record.certs[3].subject = record.signedBy
    <3>1. (\A i \in 1 .. 3 : Passes(i)) <=> Passes(1) /\ Passes(2) /\ Passes(3)
      BY 1 \in 1 .. 3, 2 \in 1 .. 3, 3 \in 1 .. 3, 1 .. 3 = {1, 2, 3}
    <3>2. ParentKey(1) = record.certs[1].issuer /\ ParentKey(2) = record.certs[1].subject
            /\ ParentKey(3) = record.certs[2].subject
      BY DEF ParentKey
    <3>. QED
      BY <3>1, <3>2, CertIsSound DEF Vouched, RootIsTrusted, Passes
  <2>. QED
    BY <2>1 DEF VerifyInv, VerdictIsGenuine
<1>. QED
  BY <1>1, <1>2, <1>3, PTL DEF VerifySpec

-----------------------------------------------------------------------------
(* The counts of the benchmark: every call launched is in flight, a sample *)
(* or an error, and the pool drains after the last one.                    *)

CountInv ==
    /\ launched \in 0 .. Iterations
    /\ inFlight \in Nat /\ totals \in Nat /\ failures \in Nat
    /\ totals + failures + inFlight = launched

StageInv ==
    /\ benchStage \in {"preflight", "aborted", "filling", "racing", "draining", "done"}
    /\ benchStage \in {"draining", "done"} => launched = Iterations
    /\ benchStage = "done" => inFlight = 0

BenchInv == CountInv /\ StageInv

\* For every number of calls and every size of the pool, the report counts each
\* call once (p99.mjs:106-154).
THEOREM BenchCountsEveryCall == BenchSpec => []EveryCallIsReported
<1>1. BenchInit => BenchInv
  BY BenchAssumption DEF BenchInit, BenchInv, CountInv, StageInv
<1>2. BenchInv /\ [BenchNext]_benchVars => BenchInv'
  <2>. SUFFICES ASSUME BenchInv, [BenchNext]_benchVars PROVE BenchInv'
    OBVIOUS
  <2>. USE BenchAssumption DEF BenchInv, CountInv, StageInv
  <2>1. CASE LaunchCall
    BY <2>1 DEF LaunchCall
  <2>2. CASE PoolIsFull
    BY <2>2 DEF PoolIsFull
  <2>3. CASE CallEnds
    BY <2>3 DEF CallEnds
  <2>4. CASE RaceEnds
    BY <2>4 DEF RaceEnds
  <2>5. CASE Report
    BY <2>5 DEF Report, AllSettled
  <2>6. CASE Preflight
    BY <2>6 DEF Preflight
  <2>7. CASE UNCHANGED benchVars
    BY <2>7 DEF benchVars
  <2>. QED
    BY <2>1, <2>2, <2>3, <2>4, <2>5, <2>6, <2>7 DEF BenchNext
<1>3. BenchInv => EveryCallIsReported
  BY BenchAssumption DEF BenchInv, CountInv, StageInv, EveryCallIsReported
<1>. QED
  BY <1>1, <1>2, <1>3, PTL DEF BenchSpec
=============================================================================
