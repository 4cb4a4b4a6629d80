---------------------------- MODULE CuneoOverlay ----------------------------
(***************************************************************************)
(* The Pilot Cuneo overlay (demo/cuneo_overlay.js): a toggle that fetches  *)
(* the stations and marks them on the map, a dialog per station with its   *)
(* devices, and in the same dialog the detail of one device, whose         *)
(* signature the user may verify.  Every await lets other gestures in.     *)
(***************************************************************************)
EXTENDS Integers, Sequences, SequencesExt, FiniteSetsExt

CONSTANTS
    Stations,
    Devices,           \* identifiers, from 1
    Installed,         \* Installed[s]: the devices of station s
    Category,          \* Category[d]
    Native,            \* the devices of provisioning mode A
    Signed,            \* the devices whose record carries their signature
    MaxPilotGestures   \* bound: gestures of the user

ASSUME PilotAssumption ==
    /\ Devices \subseteq Nat \ {0} /\ MaxPilotGestures \in Nat
    /\ \A s \in Stations : Installed[s] \subseteq Devices

VARIABLES
    pilotOn,        \* state.active
    stationLoads,   \* calls of activate that await the stations
    markers,        \* state.markers: how many each station has on the map
    deviceCache,    \* the stations of state.devicesByStation
    dialogs,        \* the dialogs in the document, in its order
    modalEl,        \* the dialog the overlay knows of, 0 for none
    asks,           \* the other requests under way
    pilotGestures

pilotVars == <<pilotOn, stationLoads, markers, deviceCache, dialogs, modalEl,
               asks, pilotGestures>>

\* A dialog shows the list of its devices, or the detail of one of them.
List(n, s, devices) ==
    [no |-> n, of |-> s, devices |-> devices, rows |-> devices, wired |-> <<s>>,
     shows |-> 0, button |-> <<0, 0>>, says |-> "idle"]

Ask(what, n, s, d) == [for |-> what, no |-> n, of |-> s, device |-> d]

Unmarked == [s \in Stations |-> 0]

\* The toggle of the previous session is restored.
PilotInit ==
    /\ pilotOn \in BOOLEAN
    /\ stationLoads = IF pilotOn THEN 1 ELSE 0
    /\ markers = Unmarked
    /\ deviceCache = {}
    /\ dialogs = <<>>
    /\ modalEl = 0
    /\ asks = {}
    /\ pilotGestures = 0

PilotGesture ==
    /\ pilotGestures < MaxPilotGestures
    /\ pilotGestures' = pilotGestures + 1

Current == {i \in DOMAIN dialogs : dialogs[i].no = modalEl}

-----------------------------------------------------------------------------
\* closeStationModal removes the dialog known, when there is one.
Closed == IF Current = {} THEN dialogs
          ELSE RemoveAt(dialogs, CHOOSE i \in Current : TRUE)

CloseStationModal ==
    /\ dialogs' = Closed
    /\ modalEl' = 0

Activate ==
    /\ PilotGesture
    /\ ~pilotOn
    /\ pilotOn' = TRUE
    /\ stationLoads' = stationLoads + 1
    /\ UNCHANGED <<markers, deviceCache, dialogs, modalEl, asks>>

Deactivate ==
    /\ PilotGesture
    /\ pilotOn
    /\ pilotOn' = FALSE
    /\ markers' = Unmarked
    /\ CloseStationModal
    /\ UNCHANGED <<stationLoads, deviceCache, asks>>

\* Mutant: the markers of the last rendering stay.
MarkersAdded == [s \in Stations |-> markers[s] + 1]

Rendered == [s \in Stations |-> 1]

\* The stations, or the built-in ones when the backend is unreachable; the
\* markers are painted whether or not the overlay is still active.
StationsArrive ==
    /\ stationLoads > 0
    /\ stationLoads' = stationLoads - 1
    /\ markers' = Rendered
    /\ UNCHANGED <<pilotOn, deviceCache, dialogs, modalEl, asks, pilotGestures>>

-----------------------------------------------------------------------------
\* openStationModal: the devices are cached, or requested.
OpenStation(s) ==
    LET n == pilotGestures + 1 IN
    IF s \in deviceCache
    THEN /\ dialogs' = Append(Closed, List(n, s, Installed[s]))
         /\ modalEl' = n
         /\ UNCHANGED asks
    ELSE /\ CloseStationModal
         /\ asks' = asks \cup {Ask("list", <<n, 0>>, s, 0)}

MarkerClick(s) ==
    /\ PilotGesture
    /\ markers[s] > 0
    /\ OpenStation(s)
    /\ UNCHANGED <<pilotOn, stationLoads, markers, deviceCache>>

Back(i) ==
    /\ PilotGesture
    /\ dialogs[i].shows # 0
    /\ OpenStation(dialogs[i].of)
    /\ UNCHANGED <<pilotOn, stationLoads, markers, deviceCache>>

\* A failed request is an empty list, and is not cached.
DevicesArrive(a) ==
    /\ a.for = "list"
    /\ asks' = asks \ {a}
    /\ \/ /\ dialogs' = Append(dialogs, List(a.no[1], a.of, Installed[a.of]))
          /\ deviceCache' = deviceCache \cup {a.of}
       \/ /\ dialogs' = Append(dialogs, List(a.no[1], a.of, {}))
          /\ UNCHANGED deviceCache
    /\ modalEl' = a.no[1]
    /\ UNCHANGED <<pilotOn, stationLoads, markers, pilotGestures>>

\* Close of any dialog, a click beside it, or Escape: of the one known.
Close ==
    /\ PilotGesture
    /\ dialogs # <<>>
    /\ CloseStationModal
    /\ UNCHANGED <<pilotOn, stationLoads, markers, deviceCache, asks>>

\* A filter pill of dialog i: the list with the identifier is the first of the
\* document, and the rows wired are those of the dialog known.
Filter(i, picked) ==
    LET lists == {j \in DOMAIN dialogs : dialogs[j].shows = 0}
        refilled == [dialogs EXCEPT ![Min(lists)].rows = picked,
                                    ![Min(lists)].wired = <<>>]
    IN /\ PilotGesture
       /\ i \in lists
       /\ dialogs' = [j \in DOMAIN dialogs |->
              IF j \in Current
              THEN [refilled[j] EXCEPT !.wired = Append(@, dialogs[i].of)]
              ELSE refilled[j]]
       /\ UNCHANGED <<pilotOn, stationLoads, markers, deviceCache, modalEl, asks>>

\* openDeviceAudit of every handler of the row.
RowClick(i, d) ==
    /\ PilotGesture
    /\ dialogs[i].shows = 0
    /\ d \in dialogs[i].rows
    /\ modalEl # 0
    /\ asks' = asks \cup {Ask("detail", <<pilotGestures + 1, h>>, dialogs[i].wired[h], d) :
                              h \in DOMAIN dialogs[i].wired}
    /\ UNCHANGED <<pilotOn, stationLoads, markers, deviceCache, dialogs, modalEl>>

\* The detail takes the place of what the dialog known now shows.
DetailArrives(a) ==
    /\ a.for = "detail"
    /\ asks' = asks \ {a}
    /\ dialogs' = [i \in DOMAIN dialogs |->
           IF i \in Current
           THEN [dialogs[i] EXCEPT !.of = a.of, !.shows = a.device,
                                   !.button = a.no, !.says = "idle"]
           ELSE dialogs[i]]
    /\ UNCHANGED <<pilotOn, stationLoads, markers, deviceCache, modalEl, pilotGestures>>

DetailFails(a) ==
    /\ a.for = "detail"
    /\ asks' = asks \ {a}
    /\ UNCHANGED <<pilotOn, stationLoads, markers, deviceCache, dialogs, modalEl,
                   pilotGestures>>

-----------------------------------------------------------------------------
VerifyClick(i) ==
    /\ PilotGesture
    /\ dialogs[i].shows # 0
    /\ dialogs' = [dialogs EXCEPT ![i].says = "loading"]
    /\ asks' = asks \cup {Ask("verdict", dialogs[i].button, dialogs[i].of, dialogs[i].shows)}
    /\ UNCHANGED <<pilotOn, stationLoads, markers, deviceCache, modalEl>>

\* runEd25519Verify: only a native device is verified.
Verdict(d) == IF d \in Native /\ d \notin Signed THEN "bad" ELSE "ok"

\* Mutant: the button is looked up by its identifier when the verdict comes.
ButtonById(a) == {i \in DOMAIN dialogs : dialogs[i].shows # 0}

\* The button of the click, when it is still in the document.
Button(a) == {i \in DOMAIN dialogs : dialogs[i].button = a.no}

\* The verdict, or an error of the import.
VerdictArrives(a) ==
    /\ a.for = "verdict"
    /\ asks' = asks \ {a}
    /\ \E says \in {Verdict(a.device), "bad"} :
           dialogs' = [i \in DOMAIN dialogs |->
               IF i \in Button(a) THEN [dialogs[i] EXCEPT !.says = says] ELSE dialogs[i]]
    /\ UNCHANGED <<pilotOn, stationLoads, markers, deviceCache, modalEl, pilotGestures>>

PilotNext ==
    \/ Activate \/ Deactivate \/ StationsArrive \/ Close
    \/ \E s \in Stations : MarkerClick(s)
    \/ \E i \in DOMAIN dialogs :
           \/ Back(i) \/ VerifyClick(i)
           \/ \E d \in dialogs[i].rows : RowClick(i, d)
           \/ Filter(i, dialogs[i].devices)
           \/ \E d \in dialogs[i].devices :
                  Filter(i, {e \in dialogs[i].devices : Category[e] = Category[d]})
    \/ \E a \in asks :
           DevicesArrive(a) \/ DetailArrives(a) \/ DetailFails(a) \/ VerdictArrives(a)

PilotSpec == PilotInit /\ [][PilotNext]_pilotVars

-----------------------------------------------------------------------------
\* While the overlay is active and awaits no stations, every station has one
\* marker, however the activations and their answers overlapped
\* (cuneo_overlay.js:626-653, 699-740).
ActiveStationsAreMarked ==
    pilotOn /\ stationLoads = 0 => markers = [s \in Stations |-> 1]

\* A button that says a signature is valid stands beside a device that carries
\* its signature, or one that is not verified here, although the detail may have
\* been replaced while the verdict was computed (cuneo_overlay.js:1029-1077).
PilotVerdictIsOfDevice ==
    \A i \in DOMAIN dialogs :
        dialogs[i].says = "ok" => dialogs[i].shows \in Signed \/ dialogs[i].shows \notin Native
=============================================================================
