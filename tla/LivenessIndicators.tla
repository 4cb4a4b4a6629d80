------------------------- MODULE LivenessIndicators -------------------------
(***************************************************************************)
(* The status strip (demo/liveness_indicators.js).  A timer probes the     *)
(* backend; a probe may take longer than the interval, so several are      *)
(* under way and their answers come in any order.  The strip flashes the   *)
(* first cells of an answer and announces a new epoch for some seconds.    *)
(***************************************************************************)
EXTENDS Integers

CONSTANTS
    MaxProbes,        \* bound: probes under way
    MaxFlashes,       \* bound: flashes that animate at once
    StripEpochs

VARIABLES
    up,             \* the backend answers
    unserved,       \* probes the backend has not served
    answers,        \* answers[ok]: answers under way with that outcome
    lastBackendOk,
    age,            \* how long ago cells were fetched, as stateLabel tells it
    label,          \* the state the strip shows
    lit,            \* the flash layer has features
    flashes,        \* animations under way
    prevEpoch, toast  \* the epoch last announced, and whether the toast shows

stripVars == <<up, unserved, answers, lastBackendOk, age, label, lit,
                flashes, prevEpoch, toast>>
probePart == <<up, unserved, answers, lastBackendOk, label>>
cellsPart == <<age, lit, flashes>>
toastPart == <<prevEpoch, toast>>

StripInit ==
    /\ up \in BOOLEAN
    /\ unserved = 1 /\ answers = [ok \in BOOLEAN |-> 0]
    /\ lastBackendOk = FALSE
    /\ age = "never" /\ label = "none"
    /\ lit = FALSE /\ flashes = 0
    /\ prevEpoch \in StripEpochs /\ toast = FALSE

-----------------------------------------------------------------------------
\* stateLabel
Label(ok) ==
    IF ~ok THEN "offline" ELSE IF age = "never" THEN "ready" ELSE age

\* The interval: a probe starts, whether or not the last one has ended.
TickProbes ==
    /\ unserved + answers[TRUE] + answers[FALSE] < MaxProbes
    /\ unserved' = unserved + 1
    /\ UNCHANGED <<up, answers, lastBackendOk, label, cellsPart, toastPart>>

\* The backend serves a probe, or the request fails.
ServeProbe ==
    /\ unserved > 0
    /\ unserved' = unserved - 1
    /\ answers' = [answers EXCEPT ![up] = @ + 1]
    /\ UNCHANGED <<up, lastBackendOk, label, cellsPart, toastPart>>

BackendTurns ==
    /\ up' = ~up
    /\ UNCHANGED <<unserved, answers, lastBackendOk, label, cellsPart, toastPart>>

\* Mutant: once a probe failed, the strip stays offline.
Latched(ok) == lastBackendOk /\ ok

Latest(ok) == ok

\* The rest of tick.
ProbeAnswered(ok) ==
    /\ answers[ok] > 0
    /\ answers' = [answers EXCEPT ![ok] = @ - 1]
    /\ lastBackendOk' = Latest(ok)
    /\ label' = Label(ok)
    /\ UNCHANGED <<up, unserved, cellsPart, toastPart>>

\* The strip is drawn anew every second.
Rerender ==
    /\ label' = Label(lastBackendOk)
    /\ UNCHANGED <<up, unserved, answers, lastBackendOk, cellsPart, toastPart>>

-----------------------------------------------------------------------------
\* The page's cells arrive, some of them: the first ones flash.
CellsEvent ==
    /\ flashes < MaxFlashes
    /\ age' = "live"
    /\ lit' = TRUE
    /\ flashes' = flashes + 1
    /\ UNCHANGED <<probePart, toastPart>>

\* The last frame of a flash empties the layer, for all of them.
FlashEnds ==
    /\ flashes > 0
    /\ flashes' = flashes - 1
    /\ lit' = FALSE
    /\ UNCHANGED <<probePart, age, toastPart>>

\* The time since the last cells passes a threshold.
Ages ==
    /\ age \in {"live", "idle"}
    /\ age' = IF age = "live" THEN "idle" ELSE "stale"
    /\ UNCHANGED <<probePart, lit, flashes, toastPart>>

EpochAnnounced(e) ==
    /\ e # prevEpoch
    /\ prevEpoch' = e
    /\ toast' = TRUE
    /\ UNCHANGED <<probePart, cellsPart>>

ToastEnds ==
    /\ toast
    /\ toast' = FALSE
    /\ UNCHANGED <<probePart, cellsPart, prevEpoch>>

StripNext ==
    \/ TickProbes \/ ServeProbe \/ BackendTurns \/ Rerender
    \/ \E ok \in BOOLEAN : ProbeAnswered(ok)
    \/ CellsEvent \/ FlashEnds \/ Ages \/ ToastEnds
    \/ \E e \in StripEpochs : EpochAnnounced(e)

\* The timer goes on, and every probe ends and is answered.
StripFairness ==
    /\ WF_stripVars(TickProbes)
    /\ WF_stripVars(ServeProbe)
    /\ WF_stripVars(Rerender)
    /\ \A ok \in BOOLEAN : WF_stripVars(ProbeAnswered(ok))

StripSpec == StripInit /\ [][StripNext]_stripVars /\ StripFairness

-----------------------------------------------------------------------------
\* When the backend has come back for good, the strip stops saying offline for
\* good, although failures of before may still be under way behind newer
\* successes (liveness_indicators.js:403-410).
HeartbeatCatchesUp == <>[]up => <>[](lastBackendOk /\ label # "offline")
=============================================================================
