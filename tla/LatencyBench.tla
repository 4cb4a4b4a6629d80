---------------------------- MODULE LatencyBench ----------------------------
(***************************************************************************)
(* The latency benchmark (scripts/bench/p99.mjs): calls are launched while *)
(* fewer than CONCURRENCY are in flight, each answer is counted, and the   *)
(* report keeps what follows the warm-up.  An answer may carry no time of  *)
(* the server; a call may fail.                                            *)
(***************************************************************************)
EXTENDS Integers

CONSTANTS
    Iterations, Concurrency, Warmup

ASSUME BenchAssumption ==
    /\ Iterations \in Nat \ {0}
    /\ Concurrency \in Nat
    /\ Warmup \in Nat

VARIABLES
    benchStage,  \* "preflight", "aborted" after it, "filling" the pool, "racing" for a call of it to end,
                 \* "draining" after the last launch, "done"
    raced,       \* a call ended since the race began
    launched, inFlight,
    totals, servers, failures,  \* samples and errors so far
    kept               \* samples of the report, 0 before it

benchVars == <<benchStage, raced, launched, inFlight, totals, servers, failures, kept>>

BenchInit ==
    /\ benchStage = "preflight" /\ raced = FALSE
    /\ launched = 0 /\ inFlight = 0
    /\ totals = 0 /\ servers = 0 /\ failures = 0
    /\ kept = 0

\* One call before the others.  When it fails the program exits, and when its
\* answer carries no time of the server the line that reports it throws.
Preflight ==
    /\ benchStage = "preflight"
    /\ benchStage' \in {"filling", "aborted"}
    /\ UNCHANGED <<raced, launched, inFlight, totals, servers, failures, kept>>

\* The inner loop, without an await; the serial loop is the pool of one.
LaunchCall ==
    /\ benchStage = "filling"
    /\ inFlight < Concurrency
    /\ launched < Iterations
    /\ launched' = launched + 1
    /\ inFlight' = inFlight + 1
    /\ UNCHANGED <<benchStage, raced, totals, servers, failures, kept>>

PoolIsFull ==
    /\ benchStage = "filling"
    /\ inFlight = Concurrency \/ launched = Iterations
    /\ benchStage' = "racing"
    /\ raced' = FALSE
    /\ UNCHANGED <<launched, inFlight, totals, servers, failures, kept>>

CallEnds ==
    /\ benchStage \in {"racing", "draining"}
    /\ inFlight > 0
    /\ inFlight' = inFlight - 1
    /\ raced' = TRUE
    /\ \/ totals' = totals + 1 /\ servers' = servers + 1 /\ UNCHANGED failures
       \/ totals' = totals + 1 /\ UNCHANGED <<servers, failures>>
       \/ failures' = failures + 1 /\ UNCHANGED <<totals, servers>>
    /\ UNCHANGED <<benchStage, launched, kept>>

\* Promise.race: more calls may have ended before the loop goes on.
RaceEnds ==
    /\ benchStage = "racing"
    /\ raced
    /\ benchStage' = IF launched < Iterations THEN "filling" ELSE "draining"
    /\ UNCHANGED <<raced, launched, inFlight, totals, servers, failures, kept>>

\* Mutant: the report is made when the last call was launched.
NotAwaited == TRUE

AllSettled == inFlight = 0

\* Promise.all, and the report: the first samples are the warm-up's.
Report ==
    /\ benchStage = "draining"
    /\ AllSettled
    /\ benchStage' = "done"
    /\ kept' = IF totals > Warmup THEN totals - Warmup ELSE 0
    /\ UNCHANGED <<raced, launched, inFlight, totals, servers, failures>>

BenchNext == Preflight \/ LaunchCall \/ PoolIsFull \/ CallEnds \/ RaceEnds \/ Report

BenchSpec == BenchInit /\ [][BenchNext]_benchVars

-----------------------------------------------------------------------------
\* The report counts every call once, as a sample or as an error, whatever the
\* order the calls of the pool settled in (p99.mjs:106-154).
EveryCallIsReported ==
    benchStage = "done" => totals + failures = Iterations /\ inFlight = 0
=============================================================================
