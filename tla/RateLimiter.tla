---------------------------- MODULE RateLimiter ----------------------------
(***************************************************************************)
(* DemoRateLimiter (crates/mcp-server/src/rate_limit.rs): one fixed window *)
(* shared by every caller of the demo key.  A call of check() reads the    *)
(* clock first and takes the mutex afterwards; what happens under the      *)
(* mutex is one step.  Other calls, and time, may come in between.         *)
(*                                                                         *)
(* Time is the monotonic clock, in ticks.  check() is the work of a        *)
(* runtime thread that nothing bounds; MaxDelay names how long one is kept *)
(* from the mutex, so that the properties can say what depends on it.      *)
(***************************************************************************)
EXTENDS Integers, FiniteSets

CONSTANTS
    Callers,   \* concurrent calls of check()
    Limit,     \* limit_per_min
    Window,    \* the 60 s of a window, in ticks
    Second,    \* a second, in ticks: what as_secs() rounds down to
    MaxDelay,  \* longest time between reading the clock and the mutex
    MaxClock,  \* bound: the time a run ends
    None       \* no call, no answer

ASSUME LimiterAssumption ==
    /\ Limit \in Nat
    /\ Window \in Nat \ {0}
    /\ Second \in Nat \ {0}
    /\ MaxDelay \in Nat
    /\ MaxClock \in Nat
    /\ None \notin Nat

VARIABLES
    clock,         \* Instant::now()
    window_start,
    count,
    now,           \* now[c]: the local variable of a call of check()
    told,          \* told[c]: the last refusal c was given
    window,        \* history: number of the current window
    rolled,        \* history: when the current window was entered
    admitted       \* history: the requests let through

vars == <<clock, window_start, count, now, told, window, rolled, admitted>>

\* A refusal: the window that was full, and when to retry.
Refusal == [window : Nat, retry_at : Nat]

\* An admitted request: its window, its place in it, and its time.
Request == [window : Nat, place : Nat \ {0}, at : Nat]

TypeOK ==
    /\ clock \in Nat
    /\ window_start \in Nat
    /\ count \in 0 .. Limit
    /\ now \in [Callers -> Nat \cup {None}]
    /\ told \in [Callers -> Refusal \cup {None}]
    /\ window \in Nat
    /\ rolled \in Nat
    /\ admitted \subseteq Request

Init ==
    /\ clock = 0
    /\ window_start = 0
    /\ count = 0
    /\ now = [c \in Callers |-> None]
    /\ told = [c \in Callers |-> None]
    /\ window = 0
    /\ rolled = 0
    /\ admitted = {}

-----------------------------------------------------------------------------
AtLeast(x, y) == IF x < y THEN y ELSE x

\* duration_since saturates: a clock read before the window was entered.
Since(t, start) == IF t < start THEN 0 ELSE t - start

\* max(1, floor of what is left of the window, in seconds), in ticks.
RetryAfter(t, start) ==
    Second * AtLeast((Window - Since(t, start)) \div Second, 1)

\* Time passes.
Tick ==
    /\ clock < MaxClock
    /\ \A c \in Callers : now[c] # None => clock < now[c] + MaxDelay
    /\ clock' = clock + 1
    /\ UNCHANGED <<window_start, count, now, told, window, rolled, admitted>>

\* check(): the clock is read.
ReadClock(c) ==
    /\ now[c] = None
    /\ now' = [now EXCEPT ![c] = clock]
    /\ UNCHANGED <<clock, window_start, count, told, window, rolled, admitted>>

\* Mutant: a window ends a tick early.
ExpiredEarly(c) == Since(now[c], window_start) + 1 >= Window

Expired(c) == Since(now[c], window_start) >= Window

\* Mutant: the count is not reset.
UsedEver(c) == count

\* What `count` is once an expired window has been left.
Used(c) == IF Expired(c) THEN 0 ELSE count

\* Mutant: a full window starts over with every refusal.
RollOnRefusal(c) ==
    IF Expired(c)
    THEN window_start' = now[c] /\ window' = window + 1 /\ rolled' = clock
    ELSE /\ window_start' = IF Used(c) >= Limit THEN now[c] ELSE window_start
         /\ UNCHANGED <<window, rolled>>

\* check(), under the mutex.  An expired window is left, whatever the answer.
Roll(c) ==
    IF Expired(c)
    THEN window_start' = now[c] /\ window' = window + 1 /\ rolled' = clock
    ELSE UNCHANGED <<window_start, window, rolled>>

\* Mutant: the limit itself is let through.
AdmitOneMore(c) ==
    /\ now[c] # None
    /\ Used(c) <= Limit
    /\ Roll(c)
    /\ count' = Used(c) + 1
    /\ admitted' = admitted \cup
          {[window |-> window', place |-> count', at |-> clock]}
    /\ now' = [now EXCEPT ![c] = None]
    /\ UNCHANGED <<clock, told>>

\* Mutant: the request that enters a window is not counted in it.
AdmitUncounted(c) ==
    /\ now[c] # None
    /\ Used(c) < Limit
    /\ Roll(c)
    /\ count' = IF Expired(c) THEN 0 ELSE count + 1
    /\ admitted' = admitted \cup
          {[window |-> window', place |-> count' + 1, at |-> clock]}
    /\ now' = [now EXCEPT ![c] = None]
    /\ UNCHANGED <<clock, told>>

\* The request is let through.
Admit(c) ==
    /\ now[c] # None
    /\ Used(c) < Limit
    /\ Roll(c)
    /\ count' = Used(c) + 1
    /\ admitted' = admitted \cup
          {[window |-> window', place |-> count', at |-> clock]}
    /\ now' = [now EXCEPT ![c] = None]
    /\ UNCHANGED <<clock, told>>

\* RateLimited, with the time until the window ends.
Refuse(c) ==
    /\ now[c] # None
    /\ Used(c) >= Limit
    /\ Roll(c)
    /\ count' = Used(c)
    /\ told' = [told EXCEPT ![c] =
                   [window |-> window',
                    retry_at |-> clock + RetryAfter(now[c], window_start')]]
    /\ now' = [now EXCEPT ![c] = None]
    /\ UNCHANGED <<clock, admitted>>

Next ==
    \/ Tick
    \/ \E c \in Callers : ReadClock(c) \/ Admit(c) \/ Refuse(c)

Spec == Init /\ [][Next]_vars

-----------------------------------------------------------------------------
(* Properties.                                                             *)

AdmittedDuring(from, to) == {r \in admitted : from <= r.at /\ r.at < to}

\* The configured rate is exceeded at most twofold, in any minute less the
\* time a call may be kept from the mutex.
BurstBounded ==
    \A r \in admitted :
        Cardinality(AdmittedDuring(r.at, r.at + Window - MaxDelay)) <= 2 * Limit

\* rate_limit.rs:7: the failure mode is up to 2x the configured rate briefly
\* at window boundaries.  (Violated: a call that rolls the window with a
\* clock it read earlier starts a window that is already partly over.)
BurstAtMostDouble ==
    \A r \in admitted :
        Cardinality(AdmittedDuring(r.at, r.at + Window)) <= 2 * Limit

\* Windows follow each other forwards and, whatever clock the call that
\* rolls one had read, nearly a minute apart.
WindowsApart ==
    [][window' # window =>
          /\ window_start' >= window_start + Window
          /\ clock - rolled >= Window - MaxDelay]_vars

\* A caller that waits as long as it was told and the second that as_secs()
\* rounded away is not refused by the window that refused it.
PatienceRewarded ==
    \A c \in Callers :
        /\ now[c] # None
        /\ told[c] # None
        /\ now[c] >= told[c].retry_at + Second
        => Expired(c) \/ told[c].window # window

\* Nobody is refused unless Limit requests were admitted in the minute
\* before it read the clock, or since.
NoIdleRefusal ==
    [][\A c \in Callers : told'[c] # told[c] =>
          Cardinality(AdmittedDuring(now[c] - Window + 1, clock + 1)) >= Limit]_vars
=============================================================================
