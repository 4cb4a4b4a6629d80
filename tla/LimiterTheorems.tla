-------------------------- MODULE LimiterTheorems --------------------------
(***************************************************************************)
(* Proofs about RateLimiter, for any number of callers, any limit, window  *)
(* and delay.                                                              *)
(*                                                                         *)
(* That a burst is bounded follows from two facts about the history: no    *)
(* window admits more than Limit requests, and two requests that are two   *)
(* windows apart are a minute, less the delay, apart in time.              *)
(***************************************************************************)
EXTENDS RateLimiter, FiniteSetTheorems, TLAPS

\* The current window was entered by a call that had read the clock at most
\* MaxDelay before; and so may every call under way.
ClockInv ==
    /\ window_start <= rolled
    /\ rolled <= window_start + MaxDelay
    /\ rolled <= clock
    /\ \A c \in Callers :
          now[c] # None => now[c] <= clock /\ clock <= now[c] + MaxDelay

\* The requests of the current window and of the earlier ones.
HistoryInv ==
    /\ IsFiniteSet(admitted)
    /\ \A k \in 1 .. count : \E r \in admitted : r.window = window /\ r.place = k
    /\ \A r \in admitted :
          /\ r.at <= clock
          /\ r.window <= window
          /\ r.place <= Limit
          /\ r.window = window => r.place <= count /\ rolled <= r.at
          /\ r.window < window => r.at <= rolled
          /\ r.window + 1 < window => r.at + Window - MaxDelay <= rolled

\* A request is known by its place in its window; two windows are far apart.
PairInv ==
    \A r, s \in admitted :
        /\ r.window = s.window /\ r.place = s.place => r = s
        /\ r.window + 1 < s.window => r.at + Window - MaxDelay <= s.at

\* A refused caller was told to wait for the end of the window.
ToldInv ==
    \A c \in Callers :
        told[c] # None =>
            /\ told[c].window <= window
            /\ told[c].window = window =>
                  told[c].retry_at + Second > window_start + Window

IInv == TypeOK /\ ClockInv /\ HistoryInv /\ PairInv /\ ToldInv

-----------------------------------------------------------------------------
(* Arithmetic of refusals.                                                 *)

\* Rounding down loses less than a second.
LEMMA RoundingDown ==
    ASSUME NEW x \in Nat, NEW d \in Nat \ {0}
    PROVE  x \div d \in Nat /\ x < d * (x \div d) + d
OBVIOUS

\* What is left of the window is less than the answer and a second.
LEMMA RetryCovers ==
    ASSUME NEW t \in Nat, NEW start \in Nat, Since(t, start) < Window
    PROVE  /\ RetryAfter(t, start) \in Nat
           /\ Window - Since(t, start) < RetryAfter(t, start) + Second
<1>. DEFINE left == Window - Since(t, start)
            seconds == left \div Second
<1>1. left \in Nat
  BY LimiterAssumption DEF Since
<1>2. seconds \in Nat /\ left < Second * seconds + Second
  BY <1>1, RoundingDown, LimiterAssumption
<1>3. RetryAfter(t, start) = Second * AtLeast(seconds, 1)
  BY DEF RetryAfter
<1>. HIDE DEF left, seconds
<1>4. AtLeast(seconds, 1) \in Nat /\ AtLeast(seconds, 1) >= seconds
  BY <1>2 DEF AtLeast
<1>5. /\ Second * AtLeast(seconds, 1) \in Nat
      /\ Second * AtLeast(seconds, 1) >= Second * seconds
  BY <1>2, <1>4, LimiterAssumption
<1>. QED
  BY <1>1, <1>2, <1>3, <1>5, LimiterAssumption DEF left

-----------------------------------------------------------------------------
(* The invariant.                                                          *)

\* The invariant holds of a new limiter.
LEMMA InvInit == Init => IInv
<1>. SUFFICES ASSUME Init PROVE IInv
  OBVIOUS
<1>1. TypeOK
  BY LimiterAssumption DEF Init, TypeOK
<1>2. ClockInv
  BY LimiterAssumption DEF Init, ClockInv
<1>3. HistoryInv /\ PairInv
  BY FS_EmptySet DEF Init, HistoryInv, PairInv
<1>4. ToldInv
  BY DEF Init, ToldInv
<1>. QED
  BY <1>1, <1>2, <1>3, <1>4 DEF IInv

\* Time keeps the invariant: no call is kept from the mutex for longer than MaxDelay.
LEMMA TickStep == IInv /\ Tick => IInv'
<1>. SUFFICES ASSUME IInv, Tick PROVE IInv'
  OBVIOUS
<1>1. /\ clock' = clock + 1
      /\ UNCHANGED <<window_start, count, now, told, window, rolled, admitted>>
      /\ \A c \in Callers : now[c] # None => clock < now[c] + MaxDelay
  BY DEF Tick
<1>2. TypeOK'
  BY <1>1 DEF IInv, TypeOK
<1>3. ClockInv'
  BY <1>1, LimiterAssumption DEF IInv, TypeOK, ClockInv
<1>4. HistoryInv'
  BY <1>1 DEF IInv, TypeOK, HistoryInv, Request
<1>5. PairInv' /\ ToldInv'
  BY <1>1 DEF IInv, PairInv, ToldInv
<1>. QED
  BY <1>2, <1>3, <1>4, <1>5 DEF IInv

\* Reading the clock keeps the invariant.
LEMMA ReadClockStep ==
    ASSUME IInv, NEW c \in Callers, ReadClock(c) PROVE IInv'
<1>1. /\ now' = [now EXCEPT ![c] = clock]
      /\ UNCHANGED <<clock, window_start, count, told, window, rolled, admitted>>
  BY DEF ReadClock
<1>2. TypeOK'
  BY <1>1 DEF IInv, TypeOK
<1>3. ClockInv'
  BY <1>1, LimiterAssumption DEF IInv, TypeOK, ClockInv
<1>4. HistoryInv' /\ PairInv' /\ ToldInv'
  BY <1>1 DEF IInv, HistoryInv, PairInv, ToldInv
<1>. QED
  BY <1>2, <1>3, <1>4 DEF IInv

\* Under the mutex, before the answer: the window the call is in, and the
\* requests admitted so far seen from it.
LEMMA RollFacts ==
    ASSUME IInv, NEW c \in Callers, now[c] # None, Roll(c), clock' = clock
    PROVE  /\ now[c] \in Nat
           /\ window_start' \in Nat /\ window' \in Nat /\ rolled' \in Nat
           /\ window_start' <= rolled' /\ rolled' <= window_start' + MaxDelay
           /\ rolled' <= clock
           /\ Since(now[c], window_start') < Window
           /\ window' \in {window, window + 1}
           /\ window' # window =>
                 /\ window_start' >= window_start + Window
                 /\ clock - rolled >= Window - MaxDelay
                 /\ rolled' = clock
                 /\ Used(c) = 0
           /\ window' = window =>
                 /\ window_start' = window_start
                 /\ rolled' = rolled
                 /\ Used(c) = count
<1>1. now[c] \in Nat /\ now[c] <= clock /\ clock <= now[c] + MaxDelay
  BY DEF IInv, TypeOK, ClockInv
<1>2. CASE Expired(c)
  <2>1. /\ window_start' = now[c] /\ window' = window + 1 /\ rolled' = clock
        /\ Used(c) = 0
    BY <1>2 DEF Roll, Used
  <2>2. now[c] - window_start >= Window
    BY <1>1, <1>2, LimiterAssumption DEF Expired, Since, IInv, TypeOK
  <2>. QED
    BY <1>1, <2>1, <2>2, LimiterAssumption DEF IInv, TypeOK, ClockInv, Since
<1>3. CASE ~Expired(c)
  <2>1. UNCHANGED <<window_start, window, rolled>> /\ Used(c) = count
    BY <1>3 DEF Roll, Used
  <2>2. Since(now[c], window_start) < Window
    BY <1>1, <1>3, LimiterAssumption DEF Expired, Since, IInv, TypeOK
  <2>. QED
    BY <1>1, <2>1, <2>2 DEF IInv, TypeOK, ClockInv
<1>. QED
  BY <1>2, <1>3

\* The requests of the earlier windows, seen from the window a call is in.
LEMMA RolledHistory ==
    ASSUME IInv, NEW c \in Callers, now[c] # None, Roll(c), clock' = clock,
           NEW r \in admitted
    PROVE  /\ r.at <= clock
           /\ r.window <= window'
           /\ r.place <= Limit
           /\ r.window = window' => r.place <= Used(c) /\ rolled' <= r.at
           /\ r.window < window' => r.at <= rolled'
           /\ r.window + 1 < window' => r.at + Window - MaxDelay <= rolled'
<1>1. /\ r.window \in Nat /\ r.at \in Nat
      /\ window \in Nat /\ rolled \in Nat /\ clock \in Nat
      /\ Window \in Nat /\ MaxDelay \in Nat
  BY LimiterAssumption DEF IInv, TypeOK, Request
<1>2. /\ r.at <= clock
      /\ r.window <= window
      /\ r.place <= Limit
      /\ r.window = window => r.place <= count /\ rolled <= r.at
      /\ r.window < window => r.at <= rolled
      /\ r.window + 1 < window => r.at + Window - MaxDelay <= rolled
      /\ rolled <= clock
  BY DEF IInv, HistoryInv, ClockInv
<1>3. CASE window' = window
  BY <1>2, <1>3, RollFacts
<1>4. CASE window' # window
  <2>1. /\ window' = window + 1
        /\ clock - rolled >= Window - MaxDelay
        /\ rolled' = clock
    BY <1>4, RollFacts
  <2>. QED
    BY <1>1, <1>2, <2>1
<1>. QED
  BY <1>3, <1>4

\* Refusals of the earlier windows stay what they were.
LEMMA RolledTold ==
    ASSUME IInv, NEW c \in Callers, now[c] # None, Roll(c), clock' = clock,
           NEW d \in Callers, told[d] # None
    PROVE  /\ told[d].window <= window'
           /\ told[d].window = window' =>
                 told[d].retry_at + Second > window_start' + Window
<1>1. /\ told[d].window \in Nat /\ window \in Nat
      /\ told[d].window <= window
      /\ told[d].window = window =>
            told[d].retry_at + Second > window_start + Window
  BY DEF IInv, TypeOK, ToldInv, Refusal
<1>2. \/ window' = window /\ window_start' = window_start
      \/ window' = window + 1
  BY RollFacts
<1>. QED
  BY <1>1, <1>2

\* Letting a request through keeps the invariant: it has a place of its own.
LEMMA AdmitStep ==
    ASSUME IInv, NEW c \in Callers, Admit(c) PROVE IInv'
<1>. DEFINE new == [window |-> window', place |-> count', at |-> clock]
<1>1. /\ now[c] # None
      /\ Used(c) < Limit
      /\ Roll(c)
      /\ count' = Used(c) + 1
      /\ admitted' = admitted \cup {new}
      /\ now' = [now EXCEPT ![c] = None]
      /\ clock' = clock
      /\ told' = told
  BY DEF Admit
<1>2. Used(c) \in Nat /\ clock \in Nat /\ window' \in Nat
  BY <1>1, RollFacts DEF IInv, TypeOK, Used
<1>3. count' \in 1 .. Limit /\ count' \in Nat \ {0}
  BY <1>1, <1>2, LimiterAssumption
<1>4. /\ new \in Request
      /\ new.window = window' /\ new.place = count' /\ new.at = clock
  BY <1>2, <1>3 DEF Request
<1>. HIDE DEF new
<1>5. TypeOK'
  <2>1. admitted' \subseteq Request
    BY <1>1, <1>4 DEF IInv, TypeOK
  <2>2. count' \in 0 .. Limit
    BY <1>3, LimiterAssumption
  <2>. QED
    BY <1>1, <2>1, <2>2, RollFacts DEF IInv, TypeOK
<1>6. ClockInv'
  <2>1. window_start' <= rolled' /\ rolled' <= window_start' + MaxDelay
        /\ rolled' <= clock'
    BY <1>1, RollFacts
  <2>. QED
    BY <1>1, <2>1 DEF IInv, TypeOK, ClockInv
<1>7. HistoryInv'
  <2>1. IsFiniteSet(admitted')
    BY <1>1, FS_AddElement DEF IInv, HistoryInv
  \* The new request takes the next place of the window.
  <2>2. \A k \in 1 .. count' : \E r \in admitted' : r.window = window' /\ r.place = k
    <3>. SUFFICES ASSUME NEW k \in 1 .. count'
                  PROVE  \E r \in admitted' : r.window = window' /\ r.place = k
      OBVIOUS
    <3>1. CASE k = count'
      BY <1>1, <1>4, <3>1
    <3>2. CASE k # count'
      <4>1. k \in 1 .. Used(c)
        BY <1>1, <1>2, <3>2
      <4>2. window' = window /\ k \in 1 .. count
        BY <1>1, <1>2, <4>1, RollFacts
      <4>3. PICK r \in admitted : r.window = window /\ r.place = k
        BY <4>2 DEF IInv, HistoryInv
      <4>. QED
        BY <1>1, <4>2, <4>3
    <3>. QED
      BY <3>1, <3>2
  <2>3. ASSUME NEW r \in admitted
        PROVE  /\ r.at <= clock'
               /\ r.window <= window'
               /\ r.place <= Limit
               /\ r.window = window' => r.place <= count' /\ rolled' <= r.at
               /\ r.window < window' => r.at <= rolled'
               /\ r.window + 1 < window' => r.at + Window - MaxDelay <= rolled'
    <3>1. r.place \in Nat
      BY DEF IInv, TypeOK, Request
    <3>. QED
      BY <1>1, <1>2, <3>1, RolledHistory
  <2>4. /\ new.at <= clock'
        /\ new.window <= window'
        /\ new.place <= Limit
        /\ new.place <= count' /\ rolled' <= new.at
        /\ ~(new.window < window') /\ ~(new.window + 1 < window')
    <3>1. rolled' <= clock /\ clock' = clock
      BY <1>1, RollFacts
    <3>2. \A w \in Nat : ~(w + 1 < w)
      OBVIOUS
    <3>3. \A w \in Nat : w <= w /\ ~(w < w)
      OBVIOUS
    <3>4. \A k \in 1 .. Limit : k <= Limit
      OBVIOUS
    <3>. QED
      BY <1>2, <1>3, <1>4, <3>1, <3>2, <3>3, <3>4
  <2>. QED
    BY <1>1, <2>1, <2>2, <2>3, <2>4 DEF HistoryInv
<1>8. PairInv'
  <2>1. ASSUME NEW r \in admitted
        PROVE  /\ ~(r.window = new.window /\ r.place = new.place)
               /\ r.window + 1 < new.window => r.at + Window - MaxDelay <= new.at
               /\ ~(new.window + 1 < r.window)
    <3>1. /\ r.window \in Nat /\ r.place \in Nat /\ r.at \in Nat
          /\ Window \in Nat /\ MaxDelay \in Nat /\ rolled' \in Nat
          /\ rolled' <= clock
      BY <1>1, RollFacts, LimiterAssumption DEF IInv, TypeOK, Request
    <3>2. /\ r.window <= window'
          /\ r.window = window' => r.place <= Used(c)
          /\ r.window + 1 < window' => r.at + Window - MaxDelay <= rolled'
      BY <1>1, RolledHistory
    <3>3. count' = Used(c) + 1
      BY <1>1
    <3>. QED
      BY <1>2, <1>4, <3>1, <3>2, <3>3
  <2>2. ~(new.window + 1 < new.window)
    <3>1. \A w \in Nat : ~(w + 1 < w)
      OBVIOUS
    <3>. QED
      BY <1>2, <1>4, <3>1
  <2>3. \A r \in admitted' : r \in admitted \/ r = new
    BY <1>1
  <2>. QED
    BY <2>1, <2>2, <2>3 DEF IInv, PairInv
<1>9. ToldInv'
  BY <1>1, RolledTold DEF ToldInv
<1>. QED
  BY <1>5, <1>6, <1>7, <1>8, <1>9 DEF IInv

\* A refusal keeps the invariant.
LEMMA RefuseStep ==
    ASSUME IInv, NEW c \in Callers, Refuse(c) PROVE IInv'
<1>. DEFINE answer == [window |-> window',
                       retry_at |-> clock + RetryAfter(now[c], window_start')]
<1>1. /\ now[c] # None
      /\ Used(c) >= Limit
      /\ Roll(c)
      /\ count' = Used(c)
      /\ told' = [told EXCEPT ![c] = answer]
      /\ now' = [now EXCEPT ![c] = None]
      /\ clock' = clock
      /\ admitted' = admitted
  BY DEF Refuse
<1>2. Used(c) \in 0 .. Limit
  BY LimiterAssumption DEF IInv, TypeOK, Used
<1>3. /\ now[c] \in Nat /\ window_start' \in Nat /\ window' \in Nat
      /\ rolled' \in Nat /\ clock \in Nat
      /\ now[c] <= clock /\ window_start' <= clock
      /\ Since(now[c], window_start') < Window
  BY <1>1, RollFacts DEF IInv, TypeOK, ClockInv
<1>4. RetryAfter(now[c], window_start') \in Nat
  BY <1>3, RetryCovers
<1>5. answer \in Refusal
  BY <1>3, <1>4 DEF Refusal
<1>6. /\ answer.window = window'
      /\ answer.retry_at + Second > window_start' + Window
  <2>1. answer.retry_at = clock + RetryAfter(now[c], window_start')
    OBVIOUS
  <2>2. Window - Since(now[c], window_start')
           < RetryAfter(now[c], window_start') + Second
    BY <1>3, RetryCovers
  <2>3. clock - Since(now[c], window_start') >= window_start'
    BY <1>3 DEF Since
  <2>4. Since(now[c], window_start') \in Nat
    BY <1>3 DEF Since
  <2>. QED
    BY <1>3, <1>4, <2>1, <2>2, <2>3, <2>4, LimiterAssumption
<1>. HIDE DEF answer
<1>7. TypeOK'
  BY <1>1, <1>2, <1>3, <1>5 DEF IInv, TypeOK
<1>8. ClockInv'
  <2>1. window_start' <= rolled' /\ rolled' <= window_start' + MaxDelay
        /\ rolled' <= clock'
    BY <1>1, RollFacts
  <2>. QED
    BY <1>1, <2>1 DEF IInv, TypeOK, ClockInv
<1>9. HistoryInv'
  <2>1. \A k \in 1 .. count' : \E r \in admitted : r.window = window' /\ r.place = k
    <3>1. CASE window' = window
      <4>1. count' = count
        BY <1>1, <3>1, RollFacts
      <4>. QED
        BY <3>1, <4>1 DEF IInv, HistoryInv
    <3>2. CASE window' # window
      <4>1. count' = 0
        BY <1>1, <3>2, RollFacts
      <4>. QED
        BY <4>1
    <3>. QED
      BY <3>1, <3>2
  <2>2. ASSUME NEW r \in admitted
        PROVE  /\ r.at <= clock'
               /\ r.window <= window'
               /\ r.place <= Limit
               /\ r.window = window' => r.place <= count' /\ rolled' <= r.at
               /\ r.window < window' => r.at <= rolled'
               /\ r.window + 1 < window' => r.at + Window - MaxDelay <= rolled'
    BY <1>1, RolledHistory
  <2>3. IsFiniteSet(admitted)
    BY DEF IInv, HistoryInv
  <2>. QED
    BY <1>1, <2>1, <2>2, <2>3 DEF HistoryInv
<1>10. PairInv'
  BY <1>1 DEF IInv, PairInv
<1>11. ToldInv'
  <2>1. told'[c] = answer /\ \A d \in Callers \ {c} : told'[d] = told[d]
    BY <1>1 DEF IInv, TypeOK
  <2>2. ASSUME NEW d \in Callers \ {c}, told[d] # None
        PROVE  /\ told[d].window <= window'
               /\ told[d].window = window' =>
                     told[d].retry_at + Second > window_start' + Window
    BY <1>1, <2>2, RolledTold
  <2>3. answer.window <= window'
    BY <1>3, <1>6
  <2>. QED
    BY <1>6, <2>1, <2>2, <2>3 DEF ToldInv
<1>. QED
  BY <1>7, <1>8, <1>9, <1>10, <1>11 DEF IInv

\* Every step preserves the inductive invariant.
LEMMA InvNext == IInv /\ [Next]_vars => IInv'
<1>. SUFFICES ASSUME IInv, [Next]_vars PROVE IInv'
  OBVIOUS
<1>1. CASE UNCHANGED vars
  BY <1>1 DEF vars, IInv, TypeOK, ClockInv, HistoryInv, PairInv, ToldInv
<1>. QED
  BY <1>1, TickStep, ReadClockStep, AdmitStep, RefuseStep DEF Next

\* The inductive invariant: types, and the history of windows and requests.
THEOREM Invariance == Spec => []IInv
BY InvInit, InvNext, PTL DEF Spec

-----------------------------------------------------------------------------
(* The properties.                                                         *)

\* Every variable has its type; in particular count never passes the limit.
THEOREM TypeCorrect == Spec => []TypeOK
<1>1. IInv => TypeOK
  BY DEF IInv
<1>. QED
  BY <1>1, Invariance, PTL

\* A window admits at most Limit requests.
LEMMA WindowBounded ==
    ASSUME IInv, NEW w
    PROVE  LET inside == {r \in admitted : r.window = w}
           IN  IsFiniteSet(inside) /\ Cardinality(inside) <= Limit
<1>. DEFINE inside == {r \in admitted : r.window = w}
            place == [r \in inside |-> r.place]
<1>1. \A r \in inside : r.place \in 1 .. Limit
  BY LimiterAssumption DEF IInv, TypeOK, HistoryInv, Request
<1>2. place \in [inside -> 1 .. Limit]
  BY <1>1
<1>3. \A r, s \in inside : place[r] = place[s] => r = s
  BY DEF IInv, PairInv
<1>4. place \in Injection(inside, 1 .. Limit)
  BY <1>2, <1>3 DEF Injection, IsInjective
<1>5. IsFiniteSet(1 .. Limit) /\ Cardinality(1 .. Limit) = Limit
  BY FS_Interval, LimiterAssumption
<1>6. IsFiniteSet(inside) /\ Cardinality(inside) <= Cardinality(1 .. Limit)
  BY <1>4, <1>5, FS_Injection
<1>. QED
  BY <1>5, <1>6

\* Two windows admit at most twice as many.
LEMMA TwoWindowsBounded ==
    ASSUME IInv, NEW v, NEW w, NEW S \in SUBSET admitted,
           \A r \in S : r.window \in {v, w}
    PROVE  Cardinality(S) <= 2 * Limit
<1>. DEFINE V == {r \in admitted : r.window = v}
            W == {r \in admitted : r.window = w}
<1>1. IsFiniteSet(V) /\ Cardinality(V) <= Limit
  BY WindowBounded
<1>2. IsFiniteSet(W) /\ Cardinality(W) <= Limit
  BY WindowBounded
<1>3. S \subseteq V \cup W
  OBVIOUS
<1>. HIDE DEF V, W
<1>4. /\ IsFiniteSet(V \cup W)
      /\ Cardinality(V \cup W) = Cardinality(V) + Cardinality(W) - Cardinality(V \cap W)
  BY <1>1, <1>2, FS_Union
<1>5. IsFiniteSet(V \cap W) /\ Cardinality(V \cap W) \in Nat
  BY <1>1, FS_Subset, FS_CardinalityType
<1>6. Cardinality(S) <= Cardinality(V \cup W) /\ IsFiniteSet(S)
  BY <1>3, <1>4, FS_Subset
<1>7. /\ Cardinality(V) \in Nat /\ Cardinality(W) \in Nat
      /\ Cardinality(V \cup W) \in Nat /\ Cardinality(S) \in Nat
  BY <1>1, <1>2, <1>4, <1>6, FS_CardinalityType
<1>. QED
  BY <1>1, <1>2, <1>4, <1>5, <1>6, <1>7, LimiterAssumption

\* The configured rate is exceeded at most twofold in any minute less the
\* delay; with no delay, in any minute, which is what rate_limit.rs says.
THEOREM BurstsAreBounded == Spec => []BurstBounded
<1>1. IInv => BurstBounded
  <2>. SUFFICES ASSUME IInv, NEW q \in admitted
                PROVE  Cardinality(AdmittedDuring(q.at, q.at + Window - MaxDelay))
                          <= 2 * Limit
    BY DEF BurstBounded
  <2>. DEFINE S == AdmittedDuring(q.at, q.at + Window - MaxDelay)
  <2>1. S \in SUBSET admitted
    BY DEF AdmittedDuring
  <2>2. \A r \in admitted : r.window \in Nat /\ r.at \in Nat
    BY DEF IInv, TypeOK, Request
  <2>3. \A r \in S : q.at <= r.at /\ r.at < q.at + Window - MaxDelay
    BY DEF AdmittedDuring
  <2>. HIDE DEF S
  \* No two of them are two windows apart.
  <2>4. \A r, s \in S : ~(r.window + 1 < s.window)
    <3>. SUFFICES ASSUME NEW r \in S, NEW s \in S, r.window + 1 < s.window
                  PROVE  FALSE
      OBVIOUS
    <3>1. r.at + Window - MaxDelay <= s.at
      BY <2>1 DEF IInv, PairInv
    <3>. QED
      BY <2>1, <2>2, <2>3, <3>1, LimiterAssumption
  <2>5. CASE S = {}
    BY <2>1, <2>5, TwoWindowsBounded DEF S
  <2>6. CASE S # {}
    <3>1. PICK r \in S : TRUE
      BY <2>6
    <3>2. CASE \E s \in S : s.window < r.window
      <4>1. \A s \in S : s.window \in {r.window - 1, r.window}
        BY <2>1, <2>2, <2>4, <3>1, <3>2
      <4>. QED
        BY <2>1, <4>1, TwoWindowsBounded DEF S
    <3>3. CASE ~\E s \in S : s.window < r.window
      <4>1. \A s \in S : s.window \in {r.window, r.window + 1}
        BY <2>1, <2>2, <2>4, <3>1, <3>3
      <4>. QED
        BY <2>1, <4>1, TwoWindowsBounded DEF S
    <3>. QED
      BY <3>2, <3>3
  <2>. QED
    BY <2>5, <2>6 DEF S
<1>. QED
  BY <1>1, Invariance, PTL

\* Windows follow each other nearly a minute apart.
THEOREM WindowsAreApart == Spec => WindowsApart
<1>1. IInv /\ [Next]_vars =>
         [window' # window =>
             /\ window_start' >= window_start + Window
             /\ clock - rolled >= Window - MaxDelay]_vars
  <2>. SUFFICES ASSUME IInv, Next, window' # window
                PROVE  /\ window_start' >= window_start + Window
                       /\ clock - rolled >= Window - MaxDelay
    BY DEF vars
  <2>1. PICK c \in Callers : now[c] # None /\ Roll(c) /\ clock' = clock
    BY DEF Next, Tick, ReadClock, Admit, Refuse
  <2>. QED
    BY <2>1, RollFacts
<1>. QED
  BY <1>1, Invariance, PTL DEF Spec, WindowsApart

\* A caller that waits as it was told, and the second that was rounded
\* away, is not refused by the same window.
THEOREM PatienceIsRewarded == Spec => []PatienceRewarded
<1>1. IInv => PatienceRewarded
  <2>. SUFFICES ASSUME IInv, NEW c \in Callers, now[c] # None, told[c] # None,
                       now[c] >= told[c].retry_at + Second,
                       told[c].window = window
                PROVE  Expired(c)
    BY DEF PatienceRewarded
  <2>1. told[c].retry_at + Second > window_start + Window
    BY DEF IInv, ToldInv
  <2>2. now[c] \in Nat /\ window_start \in Nat /\ told[c].retry_at \in Nat
    BY DEF IInv, TypeOK, Refusal
  <2>. QED
    BY <2>1, <2>2, LimiterAssumption DEF Expired, Since
<1>. QED
  BY <1>1, Invariance, PTL

\* A full window has admitted Limit requests, none of them before it began.
LEMMA FullWindowAdmitted ==
    ASSUME IInv, count = Limit
    PROVE  LET inside == {r \in admitted : r.window = window}
           IN  IsFiniteSet(inside) /\ Cardinality(inside) >= Limit
<1>. DEFINE inside == {r \in admitted : r.window = window}
            at(k) == CHOOSE r \in inside : r.place = k
            request == [k \in 1 .. Limit |-> at(k)]
<1>1. IsFiniteSet(inside)
  BY FS_Subset DEF IInv, HistoryInv
<1>2. \A k \in 1 .. Limit : \E r \in inside : r.place = k
  BY DEF IInv, HistoryInv
<1>. HIDE DEF inside
<1>3. \A k \in 1 .. Limit : at(k) \in inside /\ at(k).place = k
  BY <1>2
<1>4. \A k \in 1 .. Limit : request[k] = at(k)
  OBVIOUS
<1>5. request \in [1 .. Limit -> inside]
  BY <1>3
<1>. HIDE DEF at, request
<1>6. \A k, l \in 1 .. Limit : request[k] = request[l] => k = l
  BY <1>3, <1>4
<1>7. request \in Injection(1 .. Limit, inside)
  BY <1>5, <1>6 DEF Injection, IsInjective
<1>8. Cardinality(1 .. Limit) = Limit
  BY FS_Interval, LimiterAssumption
<1>9. Cardinality(1 .. Limit) <= Cardinality(inside)
  BY <1>1, <1>7, FS_Injection
<1>. QED
  BY <1>1, <1>8, <1>9 DEF inside

\* Nobody is refused unless Limit requests were admitted in the minute before
\* it read the clock, or since: only a full window refuses, and it began less
\* than a minute before that clock (rate_limit.rs: check).
THEOREM RefusalsAreEarned == Spec => NoIdleRefusal
<1>1. ASSUME IInv, NEW c \in Callers, Refuse(c)
      PROVE  Cardinality(AdmittedDuring(now[c] - Window + 1, clock + 1)) >= Limit
  <2>. DEFINE recent == AdmittedDuring(now[c] - Window + 1, clock + 1)
  <2>1. now[c] # None /\ Used(c) >= Limit
    BY <1>1 DEF Refuse
  <2>2. /\ now[c] \in Nat /\ window_start \in Nat /\ count \in 0 .. Limit
        /\ rolled \in Nat /\ clock \in Nat /\ window_start <= rolled
    BY <1>1, <2>1 DEF IInv, TypeOK, ClockInv
  <2>3. recent \in SUBSET admitted
    BY DEF AdmittedDuring
  <2>4. IsFiniteSet(recent) /\ Cardinality(recent) \in Nat
    BY <1>1, <2>3, FS_Subset, FS_CardinalityType DEF IInv, HistoryInv
  <2>5. CASE Limit = 0
    BY <2>4, <2>5
  \* A window that has just begun is empty: the one that refuses is under way.
  <2>6. CASE Limit # 0
    <3>. DEFINE inside == {r \in admitted : r.window = window}
    <3>1. ~Expired(c) /\ count = Limit
      BY <2>1, <2>2, <2>6, LimiterAssumption DEF Used
    <3>2. now[c] - Window + 1 <= window_start
      BY <2>2, <3>1, LimiterAssumption DEF Expired, Since
    <3>3. IsFiniteSet(inside) /\ Cardinality(inside) >= Limit
      BY <1>1, <3>1, FullWindowAdmitted
    <3>4. ASSUME NEW r \in inside PROVE r \in recent
      <4>1. r \in admitted /\ r.at \in Nat /\ r.at <= clock /\ rolled <= r.at
        BY <1>1 DEF IInv, TypeOK, HistoryInv, Request
      <4>2. now[c] - Window + 1 <= r.at /\ r.at < clock + 1
        BY <2>2, <3>2, <4>1, LimiterAssumption
      <4>. QED
        BY <4>1, <4>2 DEF AdmittedDuring
    <3>. HIDE DEF inside, recent
    <3>5. Cardinality(inside) <= Cardinality(recent)
      BY <2>4, <3>4, FS_Subset
    <3>6. Cardinality(inside) \in Nat
      BY <3>3, FS_CardinalityType
    <3>. QED
      BY <2>4, <3>3, <3>5, <3>6, LimiterAssumption DEF recent
  <2>. QED
    BY <2>5, <2>6
\* No other call is told anything by that step.
<1>2. IInv /\ [Next]_vars =>
         [\A c \in Callers : told'[c] # told[c] =>
            Cardinality(AdmittedDuring(now[c] - Window + 1, clock + 1)) >= Limit]_vars
  <2>. SUFFICES ASSUME IInv, Next, NEW c \in Callers, told'[c] # told[c]
                PROVE  Cardinality(AdmittedDuring(now[c] - Window + 1, clock + 1))
                          >= Limit
    BY DEF vars
  <2>1. PICK d \in Callers : Refuse(d)
    BY DEF Next, Tick, ReadClock, Admit
  <2>2. \A e \in Callers : e # d => told'[e] = told[e]
    BY <2>1 DEF Refuse, IInv, TypeOK
  <2>3. c = d
    BY <2>2
  <2>. QED
    BY <1>1, <2>1, <2>3
<1>. QED
  BY <1>2, Invariance, PTL DEF Spec, NoIdleRefusal
=============================================================================
