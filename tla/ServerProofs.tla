---------------------------- MODULE ServerProofs ----------------------------
(***************************************************************************)
(* The provider's key set and the dispatcher of the server, for every      *)
(* number of callers, every TTL and time-out, and every batch.             *)
(***************************************************************************)
EXTENDS JwksCache, McpDispatch, FiniteSetTheorems, SequenceTheorems, TLAPS

-----------------------------------------------------------------------------
(* A key set that is handed out is recent.  The property alone is not      *)
(* inductive: the set may be one stored long ago, or one that a fetch      *)
(* under way will store.  The invariant bounds the age of all three, and   *)
(* says that an answer of the provider belongs to a fetch and is no older  *)
(* than it.                                                                *)

\* The fetch, and the provider's answer to it.
FetchInv ==
    /\ fetchAge \in 0 .. FetchTimeout
    /\ servedAge \in {NoSet} \cup 0 .. fetchAge
    /\ fetching = <<>> => servedAge = NoSet

\* What the cache holds was stored in time and is kept for the TTL.
CacheInv ==
    /\ cacheAge \in {NoSet} \cup 0 .. (JwksTtl + 1)
    /\ cacheLag \in 0 .. FetchTimeout

HandedInv == handed \in [KeyCallers -> {NoSet} \cup 0 .. (JwksTtl + FetchTimeout)]

KeyInv == FetchInv /\ CacheInv /\ HandedInv

-----------------------------------------------------------------------------
\* At first there is no set.
LEMMA KeyInitially == JwksInit => KeyInv
  BY JwksAssumption DEF JwksInit, KeyInv, FetchInv, CacheInv, HandedInv, NoSet

\* Handing out a set of a bounded age.
LEMMA Handing ==
  ASSUME HandedInv, NEW x, NEW age \in 0 .. (JwksTtl + FetchTimeout),
         handed' = [handed EXCEPT ![x] = age]
  PROVE  HandedInv'
  BY DEF HandedInv

\* The cached set is handed out only before it expires.
LEMMA LockKeeps == KeyInv /\ Lock => KeyInv'
<1>. SUFFICES ASSUME KeyInv, Lock PROVE KeyInv'
  OBVIOUS
<1>1. CacheInv'
  BY DEF KeyInv, CacheInv, Lock
<1>2. FetchInv'
  BY JwksAssumption DEF KeyInv, FetchInv, Lock, NoSet
<1>3. HandedInv'
  <2>1. CASE cacheAge = NoSet \/ Expired
    BY <2>1 DEF KeyInv, HandedInv, Lock
  <2>2. CASE ~(cacheAge = NoSet \/ Expired)
    <3>1. cacheLag + cacheAge \in 0 .. (JwksTtl + FetchTimeout)
      BY <2>2, JwksAssumption DEF KeyInv, CacheInv, Expired, NoSet
    <3>2. handed' = [handed EXCEPT ![Head(queue)] = cacheLag + cacheAge]
      BY <2>2 DEF Lock
    <3>. QED
      BY <3>1, <3>2, Handing DEF KeyInv
  <2>. QED
    BY <2>1, <2>2
<1>. QED
  BY <1>1, <1>2, <1>3 DEF KeyInv

\* A fetch that fails stores nothing.
LEMMA FetchFailsKeeps == KeyInv /\ FetchFails => KeyInv'
  BY JwksAssumption
  DEF KeyInv, FetchInv, CacheInv, HandedInv, FetchFails, DropGuard, NoSet

\* A set that arrives is no older than its fetch.
LEMMA FetchArrivesKeeps == KeyInv /\ FetchArrives => KeyInv'
<1>. SUFFICES ASSUME KeyInv, FetchArrives PROVE KeyInv'
  OBVIOUS
<1>1. servedAge \in 0 .. FetchTimeout
  BY JwksAssumption DEF KeyInv, FetchInv, FetchArrives, NoSet
<1>2. FetchInv'
  BY JwksAssumption DEF FetchInv, FetchArrives, DropGuard, NoSet
<1>3. CacheInv'
  BY <1>1, JwksAssumption DEF CacheInv, FetchArrives
<1>4. HandedInv'
  <2>1. servedAge \in 0 .. (JwksTtl + FetchTimeout)
    BY <1>1, JwksAssumption
  <2>2. handed' = [handed EXCEPT ![fetching[1]] = servedAge]
    BY DEF FetchArrives
  <2>. QED
    BY <2>1, <2>2, Handing DEF KeyInv
<1>. QED
  BY <1>2, <1>3, <1>4 DEF KeyInv

\* Time passes for a fetch only until its time-out.
LEMMA TickKeeps == KeyInv /\ KeyTick => KeyInv'
<1>. SUFFICES ASSUME KeyInv, KeyTick PROVE KeyInv'
  OBVIOUS
<1>1. FetchInv'
  <2>1. CASE fetching = <<>>
    BY <2>1, JwksAssumption DEF KeyInv, FetchInv, KeyTick, Older, NoSet
  <2>2. CASE fetching # <<>>
    <3>1. fetchAge < FetchTimeout
      BY <2>2, JwksAssumption DEF KeyInv, FetchInv, KeyTick, TimesOut
    <3>2. fetchAge' = fetchAge + 1
      BY <2>2, <3>1, JwksAssumption DEF KeyInv, FetchInv, KeyTick, Older, NoSet
    <3>3. servedAge' \in {NoSet} \cup 0 .. fetchAge'
      BY <3>1, <3>2, JwksAssumption DEF KeyInv, FetchInv, KeyTick, Older, NoSet
    <3>. QED
      BY <2>2, <3>1, <3>2, <3>3, JwksAssumption DEF KeyInv, FetchInv, KeyTick
  <2>. QED
    BY <2>1, <2>2
<1>2. CacheInv'
  BY JwksAssumption DEF KeyInv, CacheInv, KeyTick, Older, NoSet
<1>3. HandedInv'
  BY DEF KeyInv, HandedInv, KeyTick
<1>. QED
  BY <1>1, <1>2, <1>3 DEF KeyInv

\* Every step.
LEMMA KeyStep == KeyInv /\ [JwksNext]_jwksVars => KeyInv'
<1>. SUFFICES ASSUME KeyInv, [JwksNext]_jwksVars PROVE KeyInv'
  OBVIOUS
<1>1. ASSUME NEW c \in KeyCallers, Come(c) PROVE KeyInv'
  <2>1. HandedInv'
    BY <1>1, JwksAssumption DEF KeyInv, HandedInv, Come, NoSet
  <2>. QED
    BY <1>1, <2>1 DEF KeyInv, FetchInv, CacheInv, Come
<1>2. ASSUME NEW c \in KeyCallers, Dropped(c) PROVE KeyInv'
  <2>1. CASE FetchFails
    BY <2>1, FetchFailsKeeps
  <2>2. CASE UNCHANGED <<fetching, fetchAge, servedAge, cacheAge, cacheLag, waited,
                         handed>>
    BY <2>2 DEF KeyInv, FetchInv, CacheInv, HandedInv
  <2>. QED
    BY <1>2, <2>1, <2>2 DEF Dropped
<1>3. CASE Lock
  BY <1>3, LockKeeps
<1>4. CASE ProviderServes
  BY <1>4, JwksAssumption
  DEF KeyInv, FetchInv, CacheInv, HandedInv, ProviderServes, NoSet
<1>5. CASE FetchArrives
  BY <1>5, FetchArrivesKeeps
<1>6. CASE FetchFails
  BY <1>6, FetchFailsKeeps
<1>7. CASE KeyTick
  BY <1>7, TickKeeps
<1>8. CASE UNCHANGED jwksVars
  BY <1>8 DEF KeyInv, FetchInv, CacheInv, HandedInv, jwksVars
<1>. QED
  BY <1>1, <1>2, <1>3, <1>4, <1>5, <1>6, <1>7, <1>8 DEF JwksNext

\* Every key set a caller is given was served by the provider at most the TTL
\* and one fetch ago (auth.rs:204-221).
THEOREM HandedSetsAreRecent == JwksSpec => []HandedSetIsRecent
<1>1. KeyInv => HandedSetIsRecent
  BY JwksAssumption DEF KeyInv, HandedInv, HandedSetIsRecent, NoSet
<1>. QED
  BY <1>1, KeyInitially, KeyStep, PTL DEF JwksSpec

-----------------------------------------------------------------------------
(* How long a caller waits.  The caller that holds the mutex has place 1,  *)
(* those in the queue the places behind it.  Whoever has place p has seen  *)
(* every caller go that was ahead of it when it came and is not any more,  *)
(* and each of them has taken one time-out at most: what it has waited is  *)
(* bounded by the places it has left behind, and by the age of the fetch   *)
(* under way.                                                              *)

InLine == Len(queue) + Len(fetching)

At(p) ==
    IF fetching = <<>> THEN queue[p]
    ELSE IF p = 1 THEN fetching[1] ELSE queue[p - 1]

\* What the caller at place p may have waited before the fetch under way.
Allowance(p) == FetchTimeout * (Cardinality(KeyCallers) - p)

LineTypeOK ==
    /\ queue \in Seq(KeyCallers)
    /\ fetching = <<>> \/ \E h \in KeyCallers : fetching = <<h>>
    /\ fetching = <<>> => fetchAge = 0
    /\ waited \in [KeyCallers -> Nat]

LineInv ==
    /\ LineTypeOK
    /\ \A p, r \in 1 .. InLine : At(p) = At(r) => p = r
    /\ \A p \in 1 .. InLine : waited[At(p)] <= Allowance(p) + fetchAge

\* A place is left for one that is nearer, and a time-out is what that is worth.
LEMMA AllowanceGrows ==
  /\ Cardinality(KeyCallers) \in Nat
  /\ \A p \in Int : Allowance(p) \in Int
  /\ \A p, r \in Int : p < r => Allowance(r) + FetchTimeout <= Allowance(p)
  /\ \A p \in Int : p <= Cardinality(KeyCallers) => 0 <= Allowance(p)
  /\ Allowance(1) + FetchTimeout = WaitBound
<1>. DEFINE N == Cardinality(KeyCallers)
<1>1. N \in Nat /\ FetchTimeout \in Nat
  BY JwksAssumption, FS_CardinalityType
<1>. HIDE DEF N
<1>2. \A a, b \in Int : FetchTimeout * (a + b) = FetchTimeout * a + FetchTimeout * b
  BY <1>1
<1>3. \A a \in Nat : FetchTimeout * a \in Nat
  BY <1>1
<1>4. \A a \in Int : FetchTimeout * a \in Int
  BY <1>1
<1>5. ASSUME NEW p \in Int, NEW r \in Int, p < r
      PROVE  FetchTimeout * (N - r) + FetchTimeout <= FetchTimeout * (N - p)
  <2>1. FetchTimeout * ((N - r) + (r - p)) = FetchTimeout * (N - r) + FetchTimeout * (r - p)
    BY <1>1, <1>2
  <2>2. FetchTimeout * ((r - p - 1) + 1) = FetchTimeout * (r - p - 1) + FetchTimeout * 1
    BY <1>2
  <2>3. FetchTimeout * (r - p - 1) \in Nat
    BY <1>3, <1>5
  <2>4. (N - r) + (r - p) = N - p /\ (r - p - 1) + 1 = r - p /\ FetchTimeout * 1 = FetchTimeout
    BY <1>1
  <2>5. FetchTimeout * (N - r) \in Int /\ FetchTimeout * (r - p) \in Int
    BY <1>1, <1>4
  <2>. QED
    BY <1>1, <2>1, <2>2, <2>3, <2>4, <2>5
<1>6. FetchTimeout * (N - 1) + FetchTimeout = FetchTimeout * N
  <2>1. FetchTimeout * ((N - 1) + 1) = FetchTimeout * (N - 1) + FetchTimeout * 1
    BY <1>1, <1>2
  <2>2. (N - 1) + 1 = N /\ FetchTimeout * 1 = FetchTimeout
    BY <1>1
  <2>. QED
    BY <2>1, <2>2
<1>7. \A p \in Int : p <= N => FetchTimeout * (N - p) \in Nat
  BY <1>1, <1>3
<1>. QED
  BY <1>1, <1>4, <1>5, <1>6, <1>7 DEF Allowance, WaitBound, N

\* Everybody in line has a place of his own, and there are no more places than
\* callers.
LEMMA LineIsBounded ==
  ASSUME NEW n \in Nat, NEW place \in [1 .. n -> KeyCallers],
         \A p, r \in 1 .. n : place[p] = place[r] => p = r
  PROVE  n <= Cardinality(KeyCallers)
<1>1. IsFiniteSet(1 .. n) /\ Cardinality(1 .. n) = n
  BY FS_Interval
<1>2. IsFiniteSet(KeyCallers) /\ Cardinality(KeyCallers) \in Nat
  BY JwksAssumption, FS_CardinalityType
<1>3. ~(Cardinality(KeyCallers) < n)
  BY <1>1, <1>2, FS_PigeonHole
<1>. QED
  BY <1>2, <1>3

\* The callers in line, in either form of it.
LEMMA LineParts ==
  ASSUME LineTypeOK
  PROVE  /\ Len(queue) \in Nat /\ Len(fetching) \in 0 .. 1 /\ InLine \in Nat
         /\ fetching = <<>> => Len(fetching) = 0
         /\ fetching # <<>> => Len(fetching) = 1 /\ fetching[1] \in KeyCallers
         /\ \A i \in 1 .. Len(queue) : queue[i] \in KeyCallers
         /\ DOMAIN queue = 1 .. Len(queue)
         /\ \A p \in 1 .. InLine : At(p) \in KeyCallers
<1>1. /\ Len(queue) \in Nat
      /\ \A i \in 1 .. Len(queue) : queue[i] \in KeyCallers
      /\ DOMAIN queue = 1 .. Len(queue)
  BY DEF LineTypeOK
<1>2. CASE fetching = <<>>
  BY <1>1, <1>2 DEF InLine, At
<1>3. ASSUME NEW h \in KeyCallers, fetching = <<h>> PROVE
      /\ Len(fetching) = 1 /\ fetching[1] = h /\ fetching # <<>>
  BY <1>3
<1>4. ASSUME NEW h \in KeyCallers, fetching = <<h>>, NEW p \in 1 .. InLine
      PROVE  At(p) \in KeyCallers
  <2>1. Len(fetching) = 1 /\ fetching[1] = h /\ fetching # <<>>
    BY <1>3, <1>4
  <2>. QED
    BY <1>1, <1>4, <2>1 DEF InLine, At
<1>. QED
  BY <1>1, <1>2, <1>3, <1>4 DEF LineTypeOK, InLine

\* Callers that move up in the line, or stay where they are while the fetch goes
\* on, wait no longer than their new places allow.
LEMMA LineMovesUp ==
  ASSUME FetchInv, LineInv, LineTypeOK', FetchInv', waited' = waited,
         NEW from \in [1 .. InLine' -> 1 .. InLine],
         \A p, r \in 1 .. InLine' : from[p] = from[r] => p = r,
         \A p \in 1 .. InLine' :
             /\ At(p)' = At(from[p])
             /\ from[p] > p \/ (from[p] = p /\ fetchAge' = fetchAge)
  PROVE  LineInv'
<1>1. InLine \in Nat /\ InLine' \in Nat
  BY LineParts DEF LineInv, LineTypeOK, InLine
<1>2. ASSUME NEW p \in 1 .. InLine', NEW r \in 1 .. InLine', At(p)' = At(r)'
      PROVE  p = r
  BY <1>2 DEF LineInv
<1>3. ASSUME NEW p \in 1 .. InLine' PROVE waited'[At(p)'] <= Allowance(p) + fetchAge'
  <2>. DEFINE q == from[p]
  <2>1. q \in 1 .. InLine /\ At(p)' = At(q)
    OBVIOUS
  <2>2. waited[At(q)] <= Allowance(q) + fetchAge
    BY <2>1 DEF LineInv
  <2>3. waited[At(q)] \in Nat
    BY <2>1, LineParts DEF LineInv, LineTypeOK
  <2>4. /\ fetchAge \in 0 .. FetchTimeout /\ fetchAge' \in 0 .. FetchTimeout
        /\ FetchTimeout \in Nat
    BY JwksAssumption DEF FetchInv
  <2>5. p \in Int /\ q \in Int /\ Allowance(p) \in Int /\ Allowance(q) \in Int
    BY <1>1, <2>1, AllowanceGrows
  <2>. HIDE DEF q
  <2>6. waited[At(q)] <= Allowance(p) + fetchAge'
    <3>1. CASE q > p
      <4>1. Allowance(q) + FetchTimeout <= Allowance(p)
        BY <2>5, <3>1, AllowanceGrows
      <4>. QED
        BY <2>2, <2>3, <2>4, <2>5, <4>1
    <3>2. CASE q = p /\ fetchAge' = fetchAge
      BY <2>2, <3>2
    <3>. QED
      BY <3>1, <3>2 DEF q
  <2>. QED
    BY <2>1, <2>6
<1>4. \A p : Allowance(p)' = Allowance(p)
  BY DEF Allowance
<1>. QED
  BY <1>2, <1>3, <1>4 DEF LineInv

\* At first nobody is in line.
LEMMA LineInitially == JwksInit => LineInv
<1>. SUFFICES ASSUME JwksInit PROVE LineInv
  OBVIOUS
<1>1. LineTypeOK
  BY DEF JwksInit, LineTypeOK
<1>2. InLine = 0
  BY DEF JwksInit, InLine
<1>. QED
  BY <1>1, <1>2 DEF LineInv

\* A caller comes: it gets the last place, and has waited for nothing yet.
LEMMA ComeKeepsLine ==
  ASSUME KeyInv, LineInv, NEW c \in KeyCallers, Come(c)
  PROVE  LineInv'
<1>0. PICK n \in Int : n = InLine + 1
  BY LineParts DEF LineInv
<1>1. /\ queue \in Seq(KeyCallers) /\ queue' = Append(queue, c) /\ fetching' = fetching
      /\ fetchAge' = fetchAge /\ waited' = [waited EXCEPT ![c] = 0]
      /\ waited \in [KeyCallers -> Nat] /\ c \notin Present /\ LineTypeOK
      /\ fetchAge \in Nat
  BY JwksAssumption DEF LineInv, LineTypeOK, Come, KeyInv, FetchInv
<1>2. /\ queue' \in Seq(KeyCallers) /\ Len(queue') = Len(queue) + 1
      /\ \A i \in 1 .. Len(queue) : queue'[i] = queue[i]
      /\ queue'[Len(queue) + 1] = c
  BY <1>1
<1>3. LineTypeOK'
  BY <1>1, <1>2 DEF LineTypeOK
<1>4. InLine \in Nat /\ InLine' = n
  BY <1>0, <1>1, <1>2, LineParts DEF InLine
<1>5. (\A p \in 1 .. InLine : At(p)' = At(p)) /\ At(n)' = c
  <2>1. CASE fetching = <<>>
    BY <1>0, <1>1, <1>2, <2>1, LineParts DEF At, InLine
  <2>2. CASE fetching # <<>>
    <3>1. InLine = Len(queue) + 1 /\ n = Len(queue) + 2 /\ Len(queue) \in Nat
            /\ fetching' # <<>>
      <4>1. Len(fetching) = 1 /\ Len(queue) \in Nat
        BY <1>1, <2>2, LineParts
      <4>. QED
        BY <1>0, <1>1, <2>2, <4>1 DEF InLine
    <3>2. At(n)' = c
      <4>1. n - 1 = Len(queue) + 1 /\ n # 1
        BY <3>1
      <4>. QED
        BY <1>2, <3>1, <4>1 DEF At
    <3>3. ASSUME NEW p \in 1 .. InLine PROVE At(p)' = At(p)
      <4>1. CASE p = 1
        BY <1>1, <2>2, <4>1 DEF At
      <4>2. CASE p # 1
        <5>1. p - 1 \in 1 .. Len(queue)
          BY <3>1, <4>2
        <5>2. queue'[p - 1] = queue[p - 1]
          BY <1>2, <5>1
        <5>. QED
          BY <2>2, <3>1, <4>2, <5>2 DEF At
      <4>. QED
        BY <4>1, <4>2
    <3>. QED
      BY <3>2, <3>3
  <2>. QED
    BY <2>1, <2>2
<1>6. \A p \in 1 .. InLine : At(p) \in KeyCallers /\ At(p) # c
  <2>1. \A p \in 1 .. InLine : At(p) \in Present
    <3>1. CASE fetching = <<>>
      BY <1>1, <3>1, LineParts DEF At, InLine, Present, ToSet
    <3>2. CASE fetching # <<>>
      <4>1. PICK h \in KeyCallers : fetching = <<h>>
        BY <1>1, <3>2 DEF LineTypeOK
      <4>2. Len(fetching) = 1 /\ fetching[1] = h /\ h \in ToSet(fetching)
        BY <4>1 DEF ToSet
      <4>. QED
        BY <1>1, <3>2, <4>2, LineParts DEF At, InLine, Present, ToSet
    <3>. QED
      BY <3>1, <3>2
  <2>. QED
    BY <1>1, <2>1, LineParts
<1>7. ASSUME NEW p \in 1 .. n, NEW r \in 1 .. n, At(p)' = At(r)' PROVE p = r
  <2>1. \A i \in 1 .. n : i \in 1 .. InLine \/ i = n
    BY <1>0, <1>4
  <2>. QED
    BY <1>5, <1>6, <1>7, <2>1 DEF LineInv
<1>8. n <= Cardinality(KeyCallers)
  <2>. DEFINE place == [p \in 1 .. n |-> At(p)']
  <2>1. \A p \in 1 .. n : At(p)' \in KeyCallers
    BY <1>0, <1>4, <1>5, <1>6
  <2>2. place \in [1 .. n -> KeyCallers] /\ \A p, r \in 1 .. n : place[p] = place[r] => p = r
    BY <1>7, <2>1
  <2>3. n \in Nat
    BY <1>0, <1>4
  <2>. HIDE DEF place
  <2>. QED
    BY <2>2, <2>3, LineIsBounded
<1>9. ASSUME NEW p \in 1 .. n PROVE waited'[At(p)'] <= Allowance(p) + fetchAge'
  <2>1. CASE p \in 1 .. InLine
    <3>1. waited'[At(p)'] = waited[At(p)]
      BY <1>1, <1>5, <1>6, <2>1
    <3>. QED
      BY <1>1, <2>1, <3>1 DEF LineInv
  <2>2. CASE p = n
    <3>1. waited'[At(p)'] = 0
      BY <1>1, <1>5, <2>2
    <3>2. 0 <= Allowance(p) /\ Allowance(p) \in Int
      BY <1>0, <1>8, <2>2, AllowanceGrows
    <3>. QED
      BY <1>1, <3>1, <3>2
  <2>. QED
    BY <1>0, <1>4, <2>1, <2>2
<1>10. \A p : Allowance(p)' = Allowance(p)
  BY DEF Allowance
<1>. QED
  BY <1>3, <1>4, <1>7, <1>9, <1>10 DEF LineInv

\* Everybody behind the first moves up by one place, of whom n are left.
LEMMA FirstLeaves ==
  ASSUME KeyInv, LineInv, LineTypeOK', FetchInv', waited' = waited,
         InLine' = InLine - 1, \A p \in 1 .. InLine' : At(p)' = At(p + 1)
  PROVE  LineInv'
<1>. DEFINE from == [p \in 1 .. InLine' |-> p + 1]
<1>1. InLine \in Nat /\ InLine' \in Int
  BY LineParts DEF LineInv
<1>2. from \in [1 .. InLine' -> 1 .. InLine]
  BY <1>1
<1>3. /\ \A p, r \in 1 .. InLine' : from[p] = from[r] => p = r
      /\ \A p \in 1 .. InLine' : At(p)' = At(from[p]) /\ from[p] > p
  BY <1>1
<1>. HIDE DEF from
<1>. QED
  BY <1>2, <1>3, LineMovesUp DEF KeyInv

\* The mutex is taken: the line stays as it is and its first caller fetches, or
\* the first caller leaves with the cached set.
LEMMA LockKeepsLine ==
  ASSUME KeyInv, LineInv, Lock
  PROVE  LineInv'
<1>1. /\ queue \in Seq(KeyCallers) /\ queue # <<>> /\ queue' = Tail(queue)
      /\ fetching = <<>> /\ waited' = waited /\ fetchAge = 0
      /\ waited \in [KeyCallers -> Nat] /\ LineTypeOK
  BY DEF LineInv, LineTypeOK, Lock
<1>2. /\ queue' \in Seq(KeyCallers) /\ Len(queue') = Len(queue) - 1 /\ Len(queue) \in Nat
      /\ \A i \in 1 .. Len(queue') : queue'[i] = queue[i + 1]
      /\ Head(queue) = queue[1] /\ Head(queue) \in KeyCallers
  BY <1>1, HeadTailProperties
<1>3. InLine = Len(queue) /\ \A p : At(p) = queue[p]
  BY <1>1, <1>2 DEF InLine, At
<1>4. FetchInv'
  BY LockKeeps DEF KeyInv
<1>5. CASE cacheAge = NoSet \/ Expired
  <2>1. fetching' = <<Head(queue)>> /\ fetchAge' = 0
    BY <1>5 DEF Lock
  <2>2. fetching' # <<>> /\ Len(fetching') = 1 /\ fetching'[1] = queue[1]
    BY <1>2, <2>1
  <2>3. LineTypeOK'
    BY <1>1, <1>2, <2>1, <2>2 DEF LineTypeOK
  <2>4. InLine' = InLine
    BY <1>2, <1>3, <2>2 DEF InLine
  <2>5. ASSUME NEW p \in 1 .. InLine PROVE At(p)' = At(p)
    <3>1. CASE p = 1
      BY <1>3, <2>2, <3>1 DEF At
    <3>2. CASE p # 1
      <4>1. p - 1 \in 1 .. Len(queue') /\ (p - 1) + 1 = p
        BY <1>2, <1>3, <3>2
      <4>2. queue'[p - 1] = queue[p]
        BY <1>2, <4>1
      <4>. QED
        BY <1>3, <2>2, <3>2, <4>2 DEF At
    <3>. QED
      BY <3>1, <3>2
  <2>. DEFINE from == [p \in 1 .. InLine' |-> p]
  <2>6. from \in [1 .. InLine' -> 1 .. InLine]
    BY <2>4
  <2>7. /\ \A p, r \in 1 .. InLine' : from[p] = from[r] => p = r
        /\ \A p \in 1 .. InLine' : At(p)' = At(from[p]) /\ from[p] = p
    BY <2>4, <2>5
  <2>. HIDE DEF from
  <2>. QED
    BY <1>1, <1>4, <2>1, <2>3, <2>6, <2>7, LineMovesUp DEF KeyInv
<1>6. CASE ~(cacheAge = NoSet \/ Expired)
  <2>1. fetching' = fetching /\ fetchAge' = fetchAge
    BY <1>6 DEF Lock
  <2>2. LineTypeOK'
    BY <1>1, <1>2, <2>1 DEF LineTypeOK
  <2>3. InLine' = InLine - 1 /\ \A p \in 1 .. InLine' : At(p)' = At(p + 1)
    BY <1>1, <1>2, <1>3, <2>1 DEF InLine, At
  <2>. QED
    BY <1>1, <1>4, <2>2, <2>3, FirstLeaves
<1>. QED
  BY <1>5, <1>6

\* The holder goes, and with it the fetch: it arrived, failed, or was dropped.
LEMMA HolderLeaves ==
  ASSUME KeyInv, LineInv, fetching # <<>>, FetchInv', fetching' = <<>>, fetchAge' = 0,
         queue' = queue, waited' = waited
  PROVE  LineInv'
<1>1. LineTypeOK /\ LineTypeOK'
  BY DEF LineInv, LineTypeOK
<1>2. InLine = Len(queue) + 1 /\ Len(queue) \in Nat /\ InLine' = Len(queue)
  <2>1. Len(fetching') = 0
    OBVIOUS
  <2>2. Len(fetching) = 1 /\ Len(queue) \in Nat
    BY <1>1, LineParts
  <2>. QED
    BY <2>1, <2>2 DEF InLine
<1>3. \A p \in 1 .. InLine' : At(p)' = At(p + 1)
  BY <1>2 DEF At
<1>. QED
  BY <1>1, <1>2, <1>3, FirstLeaves

\* A queue without its k-th caller: those behind it move up by one place.
LEMMA QueueWithout ==
  ASSUME NEW q \in Seq(KeyCallers), NEW k \in 1 .. Len(q)
  PROVE  /\ RemoveAt(q, k) \in Seq(KeyCallers)
         /\ Len(RemoveAt(q, k)) = Len(q) - 1
         /\ \A i \in 1 .. (Len(q) - 1) :
                RemoveAt(q, k)[i] = IF i < k THEN q[i] ELSE q[i + 1]
<1>. DEFINE before == SubSeq(q, 1, k - 1)
            after == SubSeq(q, k + 1, Len(q))
<1>1. /\ before \in Seq(KeyCallers) /\ after \in Seq(KeyCallers)
      /\ Len(before) = k - 1 /\ Len(after) = Len(q) - k
      /\ \A i \in 1 .. (k - 1) : before[i] = q[i]
      /\ \A i \in 1 .. (Len(q) - k) : after[i] = q[k + i]
  BY SubSeqProperties
<1>2. RemoveAt(q, k) = before \o after
  BY DEF RemoveAt
<1>. HIDE DEF before, after
<1>3. /\ before \o after \in Seq(KeyCallers)
      /\ Len(before \o after) = Len(before) + Len(after)
      /\ \A i \in 1 .. Len(before) + Len(after) :
             (before \o after)[i] = IF i <= Len(before) THEN before[i] ELSE after[i - Len(before)]
  BY <1>1, ConcatProperties, Zenon
<1>. DEFINE rest == before \o after
<1>4. Len(rest) = Len(q) - 1 /\ Len(before) + Len(after) = Len(q) - 1
  BY <1>1, <1>3
<1>5. ASSUME NEW i \in 1 .. (Len(q) - 1)
      PROVE  rest[i] = IF i < k THEN q[i] ELSE q[i + 1]
  <2>1. rest[i] = IF i <= k - 1 THEN before[i] ELSE after[i - (k - 1)]
    BY <1>1, <1>3
  <2>. HIDE DEF rest
  <2>2. CASE i < k
    BY <1>1, <2>1, <2>2
  <2>3. CASE ~(i < k)
    <3>1. i - (k - 1) \in 1 .. (Len(q) - k) /\ k + (i - (k - 1)) = i + 1
      BY <2>3
    <3>2. after[i - (k - 1)] = q[i + 1]
      BY <1>1, <3>1
    <3>3. ~(i <= k - 1)
      BY <2>3
    <3>. QED
      BY <2>1, <2>3, <3>2, <3>3
  <2>. QED
    BY <2>2, <2>3
<1>6. rest \in Seq(KeyCallers)
  BY <1>3
<1>. HIDE DEF rest
<1>. QED
  BY <1>2, <1>4, <1>5, <1>6 DEF rest

\* A caller in the queue is dropped.
LEMMA QueuedLeaves ==
  ASSUME KeyInv, LineInv, NEW k \in DOMAIN queue, queue' = RemoveAt(queue, k),
         UNCHANGED <<fetching, fetchAge, servedAge, cacheAge, cacheLag, waited, handed>>
  PROVE  LineInv'
<1>1. /\ LineTypeOK /\ queue \in Seq(KeyCallers) /\ k \in 1 .. Len(queue)
      /\ fetching' = fetching /\ fetchAge' = fetchAge /\ waited' = waited
  BY LineParts DEF LineInv, LineTypeOK
<1>2. /\ queue' \in Seq(KeyCallers) /\ Len(queue') = Len(queue) - 1
      /\ \A i \in 1 .. (Len(queue) - 1) :
             queue'[i] = IF i < k THEN queue[i] ELSE queue[i + 1]
  BY <1>1, QueueWithout
<1>3. LineTypeOK' /\ FetchInv'
  BY <1>1, <1>2 DEF LineTypeOK, KeyInv, FetchInv
<1>4. Len(queue) \in Nat /\ InLine \in Nat /\ InLine' = InLine - 1
  BY <1>1, <1>2, LineParts DEF InLine
<1>5. PICK gap \in 1 .. InLine :
          \A p \in 1 .. InLine' : At(p)' = IF p < gap THEN At(p) ELSE At(p + 1)
  <2>1. CASE fetching = <<>>
    <3>1. InLine = Len(queue)
      BY <1>4, <2>1, LineParts, <1>1 DEF InLine
    <3>. QED
      BY <1>1, <1>2, <1>4, <2>1, <3>1 DEF At
  <2>2. CASE fetching # <<>>
    <3>1. InLine = Len(queue) + 1 /\ k + 1 \in 1 .. InLine
      <4>1. Len(fetching) = 1
        BY <1>1, <2>2, LineParts
      <4>. QED
        BY <1>1, <1>4, <4>1 DEF InLine
    <3>2. ASSUME NEW p \in 1 .. InLine'
          PROVE  At(p)' = IF p < k + 1 THEN At(p) ELSE At(p + 1)
      <4>1. CASE p = 1
        BY <1>1, <2>2, <4>1 DEF At
      <4>2. CASE p # 1
        <5>1. p - 1 \in 1 .. (Len(queue) - 1) /\ (p - 1) + 1 = p /\ (p + 1) - 1 = p /\ p + 1 # 1
          BY <1>4, <3>1, <4>2
        <5>2. queue'[p - 1] = IF p - 1 < k THEN queue[p - 1] ELSE queue[p]
          BY <1>2, <5>1
        <5>. QED
          BY <1>1, <2>2, <4>2, <5>1, <5>2 DEF At
      <4>. QED
        BY <4>1, <4>2
    <3>. QED
      BY <3>1, <3>2
  <2>. QED
    BY <2>1, <2>2
<1>. DEFINE from == [p \in 1 .. InLine' |-> IF p < gap THEN p ELSE p + 1]
<1>6. from \in [1 .. InLine' -> 1 .. InLine]
  BY <1>4
<1>7. \A p, r \in 1 .. InLine' : from[p] = from[r] => p = r
  BY <1>4
<1>8. \A p \in 1 .. InLine' : At(p)' = At(from[p]) /\ (from[p] > p \/ from[p] = p)
  BY <1>4, <1>5
<1>. HIDE DEF from
<1>. QED
  BY <1>1, <1>3, <1>6, <1>7, <1>8, LineMovesUp DEF KeyInv

\* Time passes while the first caller fetches, and the others wait as long as it
\* does; with the mutex free, it passes only when nobody is in line.
LEMMA TickKeepsLine ==
  ASSUME KeyInv, LineInv, KeyTick
  PROVE  LineInv'
<1>1. /\ queue' = queue /\ fetching' = fetching /\ LineTypeOK
      /\ IF fetching = <<>> THEN queue = <<>> ELSE ~TimesOut
      /\ fetchAge' = IF fetching = <<>> THEN 0 ELSE Older(fetchAge, FetchTimeout)
      /\ waited' = [c \in KeyCallers |->
             IF c \in Present THEN Older(waited[c], WaitBound) ELSE waited[c]]
  BY DEF LineInv, KeyTick
<1>2. ASSUME NEW c \in KeyCallers
      PROVE  waited'[c] \in Nat /\ waited'[c] <= waited[c] + 1 /\ waited[c] \in Nat
  BY <1>1 DEF LineTypeOK, Older
<1>3. waited' \in [KeyCallers -> Nat]
  BY <1>1, <1>2
<1>4. LineTypeOK'
  BY <1>1, <1>3 DEF LineTypeOK
<1>5. InLine' = InLine /\ \A p : At(p)' = At(p) /\ Allowance(p)' = Allowance(p)
  BY <1>1 DEF InLine, At, Allowance
<1>6. CASE fetching = <<>>
  <2>1. InLine = 0
    BY <1>1, <1>6 DEF InLine
  <2>. QED
    BY <1>4, <1>5, <2>1 DEF LineInv
<1>7. CASE fetching # <<>>
  <2>1. fetchAge' = fetchAge + 1 /\ fetchAge \in Nat
    BY <1>1, <1>7, JwksAssumption DEF KeyInv, FetchInv, TimesOut, Older, NoSet
  <2>2. ASSUME NEW p \in 1 .. InLine PROVE waited'[At(p)] <= Allowance(p) + fetchAge'
    <3>1. At(p) \in KeyCallers
      BY <1>1, LineParts
    <3>2. waited[At(p)] <= Allowance(p) + fetchAge
      BY DEF LineInv
    <3>3. Allowance(p) \in Int
      BY AllowanceGrows
    <3>. QED
      BY <1>2, <2>1, <3>1, <3>2, <3>3
  <2>. QED
    BY <1>4, <1>5, <2>2 DEF LineInv
<1>. QED
  BY <1>6, <1>7

\* Every step.
LEMMA LineStep == KeyInv /\ LineInv /\ [JwksNext]_jwksVars => LineInv'
<1>. SUFFICES ASSUME KeyInv, LineInv, [JwksNext]_jwksVars PROVE LineInv'
  OBVIOUS
<1>1. FetchInv'
  BY KeyStep DEF KeyInv
<1>2. ASSUME UNCHANGED <<queue, fetching, fetchAge, waited>> PROVE LineInv'
  BY <1>2 DEF LineInv, LineTypeOK, InLine, At, Allowance
<1>3. ASSUME NEW c \in KeyCallers, Come(c) PROVE LineInv'
  BY <1>3, ComeKeepsLine
<1>4. CASE FetchFails
  BY <1>1, <1>4, HolderLeaves DEF FetchFails, DropGuard
<1>5. ASSUME NEW c \in KeyCallers, Dropped(c) PROVE LineInv'
  BY <1>4, <1>5, QueuedLeaves DEF Dropped
<1>6. CASE Lock
  BY <1>6, LockKeepsLine
<1>7. CASE ProviderServes
  BY <1>2, <1>7 DEF ProviderServes
<1>8. CASE FetchArrives
  <2>1. fetching # <<>>
    BY <1>8 DEF FetchArrives, KeyInv, FetchInv
  <2>. QED
    BY <1>1, <1>8, <2>1, HolderLeaves DEF FetchArrives, DropGuard
<1>9. CASE KeyTick
  BY <1>9, TickKeepsLine
<1>10. CASE UNCHANGED jwksVars
  BY <1>2, <1>10 DEF jwksVars
<1>. QED
  BY <1>3, <1>4, <1>5, <1>6, <1>7, <1>8, <1>9, <1>10 DEF JwksNext

\* Whoever stands in line holds a place of it.
LEMMA PresentHavePlaces ==
  ASSUME LineTypeOK, NEW c \in Present
  PROVE  \E p \in 1 .. InLine : At(p) = c
<1>1. CASE fetching = <<>>
  <2>1. c \in ToSet(queue)
    BY <1>1 DEF Present, ToSet
  <2>. QED
    BY <1>1, <2>1, LineParts DEF ToSet, InLine, At
<1>2. ASSUME NEW h \in KeyCallers, fetching = <<h>>
      PROVE  \E p \in 1 .. InLine : At(p) = c
  <2>1. InLine = Len(queue) + 1 /\ Len(queue) \in Nat /\ fetching # <<>> /\ fetching[1] = h
    BY <1>2, LineParts DEF InLine
  <2>2. CASE c = h
    <3>1. 1 \in 1 .. InLine /\ At(1) = h
      BY <2>1 DEF At
    <3>. QED
      BY <2>2, <3>1
  <2>3. CASE c # h
    <3>1. c \in ToSet(queue)
      BY <1>2, <2>3 DEF Present, ToSet
    <3>2. PICK i \in 1 .. Len(queue) : queue[i] = c
      BY <3>1, LineParts DEF ToSet
    <3>3. i + 1 \in 1 .. InLine /\ i + 1 # 1 /\ (i + 1) - 1 = i
      BY <2>1
    <3>4. At(i + 1) = c
      BY <2>1, <3>2, <3>3 DEF At
    <3>. QED
      BY <3>3, <3>4
  <2>. QED
    BY <2>2, <2>3
<1>. QED
  BY <1>1, <1>2 DEF LineTypeOK

\* However many callers there are, and whatever becomes of the provider and of
\* those ahead, nobody stands in line for longer than a time-out for every
\* caller (auth.rs:62-63, 206-219).
THEOREM WaitsAreBounded == JwksSpec => []WaitIsBounded
<1>1. KeyInv /\ LineInv => WaitIsBounded
  <2>. SUFFICES ASSUME KeyInv, LineInv, NEW c \in Present PROVE waited[c] <= WaitBound
    BY DEF WaitIsBounded
  <2>1. PICK p \in 1 .. InLine : At(p) = c
    BY PresentHavePlaces DEF LineInv
  <2>2. waited[c] <= Allowance(p) + fetchAge
    BY <2>1 DEF LineInv
  <2>3. waited[c] \in Nat
    BY <2>1, LineParts DEF LineInv, LineTypeOK
  <2>4. fetchAge \in 0 .. FetchTimeout /\ FetchTimeout \in Nat
    BY JwksAssumption DEF KeyInv, FetchInv
  <2>5. /\ p \in Int /\ Allowance(p) \in Int /\ Allowance(1) \in Int
        /\ Allowance(1) + FetchTimeout = WaitBound
    BY AllowanceGrows
  <2>6. Allowance(p) <= Allowance(1)
    <3>1. CASE p = 1
      BY <2>5, <3>1
    <3>2. CASE p # 1
      <4>1. 1 < p
        BY <3>2
      <4>2. Allowance(p) + FetchTimeout <= Allowance(1)
        BY <4>1, AllowanceGrows
      <4>. QED
        BY <2>4, <2>5, <4>2
    <3>. QED
      BY <3>1, <3>2
  <2>. QED
    BY <2>2, <2>3, <2>4, <2>5, <2>6
<1>. QED
  BY <1>1, KeyInitially, KeyStep, LineInitially, LineStep, PTL DEF JwksSpec

-----------------------------------------------------------------------------
(* The dispatcher.  The answers given are, at any moment, those owed to    *)
(* the items before the one whose turn it is, in their order.              *)

Response == [to : Nat, kind : {"error", "result", "isError"}, from : Nat]

McpTypeOK ==
    /\ body \in Seq(Items)
    /\ responses \in Seq(Response)
    /\ turn \in Nat \ {0}
    /\ handling \in {"auth", "limit", "dispatch", "tool", "sent", "closed"}

\* The items before n are answered, each once and under its own id, if owed.
AnsweredBefore(n) ==
    /\ \A k \in 1 .. Len(responses) :
           /\ responses[k].from \in 1 .. (n - 1)
           /\ Owed(body[responses[k].from])
           /\ responses[k].to = Id(responses[k].from)
    /\ \A k, l \in 1 .. Len(responses) : k < l => responses[k].from < responses[l].from
    /\ \A i \in 1 .. (n - 1) :
           Owed(body[i]) => \E k \in 1 .. Len(responses) : responses[k].from = i

RanBefore(n) == \A i \in ran : i \in 1 .. (n - 1) /\ body[i].envelope = "ok"

DispatchInv ==
    /\ turn <= Len(body) + 1
    /\ AnsweredBefore(turn)
    /\ RanBefore(turn)

SentInv ==
    IF reply.status \in {401, 429} THEN ran = {} /\ Len(responses) <= 1
    ELSE /\ turn = Len(body) + 1 /\ DispatchInv
         /\ reply.status = 204 <=> Len(responses) = 0
         /\ reply.array <=> Len(responses) > 1

McpInv ==
    /\ McpTypeOK
    /\ handling \in {"auth", "limit"} => turn = 1 /\ responses = <<>> /\ ran = {}
    /\ handling \in {"dispatch", "tool"} => DispatchInv
    /\ handling = "tool" => turn <= Len(body) /\ body[turn].envelope = "ok"
                              /\ body[turn].method = "tool"
    /\ handling = "sent" => SentInv

\* A request that has begun has been answered nothing yet.
LEMMA BeginsUnanswered ==
  ASSUME McpTypeOK, turn = 1, responses = <<>>, ran = {}
  PROVE  DispatchInv
<1>1. Len(responses) = 0 /\ Len(body) \in Nat
  BY DEF McpTypeOK
<1>. QED
  BY <1>1 DEF DispatchInv, AnsweredBefore, RanBefore

\* The fields of an item.
LEMMA ItemParts ==
  ASSUME McpTypeOK, NEW i \in 1 .. Len(body)
  PROVE  /\ body[i].envelope \in {"ok", "unreadable", "version"}
         /\ body[i].id \in BOOLEAN
         /\ body[i].method \in {"plain", "notice", "tool", "unknown", "no_params"}
<1>1. body[i] \in Items
  BY DEF McpTypeOK
<1>. QED
  BY <1>1, ItemsAssumption

\* The item whose turn it is gets its answer if one is owed to it, under its own
\* id, and none otherwise; the turn is the next one's (http.rs:375-384).
LEMMA AnswerIsOwed ==
  ASSUME McpTypeOK, DispatchInv, turn <= Len(body), body' = body,
         NEW kind \in {"error", "result", "isError", "none"}, NEW id \in BOOLEAN,
         kind = "none" <=> ~Owed(body[turn]),
         kind # "none" => (IF id THEN turn ELSE 0) = Id(turn),
         ran' = ran \/ (ran' = ran \cup {turn} /\ body[turn].envelope = "ok"),
         Answer(kind, id)
  PROVE  McpTypeOK' /\ DispatchInv' /\ handling' = "dispatch"
<1>1. /\ turn \in Nat \ {0} /\ Len(body) \in Nat /\ turn' = turn + 1 /\ handling' = "dispatch"
      /\ responses \in Seq(Response) /\ Len(responses) \in Nat
      /\ turn' \in Nat \ {0} /\ turn' <= Len(body) + 1
  BY DEF McpTypeOK, Answer
<1>2. (\A i : Owed(body[i])' <=> Owed(body[i])) /\ (\A i : Id(i)' = Id(i))
  BY DEF Owed, Id
<1>3. RanBefore(turn)'
  <2>1. ASSUME NEW i \in ran' PROVE i \in 1 .. turn /\ body[i].envelope = "ok"
    BY <1>1, <2>1 DEF DispatchInv, RanBefore
  <2>. QED
    BY <1>1, <2>1 DEF RanBefore
<1>4. CASE kind = "none"
  <2>1. responses' = responses
    BY <1>4 DEF Answer
  <2>2. ~Owed(body[turn])
    BY <1>4
  <2>3. \A i \in 1 .. turn : i \in 1 .. (turn - 1) \/ i = turn
    BY <1>1
  <2>4. AnsweredBefore(turn)'
    <3>1. \A k \in 1 .. Len(responses) : responses[k].from \in 1 .. turn
      BY <1>1 DEF DispatchInv, AnsweredBefore
    <3>2. \A i \in 1 .. turn : Owed(body[i]) => \E k \in 1 .. Len(responses) : responses[k].from = i
      BY <2>2, <2>3 DEF DispatchInv, AnsweredBefore
    <3>3. turn' - 1 = turn
      BY <1>1
    <3>. QED
      BY <1>2, <2>1, <3>1, <3>2, <3>3 DEF DispatchInv, AnsweredBefore
  <2>. QED
    BY <1>1, <1>3, <2>1, <2>4 DEF DispatchInv, McpTypeOK
<1>5. CASE kind # "none"
  <2>. DEFINE r == [to |-> IF id THEN turn ELSE 0, kind |-> kind, from |-> turn]
              n == Len(responses) + 1
  <2>1. responses' = Append(responses, r)
    BY <1>5 DEF Answer
  <2>2. r \in Response /\ r.from = turn /\ r.to = Id(turn)
    BY <1>1, <1>5 DEF Response
  <2>. HIDE DEF r
  <2>3. Owed(body[turn])
    BY <1>5
  <2>4. /\ responses' \in Seq(Response) /\ Len(responses') = n
        /\ \A k \in 1 .. Len(responses) : responses'[k] = responses[k]
        /\ responses'[n] = r
    BY <1>1, <2>1, <2>2
  <2>5. /\ \A k \in 1 .. n : k \in 1 .. Len(responses) \/ k = n
        /\ \A i \in 1 .. turn : i \in 1 .. (turn - 1) \/ i = turn
    BY <1>1
  <2>6. ASSUME NEW k \in 1 .. n
        PROVE  /\ responses'[k].from \in 1 .. turn
               /\ Owed(body[responses'[k].from])
               /\ responses'[k].to = Id(responses'[k].from)
    <3>1. CASE k \in 1 .. Len(responses)
      <4>1. responses[k].from \in 1 .. (turn - 1)
        BY <3>1 DEF DispatchInv, AnsweredBefore
      <4>2. responses[k].from \in 1 .. turn
        BY <1>1, <4>1
      <4>. QED
        BY <2>4, <3>1, <4>2 DEF DispatchInv, AnsweredBefore
    <3>2. CASE k = n
      BY <1>1, <2>2, <2>3, <2>4, <3>2
    <3>. QED
      BY <2>5, <3>1, <3>2
  <2>7. ASSUME NEW k \in 1 .. n, NEW l \in 1 .. n, k < l
        PROVE  responses'[k].from < responses'[l].from
    <3>1. k \in 1 .. Len(responses)
      BY <1>1, <2>7
    <3>2. CASE l \in 1 .. Len(responses)
      BY <2>4, <2>7, <3>1, <3>2 DEF DispatchInv, AnsweredBefore
    <3>3. CASE l = n
      <4>1. responses[k].from \in 1 .. (turn - 1)
        BY <3>1 DEF DispatchInv, AnsweredBefore
      <4>. QED
        BY <1>1, <2>2, <2>4, <3>1, <3>3, <4>1
    <3>. QED
      BY <2>5, <3>2, <3>3
  <2>8. ASSUME NEW i \in 1 .. turn, Owed(body[i])
        PROVE  \E k \in 1 .. n : responses'[k].from = i
    <3>1. CASE i \in 1 .. (turn - 1)
      <4>1. PICK k \in 1 .. Len(responses) : responses[k].from = i
        BY <2>8, <3>1 DEF DispatchInv, AnsweredBefore
      <4>2. k \in 1 .. n
        BY <1>1
      <4>. QED
        BY <2>4, <4>1, <4>2
    <3>2. CASE i = turn
      <4>1. n \in 1 .. n
        BY <1>1
      <4>. QED
        BY <2>2, <2>4, <3>2, <4>1
    <3>. QED
      BY <2>5, <3>1, <3>2
  <2>9. turn' - 1 = turn
    BY <1>1
  <2>10. AnsweredBefore(turn)'
    BY <1>2, <2>4, <2>6, <2>7, <2>8, <2>9 DEF AnsweredBefore
  <2>. QED
    BY <1>1, <1>3, <2>4, <2>10 DEF DispatchInv, McpTypeOK
<1>. QED
  BY <1>4, <1>5

\* The same for an item whose envelope was read: a result for one with an id.
LEMMA ResultIsOwed ==
  ASSUME McpTypeOK, DispatchInv, turn <= Len(body), body' = body,
         NEW kind \in {"error", "result", "isError"},
         body[turn].envelope = "ok", body[turn].method # "notice",
         ran' = ran \/ ran' = ran \cup {turn},
         AnswerResult(body[turn], kind)
  PROVE  McpTypeOK' /\ DispatchInv' /\ handling' = "dispatch"
<1>1. turn \in 1 .. Len(body) /\ body[turn].id \in BOOLEAN
  BY ItemParts DEF McpTypeOK
<1>2. CASE body[turn].id
  <2>1. Answer(kind, TRUE)
    BY <1>1, <1>2 DEF AnswerResult, Answer
  <2>2. Owed(body[turn]) /\ Id(turn) = turn
    BY <1>2 DEF Owed, Id
  <2>. QED
    BY <2>1, <2>2, AnswerIsOwed
<1>3. CASE ~body[turn].id
  <2>1. Answer("none", FALSE)
    BY <1>1, <1>3 DEF AnswerResult, Answer
  <2>2. ~Owed(body[turn])
    BY <1>3 DEF Owed
  <2>. QED
    BY <2>1, <2>2, AnswerIsOwed
<1>. QED
  BY <1>2, <1>3

\* dispatch_one answers the item, or awaits its tool (http.rs:325-384).
LEMMA DispatchKeeps ==
  ASSUME McpInv, DispatchOne
  PROVE  McpInv'
<1>1. /\ handling = "dispatch" /\ turn <= Len(body) /\ body' = body /\ ran' = ran
      /\ McpTypeOK /\ DispatchInv /\ turn \in 1 .. Len(body)
  BY DEF McpInv, DispatchOne, McpTypeOK
<1>2. ASSUME McpTypeOK', DispatchInv', handling' = "dispatch" PROVE McpInv'
  BY <1>2 DEF McpInv
<1>3. /\ body[turn].envelope \in {"ok", "unreadable", "version"}
      /\ body[turn].id \in BOOLEAN
  BY <1>1, ItemParts
<1>4. CASE body[turn].envelope = "unreadable"
  <2>1. Answer("error", FALSE)
    BY <1>4 DEF DispatchOne
  <2>2. Owed(body[turn]) /\ Id(turn) = 0
    BY <1>4 DEF Owed, Id
  <2>. QED
    BY <1>1, <1>2, <2>1, <2>2, AnswerIsOwed
<1>5. CASE body[turn].envelope = "version"
  <2>1. Answer("error", body[turn].id)
    BY <1>5 DEF DispatchOne
  <2>2. Owed(body[turn]) /\ (IF body[turn].id THEN turn ELSE 0) = Id(turn)
    BY <1>5 DEF Owed, Id
  <2>. QED
    BY <1>1, <1>2, <1>3, <2>1, <2>2, AnswerIsOwed
<1>6. CASE body[turn].envelope = "ok"
  <2>1. CASE body[turn].method = "notice" /\ Answer("none", FALSE)
    <3>1. ~Owed(body[turn])
      BY <1>6, <2>1 DEF Owed
    <3>. QED
      BY <1>1, <1>2, <2>1, <3>1, AnswerIsOwed
  <2>2. CASE body[turn].method = "plain" /\ AnswerResult(body[turn], "result")
    BY <1>1, <1>2, <1>6, <2>2, ResultIsOwed
  <2>3. CASE body[turn].method \in {"unknown", "no_params"} /\ AnswerResult(body[turn], "error")
    BY <1>1, <1>2, <1>6, <2>3, ResultIsOwed
  <2>4. CASE /\ body[turn].method = "tool" /\ handling' = "tool"
             /\ UNCHANGED <<responses, turn>>
    BY <1>1, <1>6, <2>4
    DEF McpInv, McpTypeOK, DispatchInv, AnsweredBefore, RanBefore, Owed, Id
  <2>. QED
    BY <1>1, <1>6, <2>1, <2>2, <2>3, <2>4 DEF DispatchOne
<1>. QED
  BY <1>3, <1>4, <1>5, <1>6

\* Whatever a batch is made of, and whatever its tools return, each item that is
\* owed an answer gets one, in order and under its id (http.rs:236-314,
\* 333-383).
THEOREM RepliesFit == McpSpec => []RepliesMatchItems
<1>1. McpInit => McpInv
  BY DEF McpInit, McpInv, McpTypeOK
<1>2. McpInv /\ [McpNext]_mcpVars => McpInv'
  <2>. SUFFICES ASSUME McpInv, [McpNext]_mcpVars PROVE McpInv'
    OBVIOUS
  <2>1. CASE Accept
    <3>1. body' \in Seq(Items)
      <4>1. PICK n \in Nat : body' \in [1 .. n -> Items]
        <5>1. CASE batch'
          BY <2>1, <5>1, ItemsAssumption DEF Accept
        <5>2. CASE ~batch'
          BY <2>1, <5>2 DEF Accept
        <5>. QED
          BY <5>1, <5>2
      <4>. QED
        BY <4>1
    <3>. QED
      BY <2>1, <3>1 DEF Accept, McpInv, McpTypeOK
  <2>2. ASSUME NEW c \in Credentials, Authenticate(c) PROVE McpInv'
    <3>1. /\ handling = "auth" /\ turn = 1 /\ responses = <<>> /\ ran = {} /\ McpTypeOK
          /\ body' = body /\ turn' = turn /\ responses' = responses /\ ran' = ran
      BY <2>2 DEF Authenticate, McpInv
    <3>2. \/ handling' = "sent" /\ reply' = [status |-> 401, array |-> FALSE]
          \/ handling' \in {"limit", "dispatch"}
      BY <2>2 DEF Authenticate, Send
    <3>3. McpTypeOK'
      BY <3>1, <3>2 DEF McpTypeOK
    <3>4. DispatchInv'
      <4>1. DispatchInv
        BY <3>1, BeginsUnanswered
      <4>. QED
        BY <3>1, <4>1 DEF DispatchInv, AnsweredBefore, RanBefore, Owed, Id
    <3>. QED
      BY <3>1, <3>2, <3>3, <3>4 DEF McpInv, SentInv
  <2>3. CASE TakeToken
    <3>1. /\ handling = "limit" /\ turn = 1 /\ responses = <<>> /\ ran = {} /\ McpTypeOK
          /\ body' = body /\ turn' = turn /\ ran' = ran
      BY <2>3 DEF TakeToken, McpInv
    <3>2. CASE handling' = "dispatch" /\ UNCHANGED <<reply, responses>>
      <4>1. DispatchInv
        BY <3>1, BeginsUnanswered
      <4>. QED
        BY <3>1, <3>2, <4>1
        DEF McpInv, McpTypeOK, DispatchInv, AnsweredBefore, RanBefore, Owed, Id
    <3>3. CASE Send(429, FALSE) /\ responses' = <<[to |-> 0, kind |-> "error", from |-> 0]>>
      <4>1. [to |-> 0, kind |-> "error", from |-> 0] \in Response
        BY DEF Response
      <4>2. responses' \in Seq(Response) /\ Len(responses') = 1
        BY <3>3, <4>1
      <4>3. handling' = "sent" /\ reply'.status = 429
        BY <3>3 DEF Send
      <4>. QED
        BY <3>1, <4>2, <4>3 DEF McpInv, McpTypeOK, SentInv
    <3>. QED
      BY <2>3, <3>2, <3>3 DEF TakeToken
  <2>4. CASE DispatchOne
    BY <2>4, DispatchKeeps
  <2>5. CASE ToolEnds
    <3>1. PICK kind \in {"error", "result", "isError"} :
              AnswerResult(body[turn], kind) /\ (ran' = ran \/ ran' = ran \cup {turn})
      BY <2>5 DEF ToolEnds
    <3>2. /\ McpTypeOK /\ DispatchInv /\ turn <= Len(body) /\ body' = body
          /\ body[turn].envelope = "ok" /\ body[turn].method # "notice"
      BY <2>5 DEF ToolEnds, McpInv
    <3>3. McpTypeOK' /\ DispatchInv' /\ handling' = "dispatch"
      BY <3>1, <3>2, ResultIsOwed
    <3>. QED
      BY <3>3 DEF McpInv
  <2>6. CASE Respond
    <3>1. /\ McpTypeOK /\ DispatchInv /\ turn > Len(body)
          /\ body' = body /\ turn' = turn /\ responses' = responses /\ ran' = ran
          /\ handling' = "sent"
      BY <2>6 DEF Respond, McpInv, Send
    <3>2. Len(responses) \in Nat /\ (responses = <<>> <=> Len(responses) = 0)
            /\ turn = Len(body) + 1
      BY <3>1 DEF McpTypeOK, DispatchInv
    <3>3. /\ reply'.status \in {200, 204}
          /\ reply'.status = 204 <=> responses = <<>>
          /\ reply'.array <=> responses # <<>> /\ Len(responses) > 1
      <4>1. CASE responses = <<>>
        <5>1. reply' = [status |-> 204, array |-> FALSE]
          BY <2>6, <4>1 DEF Respond, Send
        <5>. QED
          BY <4>1, <5>1
      <4>2. CASE responses # <<>>
        <5>1. reply' = [status |-> 200, array |-> Len(responses) > 1]
          BY <2>6, <4>2 DEF Respond, Send
        <5>2. reply'.status = 200
          BY <5>1
        <5>3. reply'.array <=> Len(responses) > 1
          <6>1. CASE Len(responses) > 1
            BY <5>1, <6>1
          <6>2. CASE ~(Len(responses) > 1)
            BY <5>1, <6>2
          <6>. QED
            BY <6>1, <6>2
        <5>. QED
          BY <4>2, <5>2, <5>3
      <4>. QED
        BY <4>1, <4>2
    <3>4. McpTypeOK' /\ DispatchInv'
      BY <3>1 DEF McpTypeOK, DispatchInv, AnsweredBefore, RanBefore, Owed, Id
    <3>5. SentInv'
      BY <3>1, <3>2, <3>3, <3>4 DEF SentInv
    <3>. QED
      BY <3>1, <3>4, <3>5 DEF McpInv
  <2>7. CASE HangUp
    BY <2>7 DEF HangUp, McpInv, McpTypeOK
  <2>8. CASE UNCHANGED mcpVars
    BY <2>8 DEF mcpVars, McpInv, McpTypeOK, SentInv, DispatchInv, AnsweredBefore, RanBefore,
                Owed, Id
  <2>. QED
    BY <2>1, <2>2, <2>3, <2>4, <2>5, <2>6, <2>7, <2>8 DEF McpNext
<1>3. McpInv => RepliesMatchItems
  <2>. SUFFICES ASSUME McpInv, handling = "sent", reply.status \notin {401, 429}
                PROVE  /\ {responses[k].from : k \in 1 .. Len(responses)} = OwedItems
                       /\ \A k, l \in 1 .. Len(responses) :
                              k < l => responses[k].from < responses[l].from
                       /\ \A k \in 1 .. Len(responses) : responses[k].to = Id(responses[k].from)
                       /\ reply.status = 204 <=> OwedItems = {}
                       /\ reply.array <=> \E i, j \in OwedItems : i # j
                       /\ \A i \in ran \cap OwedItems :
                              \E k \in 1 .. Len(responses) : responses[k].to = i
    BY DEF McpInv, SentInv, RepliesMatchItems
  <2>1. /\ McpTypeOK /\ DispatchInv /\ turn = Len(body) + 1 /\ Len(body) \in Nat
        /\ Len(responses) \in Nat
        /\ reply.status = 204 <=> Len(responses) = 0
        /\ reply.array <=> Len(responses) > 1
    BY DEF McpInv, SentInv, McpTypeOK
  <2>2. turn - 1 = Len(body)
    BY <2>1
  <2>3. /\ \A k \in 1 .. Len(responses) :
               responses[k].from \in OwedItems /\ responses[k].to = Id(responses[k].from)
        /\ \A k, l \in 1 .. Len(responses) : k < l => responses[k].from < responses[l].from
        /\ \A i \in OwedItems : \E k \in 1 .. Len(responses) : responses[k].from = i
    BY <2>1, <2>2 DEF DispatchInv, AnsweredBefore, OwedItems
  <2>4. {responses[k].from : k \in 1 .. Len(responses)} = OwedItems
    BY <2>3
  <2>5. OwedItems = {} <=> Len(responses) = 0
    <3>1. ASSUME Len(responses) # 0 PROVE OwedItems # {}
      <4>1. 1 \in 1 .. Len(responses)
        BY <2>1, <3>1
      <4>. QED
        BY <2>3, <4>1
    <3>2. ASSUME Len(responses) = 0 PROVE OwedItems = {}
      <4>1. 1 .. Len(responses) = {}
        BY <3>2
      <4>. QED
        BY <2>3, <4>1
    <3>. QED
      BY <3>1, <3>2
  <2>6. (\E i, j \in OwedItems : i # j) <=> Len(responses) > 1
    <3>1. ASSUME Len(responses) > 1 PROVE \E i, j \in OwedItems : i # j
      <4>1. 1 \in 1 .. Len(responses) /\ 2 \in 1 .. Len(responses)
        BY <2>1, <3>1
      <4>2. responses[1].from < responses[2].from
        BY <2>3, <4>1
      <4>3. responses[1].from \in OwedItems /\ responses[2].from \in OwedItems
        BY <2>3, <4>1
      <4>4. responses[1].from # responses[2].from
        BY <4>2, <4>3 DEF OwedItems
      <4>. QED
        BY <4>3, <4>4
    <3>2. ASSUME NEW i \in OwedItems, NEW j \in OwedItems, i # j PROVE Len(responses) > 1
      <4>1. PICK k \in 1 .. Len(responses) : responses[k].from = i
        BY <2>3
      <4>2. PICK l \in 1 .. Len(responses) : responses[l].from = j
        BY <2>3
      <4>3. k # l
        BY <3>2, <4>1, <4>2
      <4>. QED
        BY <2>1, <4>3
    <3>. QED
      BY <3>1, <3>2
  <2>7. ASSUME NEW i \in ran \cap OwedItems
        PROVE  \E k \in 1 .. Len(responses) : responses[k].to = i
    <3>1. PICK k \in 1 .. Len(responses) : responses[k].from = i
      BY <2>3
    <3>2. body[i].envelope = "ok"
      BY <2>1 DEF DispatchInv, RanBefore
    <3>3. Id(i) = i
      BY <3>2 DEF OwedItems, Owed, Id
    <3>. QED
      BY <2>3, <3>1, <3>3
  <2>8. reply.array <=> \E i, j \in OwedItems : i # j
    BY <2>1, <2>6, Zenon
  <2>9. reply.status = 204 <=> OwedItems = {}
    BY <2>1, <2>5, Zenon
  <2>. QED
    BY <2>3, <2>4, <2>7, <2>8, <2>9, Zenon
<1>. QED
  BY <1>1, <1>2, <1>3, PTL DEF McpSpec
=============================================================================
