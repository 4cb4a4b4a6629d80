----------------------------- MODULE JwksCache -----------------------------
(***************************************************************************)
(* The provider's key set in the server (auth.rs, get_jwks): a cache       *)
(* behind a mutex that is held while the set is fetched.  Callers queue    *)
(* for it, first come first served; the client that fetches gives up after *)
(* a time-out, and a failed fetch stores nothing.  A caller whose          *)
(* connection closes is dropped wherever it stands, with the guard it      *)
(* holds.                                                                  *)
(*                                                                         *)
(* Time passes in ticks, and only when nobody can take the free mutex and  *)
(* no fetch is due to time out.                                            *)
(***************************************************************************)
EXTENDS Integers, Sequences, SequencesExt, FiniteSets

CONSTANTS
    KeyCallers,    \* requests with a bearer token
    JwksTtl,       \* OAUTH_JWKS_CACHE_SEC, in ticks
    FetchTimeout   \* the client's 5 s, in ticks

ASSUME JwksAssumption ==
    /\ IsFiniteSet(KeyCallers)
    /\ JwksTtl \in Nat
    /\ FetchTimeout \in Nat

NoSet == -1

VARIABLES
    queue,     \* callers that await the mutex, in order
    fetching,  \* the caller that holds it over its fetch, in a sequence
    fetchAge,  \* ticks since that fetch began
    servedAge, \* ticks since the provider served its answer, or NoSet
    cacheAge,  \* ticks since the cached set was stored, or NoSet
    cacheLag,  \* how old that set was when it was stored
    waited,    \* waited[c]: ticks since c came
    handed     \* handed[c]: the age of the set c got, or NoSet

jwksVars == <<queue, fetching, fetchAge, servedAge, cacheAge, cacheLag, waited, handed>>

JwksInit ==
    /\ queue = <<>> /\ fetching = <<>>
    /\ fetchAge = 0 /\ servedAge = NoSet
    /\ cacheAge = NoSet /\ cacheLag = 0
    /\ waited = [c \in KeyCallers |-> 0]
    /\ handed = [c \in KeyCallers |-> NoSet]

Present == ToSet(queue) \cup ToSet(fetching)

-----------------------------------------------------------------------------
Come(c) ==
    /\ c \notin Present
    /\ queue' = Append(queue, c)
    /\ waited' = [waited EXCEPT ![c] = 0]
    /\ handed' = [handed EXCEPT ![c] = NoSet]
    /\ UNCHANGED <<fetching, fetchAge, servedAge, cacheAge, cacheLag>>

\* Mutant: a set that was fetched is never fetched again.
NeverExpires == FALSE

Expired == cacheAge > JwksTtl

\* lock().await returns; the set is cloned at once, or a fetch begins.
Lock ==
    /\ fetching = <<>>
    /\ queue # <<>>
    /\ queue' = Tail(queue)
    /\ IF cacheAge = NoSet \/ Expired
       THEN /\ fetching' = <<Head(queue)>>
            /\ fetchAge' = 0
            /\ UNCHANGED handed
       ELSE /\ handed' = [handed EXCEPT ![Head(queue)] = cacheLag + cacheAge]
            /\ UNCHANGED <<fetching, fetchAge>>
    /\ UNCHANGED <<servedAge, cacheAge, cacheLag, waited>>

ProviderServes ==
    /\ fetching # <<>>
    /\ servedAge = NoSet
    /\ servedAge' = 0
    /\ UNCHANGED <<queue, fetching, fetchAge, cacheAge, cacheLag, waited, handed>>

\* The guard is dropped, and with it what the fetch had got.
DropGuard ==
    /\ fetching' = <<>>
    /\ fetchAge' = 0
    /\ servedAge' = NoSet

\* The set is stored, dated now, and cloned for the caller.
FetchArrives ==
    /\ servedAge # NoSet
    /\ cacheAge' = 0
    /\ cacheLag' = servedAge
    /\ handed' = [handed EXCEPT ![fetching[1]] = servedAge]
    /\ DropGuard
    /\ UNCHANGED <<queue, waited>>

\* Mutant: a client without a time-out.
NoTimeout == FALSE

TimesOut == fetchAge >= FetchTimeout

\* An error of the provider, of the connection or of the body, or the time-out:
\* the caller is refused.
FetchFails ==
    /\ fetching # <<>>
    /\ DropGuard
    /\ UNCHANGED <<queue, cacheAge, cacheLag, waited, handed>>

\* A caller's connection closes.
Dropped(c) ==
    \/ /\ \E i \in DOMAIN queue : queue[i] = c /\ queue' = RemoveAt(queue, i)
       /\ UNCHANGED <<fetching, fetchAge, servedAge, cacheAge, cacheLag, waited, handed>>
    \/ /\ fetching = <<c>>
       /\ FetchFails

Older(age, bound) == IF age = NoSet \/ age > bound THEN age ELSE age + 1

WaitBound == FetchTimeout * Cardinality(KeyCallers)

\* Ages are counted to just beyond the bound they are compared with.
KeyTick ==
    /\ IF fetching = <<>> THEN queue = <<>> ELSE ~TimesOut
    /\ fetchAge' = IF fetching = <<>> THEN 0 ELSE Older(fetchAge, FetchTimeout)
    /\ servedAge' = Older(servedAge, FetchTimeout)
    /\ cacheAge' = Older(cacheAge, JwksTtl)
    /\ waited' = [c \in KeyCallers |->
           IF c \in Present THEN Older(waited[c], WaitBound) ELSE waited[c]]
    /\ UNCHANGED <<queue, fetching, cacheLag, handed>>

JwksNext ==
    \/ \E c \in KeyCallers : Come(c) \/ Dropped(c)
    \/ Lock \/ ProviderServes \/ FetchArrives \/ FetchFails \/ KeyTick

JwksSpec == JwksInit /\ [][JwksNext]_jwksVars

-----------------------------------------------------------------------------
\* A key set handed to a caller is one the provider served at most the TTL and
\* one fetch ago, whoever fetched it and whatever became of other fetches: so
\* long, and no longer, is a key accepted that the provider has withdrawn
\* (auth.rs:204-221).
HandedSetIsRecent ==
    \A c \in KeyCallers : handed[c] <= JwksTtl + FetchTimeout

\* A caller waits no longer than one time-out for itself and one for every
\* other caller there can be, although the mutex is held over every fetch, the
\* provider hangs and callers disappear with the guard (auth.rs:62-63, 206-219).
WaitIsBounded == \A c \in Present : waited[c] <= WaitBound
=============================================================================
