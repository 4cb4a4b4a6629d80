--------------------------- MODULE ObserverTicker ---------------------------
(***************************************************************************)
(* The AI observer ticker (demo/ai_observer_ticker.js): it fetches a pool  *)
(* of observations, retrying until there are some, and then types one at   *)
(* every release.  The pool is fetched anew from time to time and by hand, *)
(* and may come back empty; a release may also be asked for by hand.       *)
(***************************************************************************)
EXTENDS Integers

CONSTANTS
    TimerIds,        \* what setTimeout and setInterval return
    NoTimer,         \* a handle before any timer
    MaxPool,         \* bound: observations of an answer
    TextLength,      \* bound: characters of an observation
    MaxHistory,      \* 20 in the code
    MaxRefreshes,    \* bound: refreshes of the pool under way
    MaxSweeps        \* bound: removals of a cursor that are due

ASSUME TickerAssumption == NoTimer \notin TimerIds

VARIABLES
    phase,            \* of boot: it awaits the pool, waits to retry, or is over
    pool,             \* how many observations the pool holds
    releases,         \* the release timers that run
    releaseTimer,     \* the handle of the last one, also after it has fired
    typewriters,      \* for each typewriter interval that runs, the characters
                      \* of its text that it has typed
    typewriterTimer,  \* the handle of the last one, NoTimer after its text
    caret,            \* the interval whose cursor is in the element, or NoTimer
    sweeps,           \* pending removals of a cursor, 1.5 s after a text ended
    history,          \* observations shown
    refreshes,        \* calls of refreshPool beside boot's
    timeline          \* entries of the timeline dialog, -1 when there is none

tickerVars == <<phase, pool, releases, releaseTimer, typewriters, typewriterTimer,
                caret, sweeps, history, refreshes, timeline>>
releasePart == <<releases, releaseTimer>>
textPart == <<typewriters, typewriterTimer, caret>>

TickerInit ==
    /\ phase = "fetching"
    /\ pool = 0
    /\ releases = {} /\ releaseTimer = NoTimer
    /\ typewriters = [w \in {} |-> 0] /\ typewriterTimer = NoTimer
    /\ caret = NoTimer /\ sweeps = 0
    /\ history = 0 /\ refreshes = 0 /\ timeline = -1

AtMost(n, bound) == IF n < bound THEN n ELSE bound

-----------------------------------------------------------------------------
\* Mutant: the handle is overwritten while its timer runs on.
Forgotten(running, handle) == running

\* clearTimeout, clearInterval: a handle whose timer is over clears nothing.
Cleared(running, handle) == running \ {handle}

\* typewriteInto: the interval of the text before is cleared, the element
\* emptied, and a cursor of its own appended.
TypewriteInto ==
    \E w \in TimerIds \ (DOMAIN typewriters \cup {typewriterTimer}) :
        /\ typewriters' = [x \in Cleared(DOMAIN typewriters, typewriterTimer) \cup {w} |->
                               IF x = w THEN 0 ELSE typewriters[x]]
        /\ typewriterTimer' = w
        /\ caret' = w

\* scheduleNextRelease: the timer that is remembered is cleared first.
ScheduleNextRelease(running) ==
    \E t \in TimerIds \ (running \cup {releaseTimer}) :
        /\ releases' = Cleared(running, releaseTimer) \cup {t}
        /\ releaseTimer' = t

\* releaseOne, with the release timers and the pool of the moment: without an
\* observation too, the next release is scheduled.
ReleaseOne(running, observations) ==
    /\ IF observations > 0
       THEN /\ history' = AtMost(history + 1, MaxHistory)
            /\ TypewriteInto
       ELSE UNCHANGED <<history, textPart>>
    /\ ScheduleNextRelease(running)

\* boot's pool: with none, or after a failure, boot is tried again later.
BootAnswered(n) ==
    /\ phase = "fetching"
    /\ pool' = n
    /\ phase' = IF n = 0 THEN "waiting" ELSE "running"
    /\ IF n > 0
       THEN ReleaseOne(releases, n)
       ELSE UNCHANGED <<releasePart, history, textPart>>
    /\ UNCHANGED <<sweeps, refreshes, timeline>>

BootRetries ==
    /\ phase = "waiting"
    /\ phase' = "fetching"
    /\ UNCHANGED <<pool, releasePart, textPart, sweeps, history, refreshes, timeline>>

\* A release timer fires: it runs no longer, but its handle stays.
ReleaseFires(t) ==
    /\ ReleaseOne(releases \ {t}, pool)
    /\ UNCHANGED <<phase, pool, sweeps, refreshes, timeline>>

\* The function that boot exposes at its end is called.
ReleaseByHand ==
    /\ phase = "running"
    /\ ReleaseOne(releases, pool)
    /\ UNCHANGED <<phase, pool, sweeps, refreshes, timeline>>

RefreshStarts ==
    /\ phase = "running"
    /\ refreshes < MaxRefreshes
    /\ refreshes' = refreshes + 1
    /\ UNCHANGED <<phase, pool, releasePart, textPart, sweeps, history, timeline>>

\* The pool is replaced, by an empty one too; a failure leaves it.
RefreshAnswered(n) ==
    /\ refreshes > 0
    /\ refreshes' = refreshes - 1
    /\ pool' = n
    /\ UNCHANGED <<phase, releasePart, textPart, sweeps, history, timeline>>

-----------------------------------------------------------------------------
\* A tick of a typewriter.  At the end of the text it clears the interval that
\* is remembered; inserting before a cursor that is gone throws, and the interval
\* goes on.
TypewriterTick(w) ==
    /\ IF typewriters[w] = TextLength
       THEN /\ sweeps < MaxSweeps
            /\ typewriters' = [x \in Cleared(DOMAIN typewriters, typewriterTimer) |->
                                   typewriters[x]]
            /\ typewriterTimer' = NoTimer
            /\ sweeps' = sweeps + 1
       ELSE /\ typewriters' = IF caret = w
                              THEN [typewriters EXCEPT ![w] = @ + 1]
                              ELSE typewriters
            /\ UNCHANGED <<typewriterTimer, sweeps>>
    /\ UNCHANGED <<phase, pool, releasePart, caret, history, refreshes, timeline>>

\* The removal looks for any cursor in the element: also that of a later text.
Sweep ==
    /\ sweeps > 0
    /\ sweeps' = sweeps - 1
    /\ caret' = NoTimer
    /\ UNCHANGED <<phase, pool, releasePart, typewriters, typewriterTimer, history,
                   refreshes, timeline>>

\* A click on the ticker replaces the dialog; five of the history, or of the pool.
OpenTimeline ==
    /\ timeline' = AtMost(IF history > 0 THEN history ELSE pool, 5)
    /\ UNCHANGED <<phase, pool, releasePart, textPart, sweeps, history, refreshes>>

CloseTimeline ==
    /\ timeline' = -1
    /\ UNCHANGED <<phase, pool, releasePart, textPart, sweeps, history, refreshes>>

TickerNext ==
    \/ \E n \in 0 .. MaxPool : BootAnswered(n) \/ RefreshAnswered(n)
    \/ \E t \in releases : ReleaseFires(t)
    \/ BootRetries \/ ReleaseByHand \/ RefreshStarts
    \/ \E w \in DOMAIN typewriters : TypewriterTick(w)
    \/ Sweep
    \/ OpenTimeline \/ CloseTimeline

TickerSpec == TickerInit /\ [][TickerNext]_tickerVars

-----------------------------------------------------------------------------
\* Once it runs, the ticker goes on, at its own pace: a release is pending at any
\* time, and no timer or typewriter runs beside those whose handles the next
\* release clears, whatever pools come back, however often releases are asked for
\* by hand, and wherever they cut a text short (ai_observer_ticker.js:310-344,
\* 404-414).
TickerGoesOn ==
    /\ phase = "running" => releases = {releaseTimer}
    /\ DOMAIN typewriters \subseteq {typewriterTimer}
=============================================================================
