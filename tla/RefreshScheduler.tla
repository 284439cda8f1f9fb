-------------------------- MODULE RefreshScheduler --------------------------
(* RefreshScheduler.run (scheduler.py) as the application uses it for the    *)
(* subscription: each round calls refresh_if_stale and then sleeps for the   *)
(* refresh interval, unless reschedule() or stop() set the wake event.       *)
(* PUT /settings is a plain function: requests read the settings, store      *)
(* theirs and call reschedule() on worker threads, while the loop runs on    *)
(* its own.  asyncio.Event is not made for that: its wait() looks at the     *)
(* value and registers a waiter in two moments, and its set() stores the     *)
(* value and wakes the registered waiters in two moments.                    *)
EXTENDS Integers, FiniteSets

CONSTANTS
    Threads,        \* those that serve PUT /settings
    Intervals,      \* values of refresh_interval_minutes, in ticks
    FallbackDelay,  \* the delay when the settings cannot be read: an hour
    MaxRefresh,     \* bound of a wait for the lock, of a refresh with its hook
    MaxBackoff,     \* the cap of the back-off after failures, in ticks
    FailureCap,     \* bound: consecutive_failures saturates here
    AgeCap          \* bound: the age of the cache saturates here

Delays == Intervals \cup {FallbackDelay}

ASSUME SchedulerAssumption ==
    /\ Intervals # {} /\ Delays \subseteq Nat \ {0}
    /\ MaxRefresh \in Nat
    /\ MaxBackoff \in Nat /\ FailureCap \in Nat \ {0} /\ AgeCap \in Nat
    /\ MaxBackoff <= AgeCap /\ MaxRefresh <= AgeCap

VARIABLES
    setting,    \* the stored refresh interval
    age,        \* time since the attempt that last succeeded began
    failures,   \* consecutive_failures
    busy,       \* _refreshing is set by somebody else's refresh
    wake,       \* the value of _wake
    stop,       \* the value of _stop
    waiter,     \* run() is registered as a waiter of _wake
    woken,      \* and the future it waits on has its result
    pc,         \* where run() is
    planned,    \* the interval as it read it: for the call, then for the delay
    elapsed,    \* ticks of its wait, of its refresh or of its sleep
    thread,     \* where each thread in PUT /settings is
    seen,       \* the interval the request read first, 0 after its use
    target,     \* the interval it stores, 0 after its use
    kept,       \* history: reschedule() was called during this refresh
    misled,     \* history: run() planned its sleep without the settings, or
                \* another interval was stored since and nobody told it
    raised      \* history: a refresh raised since the last that succeeded

loopVars == <<pc, planned, elapsed>>
eventVars == <<wake, stop, waiter, woken>>
cacheVars == <<age, failures, busy, raised>>
putVars == <<thread, seen, target>>
vars == <<setting, cacheVars, eventVars, loopVars, putVars, kept, misled>>

TypeOK ==
    /\ setting \in Intervals
    /\ age \in 0..AgeCap
    /\ failures \in 0..FailureCap
    /\ {busy, wake, stop, waiter, woken, kept, misled, raised} \subseteq BOOLEAN
    /\ pc \in {"top", "queued", "refreshing", "hook", "refreshed", "delay", "arming",
               "registering", "sleeping", "stopped"}
    /\ planned \in Delays
    /\ elapsed \in Nat
    /\ thread \in [Threads -> {"idle", "read", "stored", "waking"}]
    /\ seen \in [Threads -> Intervals \cup {0}]
    /\ target \in [Threads -> Intervals \cup {0}]

Init ==
    /\ setting \in Intervals
    /\ age \in 0..AgeCap
    /\ failures \in 0..FailureCap
    /\ busy = FALSE /\ raised = FALSE
    /\ wake = FALSE /\ stop = FALSE /\ waiter = FALSE /\ woken = FALSE
    /\ pc = "top" /\ planned = setting /\ elapsed = 0
    /\ thread = [t \in Threads |-> "idle"]
    /\ seen = [t \in Threads |-> 0] /\ target = seen
    /\ kept = FALSE /\ misled = FALSE

-----------------------------------------------------------------------------
\* run()

\* The cache age from which refresh_if_stale refreshes, for this interval.
StaleAfter(interval) ==
    LET doubled == interval * (2 ^ (IF failures < 4 THEN failures ELSE 4))
    IN  IF doubled < MaxBackoff THEN doubled ELSE MaxBackoff

\* Deviation: a cache exactly one interval old counts as fresh.
StaleWhenOlder(interval) ==
    IF age <= StaleAfter(interval) THEN {FALSE}
    ELSE IF failures > 0 THEN BOOLEAN ELSE {TRUE}

\* _is_stale: a fresh cache is left alone, and so is a stale one whose last
\* attempt failed within MIN_RETRY_SECONDS.
Stale(interval) ==
    IF age < StaleAfter(interval) THEN {FALSE}
    ELSE IF failures > 0 THEN BOOLEAN ELSE {TRUE}

\* The top of a round: leave if stopped; else clear the wake event, and only
\* then call refresh_if_stale.  It returns at once while somebody else
\* refreshes, or when the cache is fresh; or its first reads raise.
BeginRound ==
    /\ pc = "top"
    /\ IF stop
       THEN pc' = "stopped" /\ UNCHANGED <<wake, kept, misled, planned, raised>>
       ELSE /\ wake' = FALSE
            /\ kept' = FALSE /\ misled' = FALSE
            /\ planned' = setting
            /\ \/ \E stale \in Stale(setting) :
                    /\ pc' = IF busy \/ ~stale THEN "refreshed" ELSE "queued"
                    /\ raised' = raised
               \/ pc' = "refreshed" /\ raised' = TRUE
    /\ elapsed' = 0
    /\ UNCHANGED <<setting, age, failures, busy, stop, waiter, woken, putVars>>

\* The lock is its: the cache is looked at again.
AcquireLock ==
    /\ pc = "queued" /\ ~busy
    /\ \/ \E stale \in Stale(planned) :
            /\ pc' = IF stale THEN "refreshing" ELSE "refreshed"
            /\ raised' = raised
       \/ pc' = "refreshed" /\ raised' = TRUE
    /\ elapsed' = 0
    /\ UNCHANGED <<setting, age, failures, busy, eventVars, planned, putVars, kept, misled>>

\* The refresh succeeds, and counts from its beginning.  Its hook still runs
\* before refresh_if_stale returns, unless a read between them raises.
CommitRefresh ==
    /\ pc = "refreshing"
    /\ age' = elapsed /\ failures' = 0 /\ raised' = FALSE
    /\ pc' \in {"hook", "refreshed"}
    /\ UNCHANGED <<setting, busy, eventVars, planned, elapsed, putVars, kept, misled>>

\* Every source failed; if that brings the backup nodes in, the hook runs.
FailRefresh ==
    /\ pc = "refreshing"
    /\ failures' = IF failures < FailureCap THEN failures + 1 ELSE failures
    /\ pc' \in {"hook", "refreshed"}
    /\ UNCHANGED <<setting, age, busy, raised, eventVars, planned, elapsed, putVars, kept, misled>>

\* An error of the database escapes: it is logged, and no failure is counted.
RaiseRefresh ==
    /\ pc = "refreshing"
    /\ raised' = TRUE
    /\ pc' = "refreshed"
    /\ UNCHANGED <<setting, age, failures, busy, eventVars, planned, elapsed, putVars, kept, misled>>

\* refresh_if_stale returns.
EndRefresh ==
    /\ pc = "hook"
    /\ pc' = "refreshed"
    /\ UNCHANGED <<setting, cacheVars, eventVars, planned, elapsed, putVars, kept, misled>>

\* Deviation: the wake event is cleared after the refresh, not before it.
DecideToSleepCleared ==
    /\ pc = "refreshed"
    /\ wake' = FALSE
    /\ pc' = IF stop THEN "stopped" ELSE "delay"
    /\ UNCHANGED <<setting, cacheVars, stop, waiter, woken, planned, elapsed, putVars, kept, misled>>

\* Both events are looked at before sleeping.
DecideToSleep ==
    /\ pc = "refreshed"
    /\ pc' = IF stop THEN "stopped" ELSE IF wake THEN "top" ELSE "delay"
    /\ UNCHANGED <<setting, cacheVars, eventVars, planned, elapsed, putVars, kept, misled>>

\* The delay is the interval as it is stored now, or an hour if it cannot be read.
ComputeDelay ==
    /\ pc = "delay"
    /\ \/ planned' = setting /\ misled' = FALSE
       \/ planned' = FallbackDelay /\ misled' = TRUE
    /\ pc' = "arming"
    /\ elapsed' = 0
    /\ UNCHANGED <<setting, cacheVars, eventVars, putVars, kept>>

\* Event.wait(): the value is looked at ...
LookAtEvent ==
    /\ pc = "arming"
    /\ pc' = IF wake THEN "top" ELSE "registering"
    /\ UNCHANGED <<setting, cacheVars, eventVars, planned, elapsed, putVars, kept, misled>>

\* ... and then the waiter is registered.
RegisterWaiter ==
    /\ pc = "registering"
    /\ waiter' = TRUE
    /\ pc' = "sleeping"
    /\ UNCHANGED <<setting, cacheVars, wake, stop, woken, planned, elapsed, putVars, kept, misled>>

\* Deviation: the sleep has no timeout.
WakeUpByEvent ==
    /\ pc = "sleeping" /\ woken
    /\ waiter' = FALSE /\ woken' = FALSE
    /\ pc' = "top"
    /\ UNCHANGED <<setting, cacheVars, wake, stop, planned, elapsed, putVars, kept, misled>>

\* The sleep ends with the event or with the timeout; wait() takes its waiter
\* back either way.
WakeUp ==
    /\ pc = "sleeping"
    /\ woken \/ elapsed = planned
    /\ waiter' = FALSE /\ woken' = FALSE
    /\ pc' = "top"
    /\ UNCHANGED <<setting, cacheVars, wake, stop, planned, elapsed, putVars, kept, misled>>

-----------------------------------------------------------------------------
\* Everybody else.

\* PUT /settings with this interval: the settings are read first ...
ReadSettings(t, interval) ==
    /\ thread[t] = "idle"
    /\ thread' = [thread EXCEPT ![t] = "read"]
    /\ seen' = [seen EXCEPT ![t] = setting]
    /\ target' = [target EXCEPT ![t] = interval]
    /\ UNCHANGED <<setting, cacheVars, eventVars, loopVars, kept, misled>>

\* run() has its delay, and goes to sleep or sleeps.
Planned == pc \in {"arming", "registering", "sleeping"}

\* ... then its own are stored, and compared with those it read ...
StoreInterval(t) ==
    /\ thread[t] = "read"
    /\ setting' = target[t]
    /\ thread' = [thread EXCEPT ![t] = IF target[t] # seen[t] THEN "stored" ELSE "idle"]
    /\ misled' = (misled \/ (Planned /\ target[t] = seen[t] /\ target[t] # setting))
    /\ seen' = [seen EXCEPT ![t] = 0] /\ target' = [target EXCEPT ![t] = 0]
    /\ UNCHANGED <<cacheVars, eventVars, loopVars, kept>>

\* ... and if they differ reschedule() is called: Event.set() stores the value ...
SetEvent(t) ==
    /\ thread[t] = "stored"
    /\ thread' = [thread EXCEPT ![t] = IF wake THEN "idle" ELSE "waking"]
    /\ wake' = TRUE
    /\ kept' = (kept \/ pc \in {"queued", "refreshing", "hook"})
    /\ UNCHANGED <<setting, cacheVars, stop, waiter, woken, loopVars, seen, target, misled>>

\* ... and resolves the futures of the waiters registered by then.
WakeWaiters(t) ==
    /\ thread[t] = "waking"
    /\ woken' = (woken \/ waiter)
    /\ thread' = [thread EXCEPT ![t] = "idle"]
    /\ UNCHANGED <<setting, cacheVars, wake, stop, waiter, loopVars, seen, target, kept, misled>>

\* Where run() awaits, so that others run on the loop.
Awaiting == pc \in {"queued", "refreshing", "hook", "sleeping"}

\* stop() runs on the loop, while run() awaits.
Stop ==
    /\ Awaiting
    /\ ~stop
    /\ stop' = TRUE
    /\ wake' = TRUE
    /\ woken' = (woken \/ (waiter /\ ~wake))
    /\ UNCHANGED <<setting, cacheVars, waiter, loopVars, putVars, kept, misled>>

\* Somebody else refreshes, holding the lock: a download, the admin, the mail
\* watcher, a degraded health check.
BeginElsewhere ==
    /\ Awaiting /\ pc # "refreshing"
    /\ ~busy
    /\ busy' = TRUE
    /\ UNCHANGED <<setting, age, failures, raised, eventVars, loopVars, putVars, kept, misled>>

\* How long ago a refresh elsewhere may have begun: after the last success, and
\* after run() passed the lock on.
Begun == {a \in 0..(IF pc = "hook" THEN elapsed ELSE MaxRefresh) : a <= age}

\* It succeeds, or every source failed, or it raises.
EndElsewhere ==
    /\ Awaiting
    /\ busy /\ busy' = FALSE
    /\ \/ age' \in Begun /\ failures' = 0 /\ raised' = FALSE
       \/ /\ failures' = IF failures < FailureCap THEN failures + 1 ELSE failures
          /\ UNCHANGED <<age, raised>>
       \/ raised' = TRUE /\ UNCHANGED <<age, failures>>
    /\ UNCHANGED <<setting, eventVars, loopVars, putVars, kept, misled>>

\* New credentials bring a new cache, without _refreshing.
UpdateCredentials ==
    /\ Awaiting /\ pc # "refreshing"
    /\ ~busy
    /\ age' = 0 /\ failures' = 0 /\ raised' = FALSE
    /\ UNCHANGED <<setting, busy, eventVars, loopVars, putVars, kept, misled>>

\* Time passes while run() awaits; its deadlines are met.
Tick ==
    /\ \/ pc \in {"queued", "refreshing", "hook"} /\ elapsed < MaxRefresh
       \/ pc = "sleeping" /\ ~woken /\ elapsed < planned
    /\ elapsed' = elapsed + 1
    /\ age' = IF age < AgeCap THEN age + 1 ELSE age
    /\ UNCHANGED <<setting, failures, busy, raised, eventVars, pc, planned, putVars, kept, misled>>

-----------------------------------------------------------------------------
Run ==
    \/ BeginRound \/ AcquireLock \/ CommitRefresh \/ FailRefresh \/ RaiseRefresh
    \/ EndRefresh \/ DecideToSleep \/ ComputeDelay \/ LookAtEvent \/ RegisterWaiter
    \/ WakeUp

Serve(t) == StoreInterval(t) \/ SetEvent(t) \/ WakeWaiters(t)

Next ==
    \/ Run
    \/ \E t \in Threads : Serve(t) \/ \E n \in Intervals : ReadSettings(t, n)
    \/ Stop
    \/ BeginElsewhere \/ EndElsewhere \/ UpdateCredentials
    \/ Tick

Spec == Init /\ [][Next]_vars

\* The loop runs a ready task, the lock is handed on in the order of its queue,
\* refreshes end, time passes.  Nothing is asked of the threads.
LiveSpec ==
    Spec /\ WF_vars(Run) /\ SF_vars(AcquireLock) /\ WF_vars(EndElsewhere) /\ WF_vars(Tick)

-----------------------------------------------------------------------------
\* A set() between wait()'s look at the event and its registration of the
\* waiter wakes nobody: the event is set, and run() sleeps on.
Overslept == wake /\ ~woken

\* Requests that have yet to tell run() of what they stored.
Telling == {t \in Threads : thread[t] \in {"stored", "waking"}}

(* "If reschedule() comes during refresh, keep the signal and go straight to *)
(* the next round" (scheduler.py:18-20): once no PUT /settings is about to   *)
(* call reschedule(), run() sleeps for the interval that is stored, and not  *)
(* at all before the round that a reschedule() during the refresh asks for.  *)
(* Three cases are excepted, and real.  The thread of PUT /settings may be   *)
(* overlooked (Overslept).  A request compares what it stored with what it   *)
(* read first (admin.py:375): if another one stored a third interval in      *)
(* between, it may change the interval and not call reschedule().  And a     *)
(* delay that could not be computed is an hour (scheduler.py:34); the latter *)
(* two make run() misled.                                                    *)
RescheduleTakesEffect ==
    pc = "sleeping" /\ Telling = {} =>
        woken \/ Overslept \/ ((planned = setting \/ misled) /\ ~kept)

(* As long as no refresh failed since, run() never lets the cache reach      *)
(* twice the longest delay: a round that comes just before the cache is due  *)
(* sleeps a whole interval more.  (A hook longer than the interval is the    *)
(* other way to age.)  Two cases are excepted, and real.  A round that comes *)
(* while somebody else refreshes returns at once (subscription.py:206): the  *)
(* cache ages on until that refresh ends, well or as a failure.  And an      *)
(* error of the database escapes without counting as a failure.              *)
AgeBounded ==
    \A longest \in Delays :
        pc = "sleeping" /\ failures = 0 /\ ~busy /\ ~raised /\ (\A n \in Delays : n <= longest) =>
            age < 2 * longest \/ age <= longest + MaxRefresh

\* stop() ends run(), after at most the refresh it is in.
StopEndsRun == stop ~> pc = "stopped"

\* The loop goes on for as long as it is not stopped.
RoundsGoOn == []<>(stop \/ pc = "refreshed")
=============================================================================
