----------------------- MODULE RefreshSchedulerProofs -----------------------
(* Proofs about RefreshScheduler, for any threads, intervals and bounds. *)
EXTENDS RefreshScheduler, TLAPS

-----------------------------------------------------------------------------
\* The invariant.

Stages == {"top", "queued", "refreshing", "hook", "refreshed", "delay", "arming",
           "registering", "sleeping", "stopped"}
PutStages == {"idle", "read", "stored", "waking"}

Types ==
    /\ setting \in Intervals /\ planned \in Delays
    /\ age \in 0..AgeCap /\ failures \in 0..FailureCap /\ elapsed \in Nat
    /\ pc \in Stages /\ thread \in [Threads -> PutStages]
    /\ seen \in [Threads -> Intervals \cup {0}]
    /\ target \in [Threads -> Intervals \cup {0}]

Flags ==
    /\ busy \in BOOLEAN /\ wake \in BOOLEAN /\ stop \in BOOLEAN /\ waiter \in BOOLEAN
    /\ woken \in BOOLEAN /\ kept \in BOOLEAN /\ misled \in BOOLEAN /\ raised \in BOOLEAN

\* A request that has read the settings has an interval to store.
TargetsAreIntervals == \A t \in Threads : thread[t] = "read" => target[t] \in Intervals

\* A reschedule() during a refresh leaves the event set until the next round.
KeptIsSet == kept => wake

\* A delay that was computed is that of the stored interval; or else a request
\* that stored another has yet to set the event, or did, or run() is misled.
DelayIsCurrent ==
    Planned /\ (\A t \in Threads : thread[t] # "stored") =>
        wake \/ planned = setting \/ misled

\* Waits, refreshes and sleeps take the time they may.
StepsEnd ==
    /\ pc \in {"queued", "refreshing", "hook"} => elapsed <= MaxRefresh
    /\ pc \in {"arming", "registering"} => elapsed = 0
    /\ pc = "sleeping" => elapsed <= planned

\* The cache is not older than a delay, or a refresh, and these ticks.
Recent(ticks) == age <= MaxRefresh + ticks \/ \E n \in Delays : age < n + ticks

\* How old the cache is when no refresh failed or raised since the last that
\* succeeded, and nobody else refreshes.
AgeByStage ==
    failures = 0 /\ ~raised =>
        /\ pc = "hook" => age <= elapsed
        /\ pc \in {"refreshed", "delay", "arming", "registering"} => busy \/ Recent(0)
        /\ pc = "sleeping" => busy \/ Recent(elapsed)

Inv ==
    Types /\ Flags /\ TargetsAreIntervals /\ KeptIsSet /\ DelayIsCurrent /\ StepsEnd
    /\ AgeByStage

LEMMA BoundsType ==
  /\ Delays \subseteq Nat \ {0} /\ Intervals \subseteq Delays
  /\ MaxRefresh \in Nat /\ MaxBackoff \in Nat /\ AgeCap \in Nat
  /\ MaxRefresh <= AgeCap /\ FailureCap \in Nat \ {0}
  /\ FallbackDelay \in Delays
  BY SchedulerAssumption DEF Delays

\* Without failures the cache is stale from one interval on: if it may be
\* left alone it is younger.
LEMMA StaleAfterOneInterval ==
  ASSUME Types, failures = 0, NEW n \in Delays, FALSE \in Stale(n)
  PROVE  age < n
  <1>1. n \in Nat /\ MaxBackoff \in Nat /\ age \in Nat
    BY BoundsType DEF Types
  <1>2. 2 ^ 0 = 1
    OBVIOUS
  <1>3. n * (2 ^ 0) = n
    BY <1>1, <1>2
  <1>4. age < StaleAfter(n)
    <2> SUFFICES ASSUME ~(age < StaleAfter(n)) PROVE FALSE
      OBVIOUS
    <2>1. ~(failures > 0)
      OBVIOUS
    <2>2. Stale(n) = {TRUE}
      BY <2>1, Zenon DEF Stale
    <2>3. QED
      BY <2>2
  <1>5. StaleAfter(n) <= n
    BY <1>1, <1>3 DEF StaleAfter
  <1>6. StaleAfter(n) \in Nat
    BY <1>1, <1>3 DEF StaleAfter
  <1>7. QED
    BY <1>1, <1>4, <1>5, <1>6

LEMMA StaleIsBoolean == ASSUME NEW n PROVE Stale(n) \subseteq BOOLEAN
  BY DEF Stale

LEMMA Initially == Init => Inv
  <1> SUFFICES ASSUME Init PROVE Inv
    OBVIOUS
  <1>1. Types
    BY BoundsType DEF Init, Types, Stages, PutStages
  <1>2. Flags
    BY Zenon DEF Init, Flags
  <1>3. KeptIsSet /\ TargetsAreIntervals
    BY DEF Init, KeptIsSet, TargetsAreIntervals
  <1>4. DelayIsCurrent /\ StepsEnd /\ AgeByStage
    BY DEF Init, DelayIsCurrent, StepsEnd, AgeByStage, Planned
  <1>5. QED
    BY <1>1, <1>2, <1>3, <1>4 DEF Inv

-----------------------------------------------------------------------------
\* The steps, one conjunct after the other.

\* Types.
LEMMA TypesKept ==
  ASSUME Inv, [Next]_vars
  PROVE  Types'
  <1>1. CASE BeginRound
    BY <1>1, BoundsType DEF BeginRound, Inv, Types, Stages, PutStages, loopVars, eventVars, cacheVars, putVars
  <1>2. CASE AcquireLock
    BY <1>2, BoundsType DEF AcquireLock, Inv, Types, Stages, PutStages, loopVars, eventVars, cacheVars, putVars
  <1>3. CASE CommitRefresh
    <2>1. elapsed <= MaxRefresh
      BY <1>3 DEF CommitRefresh, Inv, StepsEnd
    <2>2. QED
      BY <1>3, <2>1, BoundsType DEF CommitRefresh, Inv, Types, Stages, eventVars, putVars
  <1>4. CASE FailRefresh
    BY <1>4, BoundsType DEF FailRefresh, Inv, Types, Stages, PutStages, loopVars, eventVars, cacheVars, putVars
  <1>5. CASE RaiseRefresh
    BY <1>5, BoundsType DEF RaiseRefresh, Inv, Types, Stages, PutStages, loopVars, eventVars, cacheVars, putVars
  <1>6. CASE EndRefresh
    BY <1>6, BoundsType DEF EndRefresh, Inv, Types, Stages, PutStages, loopVars, eventVars, cacheVars, putVars
  <1>7. CASE DecideToSleep
    BY <1>7, BoundsType DEF DecideToSleep, Inv, Types, Stages, PutStages, loopVars, eventVars, cacheVars, putVars
  <1>8. CASE ComputeDelay
    BY <1>8, BoundsType DEF ComputeDelay, Inv, Types, Stages, PutStages, loopVars, eventVars, cacheVars, putVars
  <1>9. CASE LookAtEvent
    BY <1>9, BoundsType DEF LookAtEvent, Inv, Types, Stages, PutStages, loopVars, eventVars, cacheVars, putVars
  <1>10. CASE RegisterWaiter
    BY <1>10, BoundsType DEF RegisterWaiter, Inv, Types, Stages, PutStages, loopVars, eventVars, cacheVars, putVars
  <1>11. CASE WakeUp
    BY <1>11, BoundsType DEF WakeUp, Inv, Types, Stages, PutStages, loopVars, eventVars, cacheVars, putVars
  <1>12. CASE Stop
    BY <1>12, BoundsType DEF Stop, Inv, Types, Stages, PutStages, loopVars, eventVars, cacheVars, putVars
  <1>13. CASE BeginElsewhere
    BY <1>13, BoundsType DEF BeginElsewhere, Inv, Types, Stages, PutStages, loopVars, eventVars, cacheVars, putVars
  <1>14. CASE EndElsewhere
    <2>1. age' \in 0..AgeCap
      BY <1>14, BoundsType DEF EndElsewhere, Begun, Inv, Types
    <2>2. failures' \in 0..FailureCap
      BY <1>14, BoundsType DEF EndElsewhere, Inv, Types
    <2>3. QED
      BY <1>14, <2>1, <2>2 DEF EndElsewhere, Inv, Types, loopVars, eventVars, putVars
  <1>15. CASE UpdateCredentials
    BY <1>15, BoundsType DEF UpdateCredentials, Inv, Types, Stages, PutStages, loopVars, eventVars, cacheVars, putVars
  <1>16. CASE Tick
    BY <1>16, BoundsType DEF Tick, Inv, Types, Stages, PutStages, loopVars, eventVars, cacheVars, putVars
  <1>17. ASSUME NEW t \in Threads, StoreInterval(t) PROVE Types'
    <2>1. setting' \in Intervals
      BY <1>17 DEF StoreInterval, Inv, TargetsAreIntervals
    <2>2. QED
      BY <1>17, <2>1 DEF StoreInterval, Inv, Types, PutStages, cacheVars, eventVars, loopVars
  <1>18. ASSUME NEW t \in Threads, SetEvent(t) PROVE Types'
    BY <1>18, BoundsType DEF SetEvent, Inv, Types, Stages, PutStages, loopVars, eventVars, cacheVars, putVars
  <1>19. ASSUME NEW t \in Threads, WakeWaiters(t) PROVE Types'
    BY <1>19, BoundsType DEF WakeWaiters, Inv, Types, Stages, PutStages, loopVars, eventVars, cacheVars, putVars
  <1>20. ASSUME NEW t \in Threads, NEW n \in Intervals, ReadSettings(t, n) PROVE Types'
    BY <1>20, BoundsType DEF ReadSettings, Inv, Types, Stages, PutStages, loopVars, eventVars, cacheVars, putVars
  <1>21. CASE UNCHANGED vars
    BY <1>21, BoundsType DEF vars, Inv, Types, Stages, PutStages, loopVars, eventVars, cacheVars, putVars
  <1>22. QED
    BY <1>1, <1>2, <1>3, <1>4, <1>5, <1>6, <1>7, <1>8, <1>9, <1>10,
       <1>11, <1>12, <1>13, <1>14, <1>15, <1>16, <1>17, <1>18, <1>19, <1>20,
       <1>21 DEF Next, Run, Serve

\* The events and the histories are on or off.
LEMMA FlagsKept ==
  ASSUME Inv, [Next]_vars
  PROVE  Flags'
  <1>1. CASE BeginRound
    BY <1>1, Zenon DEF BeginRound, Inv, Flags, loopVars, eventVars, cacheVars, putVars
  <1>2. CASE AcquireLock
    BY <1>2, Zenon DEF AcquireLock, Inv, Flags, loopVars, eventVars, cacheVars, putVars
  <1>3. CASE CommitRefresh
    BY <1>3, Zenon DEF CommitRefresh, Inv, Flags, loopVars, eventVars, cacheVars, putVars
  <1>4. CASE FailRefresh
    BY <1>4, Zenon DEF FailRefresh, Inv, Flags, loopVars, eventVars, cacheVars, putVars
  <1>5. CASE RaiseRefresh
    BY <1>5, Zenon DEF RaiseRefresh, Inv, Flags, loopVars, eventVars, cacheVars, putVars
  <1>6. CASE EndRefresh
    BY <1>6, Zenon DEF EndRefresh, Inv, Flags, loopVars, eventVars, cacheVars, putVars
  <1>7. CASE DecideToSleep
    BY <1>7, Zenon DEF DecideToSleep, Inv, Flags, loopVars, eventVars, cacheVars, putVars
  <1>8. CASE ComputeDelay
    BY <1>8, Zenon DEF ComputeDelay, Inv, Flags, loopVars, eventVars, cacheVars, putVars
  <1>9. CASE LookAtEvent
    BY <1>9, Zenon DEF LookAtEvent, Inv, Flags, loopVars, eventVars, cacheVars, putVars
  <1>10. CASE RegisterWaiter
    BY <1>10, Zenon DEF RegisterWaiter, Inv, Flags, loopVars, eventVars, cacheVars, putVars
  <1>11. CASE WakeUp
    BY <1>11, Zenon DEF WakeUp, Inv, Flags, loopVars, eventVars, cacheVars, putVars
  <1>12. CASE Stop
    BY <1>12, Zenon DEF Stop, Inv, Flags, loopVars, eventVars, cacheVars, putVars
  <1>13. CASE BeginElsewhere
    BY <1>13, Zenon DEF BeginElsewhere, Inv, Flags, loopVars, eventVars, cacheVars, putVars
  <1>14. CASE EndElsewhere
    BY <1>14, Zenon DEF EndElsewhere, Inv, Flags, loopVars, eventVars, cacheVars, putVars
  <1>15. CASE UpdateCredentials
    BY <1>15, Zenon DEF UpdateCredentials, Inv, Flags, loopVars, eventVars, cacheVars, putVars
  <1>16. CASE Tick
    BY <1>16, Zenon DEF Tick, Inv, Flags, loopVars, eventVars, cacheVars, putVars
  <1>17. ASSUME NEW t \in Threads, StoreInterval(t) PROVE Flags'
    BY <1>17, Zenon DEF StoreInterval, Inv, Flags, loopVars, eventVars, cacheVars, putVars
  <1>18. ASSUME NEW t \in Threads, SetEvent(t) PROVE Flags'
    BY <1>18, Zenon DEF SetEvent, Inv, Flags, loopVars, eventVars, cacheVars, putVars
  <1>19. ASSUME NEW t \in Threads, WakeWaiters(t) PROVE Flags'
    BY <1>19, Zenon DEF WakeWaiters, Inv, Flags, loopVars, eventVars, cacheVars, putVars
  <1>20. ASSUME NEW t \in Threads, NEW n \in Intervals, ReadSettings(t, n) PROVE Flags'
    BY <1>20, Zenon DEF ReadSettings, Inv, Flags, loopVars, eventVars, cacheVars, putVars
  <1>21. CASE UNCHANGED vars
    BY <1>21, Zenon DEF vars, Inv, Flags, loopVars, eventVars, cacheVars, putVars
  <1>22. QED
    BY <1>1, <1>2, <1>3, <1>4, <1>5, <1>6, <1>7, <1>8, <1>9, <1>10,
       <1>11, <1>12, <1>13, <1>14, <1>15, <1>16, <1>17, <1>18, <1>19, <1>20,
       <1>21 DEF Next, Run, Serve

\* A request keeps the interval it has to store.
LEMMA TargetsKept ==
  ASSUME Inv, [Next]_vars
  PROVE  TargetsAreIntervals'
  <1>1. CASE BeginRound
    BY <1>1, Zenon DEF BeginRound, Inv, TargetsAreIntervals, loopVars, eventVars, cacheVars, putVars
  <1>2. CASE AcquireLock
    BY <1>2, Zenon DEF AcquireLock, Inv, TargetsAreIntervals, loopVars, eventVars, cacheVars, putVars
  <1>3. CASE CommitRefresh
    BY <1>3, Zenon DEF CommitRefresh, Inv, TargetsAreIntervals, loopVars, eventVars, cacheVars, putVars
  <1>4. CASE FailRefresh
    BY <1>4, Zenon DEF FailRefresh, Inv, TargetsAreIntervals, loopVars, eventVars, cacheVars, putVars
  <1>5. CASE RaiseRefresh
    BY <1>5, Zenon DEF RaiseRefresh, Inv, TargetsAreIntervals, loopVars, eventVars, cacheVars, putVars
  <1>6. CASE EndRefresh
    BY <1>6, Zenon DEF EndRefresh, Inv, TargetsAreIntervals, loopVars, eventVars, cacheVars, putVars
  <1>7. CASE DecideToSleep
    BY <1>7, Zenon DEF DecideToSleep, Inv, TargetsAreIntervals, loopVars, eventVars, cacheVars, putVars
  <1>8. CASE ComputeDelay
    BY <1>8, Zenon DEF ComputeDelay, Inv, TargetsAreIntervals, loopVars, eventVars, cacheVars, putVars
  <1>9. CASE LookAtEvent
    BY <1>9, Zenon DEF LookAtEvent, Inv, TargetsAreIntervals, loopVars, eventVars, cacheVars, putVars
  <1>10. CASE RegisterWaiter
    BY <1>10, Zenon DEF RegisterWaiter, Inv, TargetsAreIntervals, loopVars, eventVars, cacheVars, putVars
  <1>11. CASE WakeUp
    BY <1>11, Zenon DEF WakeUp, Inv, TargetsAreIntervals, loopVars, eventVars, cacheVars, putVars
  <1>12. CASE Stop
    BY <1>12, Zenon DEF Stop, Inv, TargetsAreIntervals, loopVars, eventVars, cacheVars, putVars
  <1>13. CASE BeginElsewhere
    BY <1>13, Zenon DEF BeginElsewhere, Inv, TargetsAreIntervals, loopVars, eventVars, cacheVars, putVars
  <1>14. CASE EndElsewhere
    BY <1>14, Zenon DEF EndElsewhere, Inv, TargetsAreIntervals, loopVars, eventVars, cacheVars, putVars
  <1>15. CASE UpdateCredentials
    BY <1>15, Zenon DEF UpdateCredentials, Inv, TargetsAreIntervals, loopVars, eventVars, cacheVars, putVars
  <1>16. CASE Tick
    BY <1>16, Zenon DEF Tick, Inv, TargetsAreIntervals, loopVars, eventVars, cacheVars, putVars
  <1>17. ASSUME NEW t \in Threads, StoreInterval(t) PROVE TargetsAreIntervals'
    BY <1>17 DEF StoreInterval, Inv, Types, TargetsAreIntervals
  <1>18. ASSUME NEW t \in Threads, SetEvent(t) PROVE TargetsAreIntervals'
    BY <1>18 DEF SetEvent, Inv, Types, TargetsAreIntervals
  <1>19. ASSUME NEW t \in Threads, WakeWaiters(t) PROVE TargetsAreIntervals'
    BY <1>19 DEF WakeWaiters, Inv, Types, TargetsAreIntervals
  <1>20. ASSUME NEW t \in Threads, NEW n \in Intervals, ReadSettings(t, n) PROVE TargetsAreIntervals'
    BY <1>20 DEF ReadSettings, Inv, Types, TargetsAreIntervals
  <1>21. CASE UNCHANGED vars
    BY <1>21, Zenon DEF vars, Inv, TargetsAreIntervals, loopVars, eventVars, cacheVars, putVars
  <1>22. QED
    BY <1>1, <1>2, <1>3, <1>4, <1>5, <1>6, <1>7, <1>8, <1>9, <1>10,
       <1>11, <1>12, <1>13, <1>14, <1>15, <1>16, <1>17, <1>18, <1>19, <1>20,
       <1>21 DEF Next, Run, Serve

\* Only the top of a round clears the event, and then no reschedule() is kept.
LEMMA KeptIsSetKept ==
  ASSUME Inv, [Next]_vars
  PROVE  KeptIsSet'
  <1>1. CASE BeginRound
    BY <1>1, Zenon DEF BeginRound, Inv, KeptIsSet, loopVars, eventVars, cacheVars, putVars
  <1>2. CASE AcquireLock
    BY <1>2, Zenon DEF AcquireLock, Inv, KeptIsSet, loopVars, eventVars, cacheVars, putVars
  <1>3. CASE CommitRefresh
    BY <1>3, Zenon DEF CommitRefresh, Inv, KeptIsSet, loopVars, eventVars, cacheVars, putVars
  <1>4. CASE FailRefresh
    BY <1>4, Zenon DEF FailRefresh, Inv, KeptIsSet, loopVars, eventVars, cacheVars, putVars
  <1>5. CASE RaiseRefresh
    BY <1>5, Zenon DEF RaiseRefresh, Inv, KeptIsSet, loopVars, eventVars, cacheVars, putVars
  <1>6. CASE EndRefresh
    BY <1>6, Zenon DEF EndRefresh, Inv, KeptIsSet, loopVars, eventVars, cacheVars, putVars
  <1>7. CASE DecideToSleep
    BY <1>7, Zenon DEF DecideToSleep, Inv, KeptIsSet, loopVars, eventVars, cacheVars, putVars
  <1>8. CASE ComputeDelay
    BY <1>8, Zenon DEF ComputeDelay, Inv, KeptIsSet, loopVars, eventVars, cacheVars, putVars
  <1>9. CASE LookAtEvent
    BY <1>9, Zenon DEF LookAtEvent, Inv, KeptIsSet, loopVars, eventVars, cacheVars, putVars
  <1>10. CASE RegisterWaiter
    BY <1>10, Zenon DEF RegisterWaiter, Inv, KeptIsSet, loopVars, eventVars, cacheVars, putVars
  <1>11. CASE WakeUp
    BY <1>11, Zenon DEF WakeUp, Inv, KeptIsSet, loopVars, eventVars, cacheVars, putVars
  <1>12. CASE Stop
    BY <1>12, Zenon DEF Stop, Inv, KeptIsSet, loopVars, eventVars, cacheVars, putVars
  <1>13. CASE BeginElsewhere
    BY <1>13, Zenon DEF BeginElsewhere, Inv, KeptIsSet, loopVars, eventVars, cacheVars, putVars
  <1>14. CASE EndElsewhere
    BY <1>14, Zenon DEF EndElsewhere, Inv, KeptIsSet, loopVars, eventVars, cacheVars, putVars
  <1>15. CASE UpdateCredentials
    BY <1>15, Zenon DEF UpdateCredentials, Inv, KeptIsSet, loopVars, eventVars, cacheVars, putVars
  <1>16. CASE Tick
    BY <1>16, Zenon DEF Tick, Inv, KeptIsSet, loopVars, eventVars, cacheVars, putVars
  <1>17. ASSUME NEW t \in Threads, StoreInterval(t) PROVE KeptIsSet'
    BY <1>17, Zenon DEF StoreInterval, Inv, KeptIsSet, loopVars, eventVars, cacheVars, putVars
  <1>18. ASSUME NEW t \in Threads, SetEvent(t) PROVE KeptIsSet'
    BY <1>18, Zenon DEF SetEvent, Inv, KeptIsSet, loopVars, eventVars, cacheVars, putVars
  <1>19. ASSUME NEW t \in Threads, WakeWaiters(t) PROVE KeptIsSet'
    BY <1>19, Zenon DEF WakeWaiters, Inv, KeptIsSet, loopVars, eventVars, cacheVars, putVars
  <1>20. ASSUME NEW t \in Threads, NEW n \in Intervals, ReadSettings(t, n) PROVE KeptIsSet'
    BY <1>20, Zenon DEF ReadSettings, Inv, KeptIsSet, loopVars, eventVars, cacheVars, putVars
  <1>21. CASE UNCHANGED vars
    BY <1>21, Zenon DEF vars, Inv, KeptIsSet, loopVars, eventVars, cacheVars, putVars
  <1>22. QED
    BY <1>1, <1>2, <1>3, <1>4, <1>5, <1>6, <1>7, <1>8, <1>9, <1>10,
       <1>11, <1>12, <1>13, <1>14, <1>15, <1>16, <1>17, <1>18, <1>19, <1>20,
       <1>21 DEF Next, Run, Serve

\* A delay that was computed stays current, or the event is set, or run() is misled.
LEMMA DelayIsCurrentKept ==
  ASSUME Inv, [Next]_vars
  PROVE  DelayIsCurrent'
  <1>1. CASE BeginRound
    BY <1>1 DEF BeginRound, Inv, DelayIsCurrent, Planned, Types, loopVars, eventVars, cacheVars, putVars
  <1>2. CASE AcquireLock
    BY <1>2 DEF AcquireLock, Inv, DelayIsCurrent, Planned, Types, loopVars, eventVars, cacheVars, putVars
  <1>3. CASE CommitRefresh
    BY <1>3 DEF CommitRefresh, Inv, DelayIsCurrent, Planned, Types, loopVars, eventVars, cacheVars, putVars
  <1>4. CASE FailRefresh
    BY <1>4 DEF FailRefresh, Inv, DelayIsCurrent, Planned, Types, loopVars, eventVars, cacheVars, putVars
  <1>5. CASE RaiseRefresh
    BY <1>5 DEF RaiseRefresh, Inv, DelayIsCurrent, Planned, Types, loopVars, eventVars, cacheVars, putVars
  <1>6. CASE EndRefresh
    BY <1>6 DEF EndRefresh, Inv, DelayIsCurrent, Planned, Types, loopVars, eventVars, cacheVars, putVars
  <1>7. CASE DecideToSleep
    BY <1>7 DEF DecideToSleep, Inv, DelayIsCurrent, Planned, Types, loopVars, eventVars, cacheVars, putVars
  <1>8. CASE ComputeDelay
    BY <1>8 DEF ComputeDelay, Inv, DelayIsCurrent, Planned, Types, loopVars, eventVars, cacheVars, putVars
  <1>9. CASE LookAtEvent
    BY <1>9 DEF LookAtEvent, Inv, DelayIsCurrent, Planned, Types, loopVars, eventVars, cacheVars, putVars
  <1>10. CASE RegisterWaiter
    BY <1>10 DEF RegisterWaiter, Inv, DelayIsCurrent, Planned, Types, loopVars, eventVars, cacheVars, putVars
  <1>11. CASE WakeUp
    BY <1>11 DEF WakeUp, Inv, DelayIsCurrent, Planned, Types, loopVars, eventVars, cacheVars, putVars
  <1>12. CASE Stop
    BY <1>12 DEF Stop, Inv, DelayIsCurrent, Planned, Types, loopVars, eventVars, cacheVars, putVars
  <1>13. CASE BeginElsewhere
    BY <1>13 DEF BeginElsewhere, Inv, DelayIsCurrent, Planned, Types, loopVars, eventVars, cacheVars, putVars
  <1>14. CASE EndElsewhere
    BY <1>14 DEF EndElsewhere, Inv, DelayIsCurrent, Planned, Types, loopVars, eventVars, cacheVars, putVars
  <1>15. CASE UpdateCredentials
    BY <1>15 DEF UpdateCredentials, Inv, DelayIsCurrent, Planned, Types, loopVars, eventVars, cacheVars, putVars
  <1>16. CASE Tick
    BY <1>16 DEF Tick, Inv, DelayIsCurrent, Planned, Types, loopVars, eventVars, cacheVars, putVars
  <1>17. ASSUME NEW t \in Threads, StoreInterval(t) PROVE DelayIsCurrent'
    BY <1>17 DEF StoreInterval, Inv, DelayIsCurrent, Planned, Types, loopVars, eventVars, cacheVars, putVars
  <1>18. ASSUME NEW t \in Threads, SetEvent(t) PROVE DelayIsCurrent'
    BY <1>18 DEF SetEvent, Inv, DelayIsCurrent, Planned, Types, loopVars, eventVars, cacheVars, putVars
  <1>19. ASSUME NEW t \in Threads, WakeWaiters(t) PROVE DelayIsCurrent'
    BY <1>19 DEF WakeWaiters, Inv, DelayIsCurrent, Planned, Types, loopVars, eventVars, cacheVars, putVars
  <1>20. ASSUME NEW t \in Threads, NEW n \in Intervals, ReadSettings(t, n) PROVE DelayIsCurrent'
    BY <1>20 DEF ReadSettings, Inv, DelayIsCurrent, Planned, Types, loopVars, eventVars, cacheVars, putVars
  <1>21. CASE UNCHANGED vars
    BY <1>21 DEF vars, Inv, DelayIsCurrent, Planned, Types, loopVars, eventVars, cacheVars, putVars
  <1>22. QED
    BY <1>1, <1>2, <1>3, <1>4, <1>5, <1>6, <1>7, <1>8, <1>9, <1>10,
       <1>11, <1>12, <1>13, <1>14, <1>15, <1>16, <1>17, <1>18, <1>19, <1>20,
       <1>21 DEF Next, Run, Serve

\* Waits, refreshes and sleeps end in time.
LEMMA StepsEndKept ==
  ASSUME Inv, [Next]_vars
  PROVE  StepsEnd'
  <1>1. CASE BeginRound
    BY <1>1, BoundsType DEF BeginRound, Inv, StepsEnd, Types, loopVars, eventVars, cacheVars, putVars
  <1>2. CASE AcquireLock
    BY <1>2, BoundsType DEF AcquireLock, Inv, StepsEnd, Types, loopVars, eventVars, cacheVars, putVars
  <1>3. CASE CommitRefresh
    BY <1>3, BoundsType DEF CommitRefresh, Inv, StepsEnd, Types, loopVars, eventVars, cacheVars, putVars
  <1>4. CASE FailRefresh
    BY <1>4, BoundsType DEF FailRefresh, Inv, StepsEnd, Types, loopVars, eventVars, cacheVars, putVars
  <1>5. CASE RaiseRefresh
    BY <1>5, BoundsType DEF RaiseRefresh, Inv, StepsEnd, Types, loopVars, eventVars, cacheVars, putVars
  <1>6. CASE EndRefresh
    BY <1>6, BoundsType DEF EndRefresh, Inv, StepsEnd, Types, loopVars, eventVars, cacheVars, putVars
  <1>7. CASE DecideToSleep
    BY <1>7, BoundsType DEF DecideToSleep, Inv, StepsEnd, Types, loopVars, eventVars, cacheVars, putVars
  <1>8. CASE ComputeDelay
    BY <1>8, BoundsType DEF ComputeDelay, Inv, StepsEnd, Types, loopVars, eventVars, cacheVars, putVars
  <1>9. CASE LookAtEvent
    BY <1>9, BoundsType DEF LookAtEvent, Inv, StepsEnd, Types, loopVars, eventVars, cacheVars, putVars
  <1>10. CASE RegisterWaiter
    BY <1>10, BoundsType DEF RegisterWaiter, Inv, StepsEnd, Types, loopVars, eventVars, cacheVars, putVars
  <1>11. CASE WakeUp
    BY <1>11, BoundsType DEF WakeUp, Inv, StepsEnd, Types, loopVars, eventVars, cacheVars, putVars
  <1>12. CASE Stop
    BY <1>12, BoundsType DEF Stop, Inv, StepsEnd, Types, loopVars, eventVars, cacheVars, putVars
  <1>13. CASE BeginElsewhere
    BY <1>13, BoundsType DEF BeginElsewhere, Inv, StepsEnd, Types, loopVars, eventVars, cacheVars, putVars
  <1>14. CASE EndElsewhere
    BY <1>14, BoundsType DEF EndElsewhere, Inv, StepsEnd, Types, loopVars, eventVars, cacheVars, putVars
  <1>15. CASE UpdateCredentials
    BY <1>15, BoundsType DEF UpdateCredentials, Inv, StepsEnd, Types, loopVars, eventVars, cacheVars, putVars
  <1>16. CASE Tick
    <2>1. elapsed \in Nat /\ planned \in Nat /\ MaxRefresh \in Nat /\ elapsed' = elapsed + 1
      BY <1>16, BoundsType DEF Tick, Inv, Types
    <2>2. \/ pc \in {"queued", "refreshing", "hook"} /\ elapsed < MaxRefresh
          \/ pc = "sleeping" /\ elapsed < planned
      BY <1>16, Zenon DEF Tick
    <2>3. pc' = pc /\ planned' = planned
      BY <1>16 DEF Tick
    <2>4. QED
      BY <2>1, <2>2, <2>3 DEF StepsEnd
  <1>17. ASSUME NEW t \in Threads, StoreInterval(t) PROVE StepsEnd'
    BY <1>17, BoundsType DEF StoreInterval, Inv, StepsEnd, Types, loopVars, eventVars, cacheVars, putVars
  <1>18. ASSUME NEW t \in Threads, SetEvent(t) PROVE StepsEnd'
    BY <1>18, BoundsType DEF SetEvent, Inv, StepsEnd, Types, loopVars, eventVars, cacheVars, putVars
  <1>19. ASSUME NEW t \in Threads, WakeWaiters(t) PROVE StepsEnd'
    BY <1>19, BoundsType DEF WakeWaiters, Inv, StepsEnd, Types, loopVars, eventVars, cacheVars, putVars
  <1>20. ASSUME NEW t \in Threads, NEW n \in Intervals, ReadSettings(t, n) PROVE StepsEnd'
    BY <1>20, BoundsType DEF ReadSettings, Inv, StepsEnd, Types, loopVars, eventVars, cacheVars, putVars
  <1>21. CASE UNCHANGED vars
    BY <1>21, BoundsType DEF vars, Inv, StepsEnd, Types, loopVars, eventVars, cacheVars, putVars
  <1>22. QED
    BY <1>1, <1>2, <1>3, <1>4, <1>5, <1>6, <1>7, <1>8, <1>9, <1>10,
       <1>11, <1>12, <1>13, <1>14, <1>15, <1>16, <1>17, <1>18, <1>19, <1>20,
       <1>21 DEF Next, Run, Serve

\* The cache ages with the stages of a round.
LEMMA AgeByStageKept ==
  ASSUME Inv, [Next]_vars
  PROVE  AgeByStage'
  <1> USE BoundsType DEF Inv
  <1>1. CASE BeginRound
    <2>1. failures' = failures /\ busy' = busy /\ age' = age
      BY <1>1 DEF BeginRound
    <2>2. pc' # "hook" /\ pc' \notin {"delay", "arming", "registering", "sleeping"}
      BY <1>1, Zenon DEF BeginRound
    <2>3. ASSUME failures = 0, ~raised', pc' = "refreshed", ~busy PROVE age < setting + 0
      <3>1. FALSE \in Stale(setting)
        BY <1>1, <2>3, StaleIsBoolean, Zenon DEF BeginRound
      <3>2. QED
        <4>1. setting \in Delays /\ setting \in Nat /\ age \in Nat
          BY DEF Types
        <4>2. age < setting
          BY <3>1, <4>1, <2>3, StaleAfterOneInterval, Zenon
        <4>3. QED
          BY <4>1, <4>2
    <2>4. setting \in Delays
      BY DEF Types
    <2>5. QED
      BY <2>1, <2>2, <2>3, <2>4 DEF AgeByStage, Recent
  <1>2. CASE AcquireLock
    <2>1. failures' = failures /\ busy' = busy /\ age' = age
      BY <1>2 DEF AcquireLock
    <2>2. pc' # "hook" /\ pc' \notin {"delay", "arming", "registering", "sleeping"}
      BY <1>2, Zenon DEF AcquireLock
    <2>3. ASSUME failures = 0, ~raised', pc' = "refreshed" PROVE age < planned + 0
      <3>1. FALSE \in Stale(planned)
        BY <1>2, <2>3, StaleIsBoolean, Zenon DEF AcquireLock
      <3>2. QED
        <4>1. planned \in Delays /\ planned \in Nat /\ age \in Nat
          BY DEF Types
        <4>2. age < planned
          BY <3>1, <4>1, <2>3, StaleAfterOneInterval, Zenon
        <4>3. QED
          BY <4>1, <4>2
    <2>4. planned \in Delays
      BY DEF Types
    <2>5. QED
      BY <2>1, <2>2, <2>3, <2>4 DEF AgeByStage, Recent
  <1>3. CASE CommitRefresh
    BY <1>3 DEF CommitRefresh, AgeByStage, Recent, StepsEnd, Types, loopVars, eventVars, cacheVars, putVars
  <1>4. CASE FailRefresh
    <2>1. failures' # 0
      BY <1>4 DEF FailRefresh, Types
    <2>2. QED
      BY <2>1 DEF AgeByStage
  <1>5. CASE RaiseRefresh
    BY <1>5, Zenon DEF RaiseRefresh, AgeByStage
  <1>6. CASE EndRefresh
    BY <1>6 DEF EndRefresh, AgeByStage, Recent, StepsEnd, Types, loopVars, eventVars, cacheVars, putVars
  <1>7. CASE DecideToSleep
    BY <1>7 DEF DecideToSleep, AgeByStage, Recent, StepsEnd, Types, loopVars, eventVars, cacheVars, putVars
  <1>8. CASE ComputeDelay
    BY <1>8 DEF ComputeDelay, AgeByStage, Recent, StepsEnd, Types, loopVars, eventVars, cacheVars, putVars
  <1>9. CASE LookAtEvent
    BY <1>9 DEF LookAtEvent, AgeByStage, Recent, StepsEnd, Types, loopVars, eventVars, cacheVars, putVars
  <1>10. CASE RegisterWaiter
    BY <1>10 DEF RegisterWaiter, AgeByStage, Recent, StepsEnd, Types, loopVars, eventVars, cacheVars, putVars
  <1>11. CASE WakeUp
    BY <1>11 DEF WakeUp, AgeByStage, Recent, StepsEnd, Types, loopVars, eventVars, cacheVars, putVars
  <1>12. CASE Stop
    BY <1>12 DEF Stop, AgeByStage, Recent, StepsEnd, Types, loopVars, eventVars, cacheVars, putVars
  <1>13. CASE BeginElsewhere
    BY <1>13 DEF BeginElsewhere, AgeByStage, Recent, StepsEnd, Types, loopVars, eventVars, cacheVars, putVars
  <1>14. CASE EndElsewhere
    <2>1. ASSUME age' \in Begun PROVE AgeByStage'
      <3>1. age' \in Nat /\ age' <= MaxRefresh + 0 /\ age' <= MaxRefresh + elapsed
        BY <2>1, <1>14 DEF Begun, Types, StepsEnd
      <3>2. pc = "hook" => age' <= elapsed
        BY <2>1 DEF Begun
      <3>3. pc' = pc /\ elapsed' = elapsed
        BY <1>14 DEF EndElsewhere, loopVars
      <3>4. QED
        BY <3>1, <3>2, <3>3 DEF AgeByStage, Recent
    <2>2. ASSUME failures' = IF failures < FailureCap THEN failures + 1 ELSE failures
          PROVE  AgeByStage'
      <3>1. failures' # 0
        BY <2>2 DEF Types
      <3>2. QED
        BY <3>1 DEF AgeByStage
    <2>3. ASSUME raised' = TRUE PROVE AgeByStage'
      BY <2>3, Zenon DEF AgeByStage
    <2>4. QED
      BY <1>14, <2>1, <2>2, <2>3 DEF EndElsewhere
  <1>15. CASE UpdateCredentials
    BY <1>15 DEF UpdateCredentials, AgeByStage, Recent, StepsEnd, Types, loopVars, eventVars, cacheVars, putVars
  <1>16. CASE Tick
    <2>1. /\ elapsed' = elapsed + 1 /\ pc' = pc /\ failures' = failures
          /\ busy' = busy /\ raised' = raised
          /\ pc \in {"queued", "refreshing", "hook", "sleeping"}
      BY <1>16, Zenon DEF Tick
    <2>2. age' \in Nat /\ age' <= age + 1
      BY <1>16 DEF Tick, Types
    <2>3. ASSUME pc = "hook", age <= elapsed PROVE age' <= elapsed'
      BY <2>1, <2>2, <2>3 DEF Types
    <2>4. ASSUME pc = "sleeping", Recent(elapsed) PROVE Recent(elapsed)'
      <3>1. CASE age <= MaxRefresh + elapsed
        BY <2>1, <2>2, <3>1 DEF Recent, Types
      <3>2. ASSUME NEW n \in Delays, age < n + elapsed PROVE age' < n + elapsed'
        BY <2>1, <2>2, <3>2 DEF Types
      <3>3. QED
        BY <2>4, <3>1, <3>2 DEF Recent
    <2>5. QED
      BY <2>1, <2>3, <2>4 DEF AgeByStage
  <1>17. ASSUME NEW t \in Threads, StoreInterval(t) PROVE AgeByStage'
    BY <1>17 DEF StoreInterval, AgeByStage, Recent, StepsEnd, Types, loopVars, eventVars, cacheVars, putVars
  <1>18. ASSUME NEW t \in Threads, SetEvent(t) PROVE AgeByStage'
    BY <1>18 DEF SetEvent, AgeByStage, Recent, StepsEnd, Types, loopVars, eventVars, cacheVars, putVars
  <1>19. ASSUME NEW t \in Threads, WakeWaiters(t) PROVE AgeByStage'
    BY <1>19 DEF WakeWaiters, AgeByStage, Recent, StepsEnd, Types, loopVars, eventVars, cacheVars, putVars
  <1>20. ASSUME NEW t \in Threads, NEW n \in Intervals, ReadSettings(t, n) PROVE AgeByStage'
    BY <1>20 DEF ReadSettings, AgeByStage, Recent, StepsEnd, Types, loopVars, eventVars, cacheVars, putVars
  <1>21. CASE UNCHANGED vars
    BY <1>21 DEF vars, AgeByStage, Recent, StepsEnd, Types, loopVars, eventVars, cacheVars, putVars
  <1>22. QED
    BY <1>1, <1>2, <1>3, <1>4, <1>5, <1>6, <1>7, <1>8, <1>9, <1>10,
       <1>11, <1>12, <1>13, <1>14, <1>15, <1>16, <1>17, <1>18, <1>19, <1>20,
       <1>21 DEF Next, Run, Serve

LEMMA StepKeepsInv == Inv /\ [Next]_vars => Inv'
  BY TypesKept, FlagsKept, TargetsKept, KeptIsSetKept, DelayIsCurrentKept, StepsEndKept,
     AgeByStageKept
     DEF Inv

THEOREM Invariance == Spec => []Inv
  BY Initially, StepKeepsInv, PTL DEF Spec

-----------------------------------------------------------------------------
\* Its consequences.

\* Every variable has its type.
THEOREM TypeCorrect == Spec => []TypeOK
  <1>1. Inv => TypeOK
    <2> SUFFICES ASSUME Inv PROVE TypeOK
      OBVIOUS
    <2>1. {busy, wake, stop, waiter, woken, kept, misled, raised} \subseteq BOOLEAN
      BY Zenon DEF Inv, Flags
    <2>2. QED
      BY <2>1 DEF Inv, Types, Stages, PutStages, TypeOK
  <1>2. QED
    BY <1>1, Invariance, PTL

\* The loop never sleeps on for an interval that is not stored any more, nor
\* after a reschedule() that came during a refresh, but for a thread that is
\* overlooked and a loop that is misled (scheduler.py, admin.py:375).
THEOREM RescheduleIsHeard == Spec => []RescheduleTakesEffect
  <1>1. Inv => RescheduleTakesEffect
    <2> SUFFICES ASSUME Inv, pc = "sleeping", Telling = {}, ~wake
                 PROVE  (planned = setting \/ misled) /\ ~kept
      BY Zenon DEF RescheduleTakesEffect, Overslept
    <2>1. \A t \in Threads : thread[t] # "stored"
      BY DEF Telling
    <2>2. planned = setting \/ misled
      BY <2>1, Zenon DEF Inv, DelayIsCurrent, Planned
    <2>3. ~kept
      BY Zenon DEF Inv, KeptIsSet
    <2>4. QED
      BY <2>2, <2>3, Zenon
  <1>2. QED
    BY <1>1, Invariance, PTL

\* Without failures and errors the cache never gets as old as two delays, however
\* the interval changes and rounds fall, but while somebody else refreshes.
THEOREM CacheStaysYoung == Spec => []AgeBounded
  <1>1. Inv => AgeBounded
    <2> SUFFICES ASSUME Inv, NEW longest \in Delays, pc = "sleeping", failures = 0,
                        ~busy, ~raised, \A n \in Delays : n <= longest
                 PROVE  age < 2 * longest \/ age <= longest + MaxRefresh
      BY DEF AgeBounded
    <2>1. elapsed \in Nat /\ elapsed <= longest /\ longest \in Nat
      BY BoundsType DEF Inv, Types, StepsEnd
    <2>2. Recent(elapsed)
      BY Zenon DEF Inv, AgeByStage
    <2>3. age \in Nat
      BY BoundsType DEF Inv, Types
    <2>4. CASE age <= MaxRefresh + elapsed
      BY <2>1, <2>3, <2>4, BoundsType
    <2>5. ASSUME NEW n \in Delays, age < n + elapsed PROVE age < 2 * longest
      <3>1. n \in Nat /\ n <= longest
        BY BoundsType
      <3>2. QED
        BY <2>1, <2>3, <2>5, <3>1
    <2>6. QED
      BY <2>2, <2>4, <2>5 DEF Recent
  <1>2. QED
    BY <1>1, Invariance, PTL
=============================================================================
