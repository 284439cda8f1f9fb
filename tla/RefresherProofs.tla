-------------------------- MODULE RefresherProofs --------------------------
(* Proofs about Refresher, for every set of tasks and payloads, every choice *)
(* of calls and faults, and every value of the bounds; and about             *)
(* ConvertedCache, for any number of renders, from the same invariant.       *)
EXTENDS ConvertedCache, FiniteSetTheorems, TLAPS

-----------------------------------------------------------------------------
\* Type correctness.

\* The initial row and the blank locals have their types.
LEMMA BlankType == Blank \in Locals
  BY NamesAreDistinct, BoundsAssumption DEF Blank, Locals, AllKinds

LEMMA AgeTypes ==
  /\ \A age \in 0..AgeCap : Older(age) \in 0..AgeCap
  /\ \A n \in 0..FailureCap : OneMore(n) \in 0..FailureCap
  BY BoundsAssumption DEF Older, OneMore

\* Leaving the critical section and returning keep the types.
LEMMA ReturnType ==
  ASSUME TypeOK, NEW t \in Tasks, Return(t)
  PROVE  /\ pc' \in [Tasks -> Outside \cup Awaiting \cup Committing]
         /\ nested' \in [Tasks -> BOOLEAN]
         /\ work' \in [Tasks -> Locals]
  BY BlankType DEF TypeOK, Return, Goto, Outside

LEMMA EnqueueType ==
  ASSUME TypeOK, NEW t \in Tasks, NEW kind \in AllKinds, NEW cred \in Credentials,
         Enqueue(t, kind, cred)
  PROVE  /\ pc' \in [Tasks -> Outside \cup Awaiting \cup Committing]
         /\ queue' \in Seq(Tasks)
         /\ work' \in [Tasks -> Locals]
         /\ UNCHANGED <<refreshing, lock, loop>>
  <1>1. [Blank EXCEPT !.kind = kind, !.cred = cred] \in Locals
    BY BlankType DEF Blank, Locals
  <1>2. QED
    BY <1>1 DEF TypeOK, Enqueue, Goto, Outside

LEMMA TypingInit == Init => TypeOK
  <1> SUFFICES ASSUME Init PROVE TypeOK
    OBVIOUS
  <1>1. db \in Row
    BY BoundsAssumption DEF Init, Row
  <1>2. backup \in BOOLEAN /\ refreshing \in BOOLEAN
    BY SwitchesAssumption, Zenon DEF Init
  <1>3. /\ pc \in [Tasks -> Outside \cup Awaiting \cup Committing]
        /\ nested \in [Tasks -> BOOLEAN]
        /\ work \in [Tasks -> Locals]
    BY BlankType DEF Init, Outside
  <1>4. QED
    BY <1>1, <1>2, <1>3, NamesAreDistinct DEF Init, TypeOK

\* Every step keeps the types; a task that writes the raw file has one to write.
LEMMA TypingStep == TypeOK /\ CommitInOrder /\ [Next]_vars => TypeOK'
  <1> SUFFICES ASSUME TypeOK, CommitInOrder, [Next]_vars PROVE TypeOK'
    OBVIOUS
  <1>typed. /\ db \in Row /\ raw \in SUBSET Payloads
            /\ template \in Contents \cup {None} /\ creds \in Credentials
            /\ backup \in BOOLEAN /\ threshold \in Thresholds
            /\ refreshing \in BOOLEAN /\ lock \in Tasks \cup {None}
            /\ queue \in Seq(Tasks) /\ loop \in Tasks \cup {None}
            /\ pc \in [Tasks -> Outside \cup Awaiting \cup Committing]
            /\ nested \in [Tasks -> BOOLEAN] /\ work \in [Tasks -> Locals]
    BY DEF TypeOK
  <1>call. ASSUME NEW t \in Tasks, NEW kind \in AllKinds, NEW cred \in Credentials,
                  Enqueue(t, kind, cred), UNCHANGED <<disk, nested>>
           PROVE  TypeOK'
    BY <1>call, EnqueueType DEF TypeOK, disk
  <1>1. ASSUME NEW t \in Tasks, CallRefresh(t) PROVE TypeOK'
    BY <1>1, <1>call, NamesAreDistinct DEF CallRefresh, AllKinds
  <1>2. ASSUME NEW t \in Tasks, CallRefreshIfStale(t) PROVE TypeOK'
    BY <1>2, <1>call, NamesAreDistinct DEF CallRefreshIfStale, AllKinds
  <1>3. ASSUME NEW t \in Tasks, CallTestProtocol(t) PROVE TypeOK'
    BY <1>3, <1>call, NamesAreDistinct DEF CallTestProtocol, AllKinds
  <1>4. ASSUME NEW t \in Tasks, NEW cred \in Credentials, CallUpdateCredentials(t, cred)
        PROVE  TypeOK'
    BY <1>4, <1>call DEF CallUpdateCredentials, AllKinds
  <1>5. ASSUME NEW t \in Tasks, CallRunHealth(t) PROVE TypeOK'
    <2>1. [Blank EXCEPT !.kind = "health"] \in Locals
      BY BlankType DEF Blank, Locals, AllKinds
    <2>2. QED
      BY <1>5, <2>1 DEF CallRunHealth, TypeOK, disk, Goto, Outside
  <1>6. ASSUME NEW t \in Tasks, SaveBackupNodes(t) PROVE TypeOK'
    <2>1. [Blank EXCEPT !.kind = "save"] \in Locals
      BY BlankType DEF Blank, Locals, AllKinds
    <2>2. template' \in Contents \cup {None}
      BY <1>6, <1>typed DEF SaveBackupNodes, Cleared
    <2>3. /\ pc' \in [Tasks -> Outside \cup Awaiting \cup Committing]
          /\ work' \in [Tasks -> Locals]
      BY <1>6, <1>typed, <2>1 DEF SaveBackupNodes, Goto, Outside
    <2>4. backup' \in BOOLEAN
      BY <1>6, Zenon DEF SaveBackupNodes
    <2>5. QED
      BY <1>6, <1>typed, <2>2, <2>3, <2>4 DEF SaveBackupNodes, TypeOK
  <1>7. ASSUME NEW n \in Thresholds, SetThreshold(n) PROVE TypeOK'
    BY <1>7 DEF SetThreshold, TypeOK, volatile
  <1>8. ASSUME NEW t \in Tasks, StartAttempt(t) PROVE TypeOK'
    <2>1. queue' \in Seq(Tasks)
      BY <1>8, <1>typed DEF StartAttempt, Granted
    <2>2. IsActive \in BOOLEAN
      BY <1>typed DEF IsActive, ActiveWith
    <2>3. pc' \in [Tasks -> Outside \cup Awaiting \cup Committing]
      BY <1>8, <1>typed DEF StartAttempt, Goto, Awaiting
    <2>4. work' \in [Tasks -> Locals]
      <3> DEFINE new == [work[t] EXCEPT !.was = IsActive, !.age = 0, !.source = FirstSource]
      <3>1. 0 \in 0..AgeCap /\ FirstSource \in {"protocol", "fallback", "none"}
        BY BoundsAssumption DEF FirstSource
      <3>2. new \in Locals
        BY <1>typed, <2>2, <3>1, ZenonT(60) DEF Locals
      <3>3. work' = [work EXCEPT ![t] = new]
        BY <1>8 DEF StartAttempt
      <3>4. QED
        BY <1>typed, <3>2, <3>3
    <2>5. QED
      BY <1>8, <1>typed, <2>1, <2>3, <2>4 DEF StartAttempt, TypeOK, disk
  <1>9. ASSUME NEW t \in Tasks, NoLongerDue(t) PROVE TypeOK'
    BY <1>9, <1>typed, ReturnType DEF NoLongerDue, Granted, TypeOK, disk
  <1>10. ASSUME NEW t \in Tasks, StartProtocolCall(t) PROVE TypeOK'
    <2>1. queue' \in Seq(Tasks)
      BY <1>10, <1>typed DEF StartProtocolCall, Granted
    <2>2. CASE "protocol" \in Sources
      <3>1. work' \in [Tasks -> Locals]
        <4> DEFINE new == [work[t] EXCEPT !.source = "protocol"]
        <4>1. new \in Locals
          BY <1>typed, ZenonT(60) DEF Locals
        <4>2. work' = [work EXCEPT ![t] = new]
          BY <1>10, <2>2 DEF StartProtocolCall
        <4>3. QED
          BY <1>typed, <4>1, <4>2
      <3>2. pc' \in [Tasks -> Outside \cup Awaiting \cup Committing]
        BY <1>10, <1>typed, <2>2 DEF StartProtocolCall, Goto, Awaiting
      <3>3. QED
        BY <1>10, <1>typed, <2>1, <2>2, <3>1, <3>2 DEF StartProtocolCall, TypeOK, disk
    <2>3. CASE "protocol" \notin Sources
      BY <1>10, <1>typed, <2>1, <2>3, ReturnType DEF StartProtocolCall, TypeOK, disk
    <2>4. QED
      BY <2>2, <2>3
  <1>11. ASSUME NEW t \in Tasks, Resolved(t) PROVE TypeOK'
    <2>1. db' \in Row
      BY <1>11, <1>typed DEF Resolved, Row
    <2>2. CASE work[t].kind = "test"
      BY <1>11, <1>typed, <2>1, <2>2, ReturnType DEF Resolved, Release, TypeOK
    <2>3. CASE work[t].kind # "test"
      <3>1. pc' \in [Tasks -> Outside \cup Awaiting \cup Committing]
        BY <1>11, <1>typed, <2>3 DEF Resolved, Goto, Awaiting
      <3>2. QED
        BY <1>11, <1>typed, <2>1, <2>3, <3>1 DEF Resolved, TypeOK
    <2>4. QED
      BY <2>2, <2>3
  <1>12. ASSUME NEW t \in Tasks, NEW p \in Payloads, Downloaded(t, p) PROVE TypeOK'
    <2>1. CASE work[t].kind = "credentials" /\ ~SecretsAvailable
      BY <1>12, <1>typed, <2>1, ReturnType DEF Downloaded, Release, TypeOK, disk
    <2>2. CASE ~(work[t].kind = "credentials" /\ ~SecretsAvailable)
      <3> DEFINE new == [work[t] EXCEPT !.payload = p]
      <3>1. new \in Locals
        BY <1>typed, ZenonT(60) DEF Locals
      <3>2. work' = [work EXCEPT ![t] = new]
        BY <1>12, <2>2 DEF Downloaded
      <3>3. pc' \in [Tasks -> Outside \cup Awaiting \cup Committing]
        BY <1>12, <1>typed, <2>2 DEF Downloaded, Goto, Committing
      <3>4. QED
        BY <1>12, <1>typed, <2>2, <3>1, <3>2, <3>3 DEF Downloaded, TypeOK, disk
    <2>3. QED
      BY <2>1, <2>2
  <1>failed. ASSUME NEW t \in Tasks, NEW retryable \in BOOLEAN, AttemptFailed(t, retryable)
             PROVE  /\ db' \in Row /\ refreshing' \in BOOLEAN
                    /\ lock' \in Tasks \cup {None} /\ loop' \in Tasks \cup {None}
                    /\ queue' \in Seq(Tasks) /\ nested' \in [Tasks -> BOOLEAN]
                    /\ pc' \in [Tasks -> Outside \cup Awaiting \cup Committing]
                    /\ work' \in [Tasks -> Locals]
    <2>1. db' \in Row
      <3>1. ((work[t].source = "protocol") \/ db.protocolError) \in BOOLEAN
        OBVIOUS
      <3>2. QED
        BY <1>failed, <1>typed, <3>1 DEF AttemptFailed, Row
    <2>2. CASE ~IsRefresh(t)
      BY <1>failed, <1>typed, <2>1, <2>2, ReturnType DEF AttemptFailed, Release
    <2>3. CASE IsRefresh(t)
      <3>1. TryNext(t, retryable) /\ UNCHANGED <<refreshing, lock, queue, nested>>
        BY <1>failed, <2>3 DEF AttemptFailed
      <3>2. /\ [work[t] EXCEPT !.attempt = 1] \in Locals
            /\ [work[t] EXCEPT !.source = "fallback", !.payload = None] \in Locals
            /\ [work[t] EXCEPT !.payload = None] \in Locals
        <4>1. work[t] \in Locals /\ 1 \in 0..1 /\ None \in Payloads \cup {None}
          BY <1>typed
        <4>2. [work[t] EXCEPT !.attempt = 1] \in Locals
          BY <4>1 DEF Locals
        <4>3. [work[t] EXCEPT !.source = "fallback", !.payload = None] \in Locals
          BY <4>1, Zenon DEF Locals
        <4>4. [work[t] EXCEPT !.payload = None] \in Locals
          BY <4>1 DEF Locals
        <4>5. QED
          BY <4>2, <4>3, <4>4
      <3>3. work' \in [Tasks -> Locals]
        <4>1. \/ work' = [work EXCEPT ![t] = [work[t] EXCEPT !.attempt = 1]]
              \/ work' = [work EXCEPT ![t] = [work[t] EXCEPT !.source = "fallback",
                                                           !.payload = None]]
              \/ work' = [work EXCEPT ![t] = [work[t] EXCEPT !.payload = None]]
          BY <3>1, Zenon DEF TryNext
        <4>2. \A new \in Locals : [work EXCEPT ![t] = new] \in [Tasks -> Locals]
          BY <1>typed
        <4>3. QED
          BY <3>2, <4>1, <4>2, Zenon
      <3>4. pc' \in [Tasks -> Outside \cup Awaiting \cup Committing]
        BY <1>typed, <3>1 DEF TryNext, Goto, Awaiting, Committing
      <3>5. loop' \in Tasks \cup {None}
        BY <3>1 DEF TryNext
      <3>6. QED
        BY <1>typed, <2>1, <3>1, <3>3, <3>4, <3>5
    <2>4. QED
      BY <2>2, <2>3
  <1>13. ASSUME NEW t \in Tasks, NEW retryable \in BOOLEAN, UpstreamFailed(t, retryable)
         PROVE  TypeOK'
    BY <1>13, <1>typed, <1>failed DEF UpstreamFailed, TypeOK
  <1>14. ASSUME NEW t \in Tasks, Publish(t) PROVE TypeOK'
    <2>1. raw' \in SUBSET Payloads
      BY <1>14, <1>typed DEF Publish, CommitInOrder
    <2>2. pc' \in [Tasks -> Outside \cup Awaiting \cup Committing]
      BY <1>14, <1>typed DEF Publish, Goto, Committing
    <2>3. QED
      BY <1>14, <1>typed, <2>1, <2>2 DEF Publish, TypeOK
  <1>15. ASSUME NEW t \in Tasks, PublishFailed(t) PROVE TypeOK'
    <2>1. raw' \in SUBSET Payloads
      BY <1>15, <1>typed DEF PublishFailed, CommitInOrder
    <2>2. QED
      BY <1>15, <1>typed, <1>failed, <2>1 DEF PublishFailed, TypeOK
  <1>16. ASSUME NEW t \in Tasks, Record(t) PROVE TypeOK'
    <2>1. work[t].payload \in Payloads
      BY <1>16 DEF Record, CommitInOrder
    <2>2. db' \in Row
      <3>1. /\ 0 \in 0..FailureCap /\ 0 \in 0..AgeCap
            /\ work[t].age \in 0..AgeCap
            /\ work[t].payload \in Payloads \cup {None}
        BY <1>typed, <2>1, BoundsAssumption DEF Locals
      <3>2. QED
        BY <1>16, <1>typed, <3>1, Zenon DEF Record, Row
    <2>3. work' \in [Tasks -> Locals]
      <3> DEFINE new == [work[t] EXCEPT !.previous = db.digest, !.updated = TRUE]
      <3>1. new \in Locals
        BY <1>typed, ZenonT(60) DEF Locals, Row
      <3>2. work' = [work EXCEPT ![t] = new]
        BY <1>16 DEF Record
      <3>3. QED
        BY <1>typed, <3>1, <3>2
    <2>4. pc' \in [Tasks -> Outside \cup Awaiting \cup Committing]
      BY <1>16, <1>typed DEF Record, Goto, Committing
    <2>5. QED
      BY <1>16, <1>typed, <2>2, <2>3, <2>4 DEF Record, TypeOK
  <1>17. ASSUME NEW t \in Tasks, Prune(t) PROVE TypeOK'
    <2>1. raw' \in SUBSET Payloads
      BY <1>17, <1>typed DEF Prune, Pruned
    <2>2. pc' \in [Tasks -> Outside \cup Awaiting \cup Committing]
      BY <1>17, <1>typed DEF Prune, Goto, Committing
    <2>3. QED
      BY <1>17, <1>typed, <2>1, <2>2 DEF Prune, TypeOK
  <1>18. ASSUME NEW t \in Tasks, ClearConverted(t) PROVE TypeOK'
    <2>1. template' \in Contents \cup {None}
      BY <1>18, <1>typed DEF ClearConverted, Cleared
    <2>2. pc' \in [Tasks -> Outside \cup Awaiting \cup Committing]
      BY <1>18, <1>typed DEF ClearConverted, Goto, Committing
    <2>3. QED
      BY <1>18, <1>typed, <2>1, <2>2 DEF ClearConverted, TypeOK
  <1>19. ASSUME NEW t \in Tasks, PutCredentials(t) PROVE TypeOK'
    <2>1. creds' \in Credentials
      BY <1>19, <1>typed DEF PutCredentials, Locals
    <2>2. pc' \in [Tasks -> Outside \cup Awaiting \cup Committing]
      BY <1>19, <1>typed DEF PutCredentials, Goto, Committing
    <2>3. QED
      BY <1>19, <1>typed, <2>1, <2>2 DEF PutCredentials, TypeOK
  <1>20. ASSUME NEW t \in Tasks, RecordFailure(t) PROVE TypeOK'
    <2>1. db' \in Row
      BY <1>20, <1>typed, AgeTypes DEF RecordFailure, Row, Locals
    <2>2. pc' \in [Tasks -> Outside \cup Awaiting \cup Committing]
      BY <1>20, <1>typed DEF RecordFailure, Goto, Committing
    <2>3. QED
      BY <1>20, <1>typed, <2>1, <2>2 DEF RecordFailure, TypeOK
  <1>21. ASSUME NEW t \in Tasks, DatabaseError(t) PROVE TypeOK'
    <2>1. db' \in Row
      BY <1>21, <1>typed DEF DatabaseError, Row
    <2>2. QED
      BY <1>21, <1>typed, <2>1, ReturnType DEF DatabaseError, Release, TypeOK
  <1>22. ASSUME NEW t \in Tasks, Settle(t) PROVE TypeOK'
    <2>1. template' \in Contents \cup {None}
      BY <1>22, <1>typed DEF Settle, Cleared
    <2>2. CASE Announces(t)
      <3>1. pc' \in [Tasks -> Outside \cup Awaiting \cup Committing]
        BY <1>22, <1>typed, <2>2 DEF Settle, Goto, Outside
      <3>2. QED
        BY <1>22, <1>typed, <2>1, <2>2, <3>1 DEF Settle, Release, TypeOK
    <2>3. CASE ~Announces(t)
      BY <1>22, <1>typed, <2>1, <2>3, ReturnType DEF Settle, Release, TypeOK
    <2>4. QED
      BY <2>2, <2>3
  <1>23. ASSUME NEW t \in Tasks, AutoRefresh(t) PROVE TypeOK'
    <2>1. nested' \in [Tasks -> BOOLEAN]
      BY <1>23, <1>typed DEF AutoRefresh
    <2>2. QED
      BY <1>23, <1>typed, <2>1, EnqueueType, NamesAreDistinct
      DEF AutoRefresh, AllKinds, TypeOK, disk
  <1>24. ASSUME NEW t \in Tasks, EndHook(t) PROVE TypeOK'
    BY <1>24, <1>typed, ReturnType DEF EndHook, TypeOK, disk
  <1>25. ASSUME NEW content \in Contents, ConverterWrites(content) PROVE TypeOK'
    BY <1>25, <1>typed DEF ConverterWrites, TypeOK, volatile
  <1>26. CASE Tick
    <2>1. db' \in Row
      BY <1>26, <1>typed, AgeTypes DEF Tick, Row
    <2>2. \A t \in Tasks : [work[t] EXCEPT !.age = Older(work[t].age)] \in Locals
      BY <1>typed, AgeTypes, ZenonT(60) DEF Locals
    <2>3. work' \in [Tasks -> Locals]
      <3>1. \A t \in Tasks : (IF IsRefresh(t) /\ lock = t
                             THEN [work[t] EXCEPT !.age = Older(work[t].age)]
                             ELSE work[t]) \in Locals
        BY <1>typed, <2>2
      <3>2. QED
        BY <1>26, <3>1 DEF Tick
    <2>4. QED
      BY <1>26, <1>typed, <2>1, <2>3 DEF Tick, TypeOK
  <1>27. CASE Crash
    <2>1. /\ pc' \in [Tasks -> Outside \cup Awaiting \cup Committing]
          /\ nested' \in [Tasks -> BOOLEAN]
          /\ work' \in [Tasks -> Locals]
      BY <1>27, BlankType DEF Crash, Outside
    <2>2. queue' \in Seq(Tasks)
      BY <1>27 DEF Crash
    <2>3. lock' = None /\ loop' = None /\ refreshing' \in BOOLEAN
      BY <1>27, Zenon DEF Crash
    <2>4. /\ db' = db /\ raw' = raw /\ template' = template /\ creds' = creds
          /\ backup' = backup /\ threshold' = threshold
      BY <1>27 DEF Crash, disk
    <2>5. QED
      BY <1>typed, <2>1, <2>2, <2>3, <2>4 DEF TypeOK
  <1>28. CASE UNCHANGED vars
    BY <1>28 DEF vars, disk, volatile, TypeOK
  <1>29. QED
    BY <1>1, <1>2, <1>3, <1>4, <1>5, <1>6, <1>7, <1>8, <1>9, <1>10, <1>11, <1>12,
       <1>13, <1>14, <1>15, <1>16, <1>17, <1>18, <1>19, <1>20, <1>21, <1>22, <1>23,
       <1>24, <1>25, <1>26, <1>27, <1>28
    DEF Next, Step, Call, Proceed

-----------------------------------------------------------------------------
\* The inductive invariant: that the recorded digest is readable rests on the
\* order of a commit, and that order on the exclusion of commits by the lock.
Inv ==
  /\ TypeOK
  /\ CommitInOrder
  /\ FlagTracksLock
  /\ CurrentReadable

\* Steps in which a task lets go of the lock.
LEMMA Releasing ==
  ASSUME Inv, NEW t \in Tasks, lock = t, loop \in {t, None}, Release(t),
         NEW step \in Outside, pc' = [pc EXCEPT ![t] = step]
  PROVE  CommitInOrder' /\ FlagTracksLock'
  <1>1. \A u \in Tasks : pc'[u] \notin Awaiting \cup Committing
    BY DEF Inv, TypeOK, FlagTracksLock, Awaiting, Committing, Outside
  <1>2. lock' = None /\ loop' = None /\ refreshing' = FALSE
    BY DEF Release
  <1>3. CommitInOrder'
    BY <1>1, <1>2, NamesAreDistinct DEF CommitInOrder, Committing
  <1>4. FlagTracksLock'
    BY <1>1, <1>2, NamesAreDistinct DEF FlagTracksLock
  <1>5. QED
    BY <1>3, <1>4

\* Steps in which a task that has the lock keeps it.
LEMMA Holding ==
  ASSUME Inv, NEW t \in Tasks, lock = t, UNCHANGED <<lock, refreshing>>,
         NEW step \in Awaiting \cup Committing, pc' = [pc EXCEPT ![t] = step],
         loop' = IF step \in Committing THEN t ELSE None,
         NEW new, work' = [work EXCEPT ![t] = new], new.kind = work[t].kind
  PROVE  /\ FlagTracksLock'
         /\ \A u \in Tasks : pc'[u] \in Committing <=> loop' = u
         /\ \A u \in Tasks : u # t => pc'[u] \notin Awaiting \cup Committing
         /\ pc'[t] = step /\ work'[t] = new
  <1>1. pc'[t] = step /\ work'[t] = new
    BY DEF Inv, TypeOK
  <1>2. \A u \in Tasks : u # t => pc'[u] = pc[u] /\ work'[u] = work[u]
    BY DEF Inv, TypeOK
  <1>3. \A u \in Tasks : u # t => pc'[u] \notin Awaiting \cup Committing
    BY <1>2 DEF Inv, FlagTracksLock
  <1>4. \A u \in Tasks : pc'[u] \in Committing <=> loop' = u
    BY <1>1, <1>3, NamesAreDistinct
  <1>5. \A u \in Tasks : pc'[u] \in Awaiting \cup Committing <=> lock' = u
    BY <1>1, <1>3
  <1>6. IsRefresh(t)' <=> IsRefresh(t)
    BY <1>1 DEF IsRefresh
  <1>7. FlagTracksLock'
    BY <1>5, <1>6, Zenon DEF Inv, FlagTracksLock
  <1>8. QED
    BY <1>1, <1>3, <1>4, <1>7

\* Steps of a task that neither has nor takes the lock.
LEMMA StayingOutside ==
  ASSUME Inv, NEW t \in Tasks, pc[t] \in Outside, loop = None,
         UNCHANGED <<lock, refreshing, loop>>,
         NEW step \in Outside, pc' = [pc EXCEPT ![t] = step],
         NEW new, work' = [work EXCEPT ![t] = new]
  PROVE  CommitInOrder' /\ FlagTracksLock'
  <1>1. lock # t
    BY DEF Inv, FlagTracksLock, Outside, Awaiting, Committing
  <1>2. \A u \in Tasks : pc'[u] = (IF u = t THEN step ELSE pc[u])
    BY DEF Inv, TypeOK
  <1>3. \A u \in Tasks : pc'[u] \notin Committing
    BY <1>2, NamesAreDistinct DEF Inv, CommitInOrder, Outside, Committing
  <1>4. CommitInOrder'
    BY <1>3, NamesAreDistinct DEF CommitInOrder, Committing
  <1>5. \A u \in Tasks : pc'[u] \in Awaiting \cup Committing <=> lock' = u
    BY <1>1, <1>2 DEF Inv, FlagTracksLock, Outside, Awaiting, Committing
  <1>6. \A u \in Tasks : u # t => work'[u] = work[u]
    BY DEF Inv, TypeOK
  <1>7. FlagTracksLock'
    BY <1>1, <1>5, <1>6 DEF Inv, FlagTracksLock, IsRefresh
  <1>8. QED
    BY <1>4, <1>7

LEMMA InvInit == Init => Inv
  <1> SUFFICES ASSUME Init PROVE Inv
    OBVIOUS
  <1>1. TypeOK
    BY TypingInit
  <1>2. \A t \in Tasks : pc[t] = "idle"
    BY DEF Init
  <1>3. CommitInOrder
    BY <1>2, NamesAreDistinct DEF Init, CommitInOrder, Committing
  <1>4. FlagTracksLock
    BY <1>2, NamesAreDistinct DEF Init, FlagTracksLock, Awaiting, Committing
  <1>5. CurrentReadable
    BY DEF Init, CurrentReadable
  <1>6. QED
    BY <1>1, <1>3, <1>4, <1>5 DEF Inv

\* The conjuncts of Inv besides TypeOK, preserved by the calls.
LEMMA InvCall ==
  ASSUME Inv, NEW t \in Tasks, Call(t)
  PROVE  CommitInOrder' /\ FlagTracksLock' /\ CurrentReadable'
  <1>1. pc[t] = "idle" /\ loop = None
    BY DEF Call, CallRefresh, CallRefreshIfStale, CallTestProtocol, CallUpdateCredentials,
           CallRunHealth, SaveBackupNodes, Idle
  <1>2. UNCHANGED <<lock, refreshing, loop>> /\ db' = db /\ raw' = raw
    BY DEF Call, CallRefresh, CallRefreshIfStale, CallTestProtocol, CallUpdateCredentials,
           CallRunHealth, SaveBackupNodes, Enqueue, disk
  <1>3. CurrentReadable'
    BY <1>2 DEF Inv, CurrentReadable
  <1>4. \E step \in Outside : pc' = [pc EXCEPT ![t] = step]
    <2>1. pc = [pc EXCEPT ![t] = "idle"]
      BY <1>1 DEF Inv, TypeOK
    <2>2. {"idle", "waiting", "hook"} \subseteq Outside
      BY DEF Outside
    <2>3. \/ pc' = pc
          \/ pc' = [pc EXCEPT ![t] = "waiting"]
          \/ pc' = [pc EXCEPT ![t] = "hook"]
      BY DEF Call, CallRefresh, CallRefreshIfStale, CallTestProtocol,
             CallUpdateCredentials, CallRunHealth, SaveBackupNodes, Enqueue, Goto
    <2>4. QED
      BY <2>1, <2>2, <2>3
  <1>5. \E new : work' = [work EXCEPT ![t] = new]
    <2>1. work = [work EXCEPT ![t] = work[t]]
      BY DEF Inv, TypeOK
    <2>2. QED
      BY <2>1 DEF Call, CallRefresh, CallRefreshIfStale, CallTestProtocol,
             CallUpdateCredentials, CallRunHealth, SaveBackupNodes, Enqueue
  <1>6. pc[t] \in Outside
    BY <1>1 DEF Outside
  <1>7. QED
    BY <1>1, <1>2, <1>3, <1>4, <1>5, <1>6, StayingOutside

\* What the failure of a source does, inside and at the end of a commit.
LEMMA InvFailed ==
  ASSUME Inv, NEW t \in Tasks, NEW retryable \in BOOLEAN, AttemptFailed(t, retryable),
         lock = t, loop \in {t, None}, raw \subseteq raw'
  PROVE  CommitInOrder' /\ FlagTracksLock' /\ CurrentReadable'
  <1>1. db'.digest = db.digest
    BY DEF AttemptFailed, Inv, TypeOK, Row
  <1>2. CurrentReadable'
    BY <1>1 DEF Inv, CurrentReadable
  <1>3. CASE ~IsRefresh(t)
    <2>1. Release(t) /\ \E step \in Outside : pc' = [pc EXCEPT ![t] = step]
      BY <1>3 DEF AttemptFailed, Return, Goto, Outside
    <2>2. QED
      BY <1>2, <2>1, Releasing
  <1>4. CASE IsRefresh(t)
    <2>1. TryNext(t, retryable) /\ UNCHANGED <<refreshing, lock, queue, nested>>
      BY <1>4 DEF AttemptFailed
    <2>2. work[t] \in Locals
      BY DEF Inv, TypeOK
    <2>3. PICK step \in {"resolving", "downloading", "fail"} :
            /\ pc' = [pc EXCEPT ![t] = step]
            /\ loop' = IF step \in Committing THEN t ELSE None
      BY <2>1 DEF TryNext, Goto, Committing
    <2>4. PICK new : work' = [work EXCEPT ![t] = new] /\ new.kind = work[t].kind
      <3>1. /\ [work[t] EXCEPT !.attempt = 1].kind = work[t].kind
            /\ [work[t] EXCEPT !.source = "fallback", !.payload = None].kind = work[t].kind
            /\ [work[t] EXCEPT !.payload = None].kind = work[t].kind
        BY <2>2 DEF Locals
      <3>2. \/ work' = [work EXCEPT ![t] = [work[t] EXCEPT !.attempt = 1]]
            \/ work' = [work EXCEPT ![t] = [work[t] EXCEPT !.source = "fallback",
                                                         !.payload = None]]
            \/ work' = [work EXCEPT ![t] = [work[t] EXCEPT !.payload = None]]
        BY <2>1, Zenon DEF TryNext
      <3>3. QED
        BY <3>1, <3>2
    <2>5. step \in Awaiting \cup Committing
      BY DEF Awaiting, Committing
    <2>6. /\ FlagTracksLock'
          /\ \A u \in Tasks : pc'[u] \in Committing <=> loop' = u
          /\ \A u \in Tasks : u # t => pc'[u] \notin Awaiting \cup Committing
          /\ pc'[t] = step
      BY <2>1, <2>3, <2>4, <2>5, Holding
    <2>7. CommitInOrder'
      BY <2>6 DEF CommitInOrder, Committing
    <2>8. QED
      BY <1>2, <2>6, <2>7
  <1>5. QED
    BY <1>3, <1>4

\* The same, preserved by what a task does by itself.
LEMMA InvProceed ==
  ASSUME Inv, NEW t \in Tasks, Proceed(t)
  PROVE  CommitInOrder' /\ FlagTracksLock' /\ CurrentReadable'
  <1> DEFINE Goal == CommitInOrder' /\ FlagTracksLock' /\ CurrentReadable'
  <1>same. ASSUME raw \subseteq raw', db'.digest = db.digest PROVE CurrentReadable'
    BY <1>same DEF Inv, CurrentReadable
  <1>digest. db \in Row
    BY DEF Inv, TypeOK
  <1>locals. work[t] \in Locals
    BY DEF Inv, TypeOK
  <1>held. pc[t] \in Awaiting \cup Committing <=> lock = t
    BY DEF Inv, FlagTracksLock
  <1>inside. pc[t] \in Committing <=> loop = t
    BY DEF Inv, CommitInOrder
  <1>1. CASE StartAttempt(t)
    <2>1. lock = None /\ loop = None /\ lock' = t /\ loop' = None /\ refreshing' = TRUE
      BY <1>1 DEF StartAttempt, Granted
    <2>2. PICK step \in Awaiting : pc' = [pc EXCEPT ![t] = step]
      BY <1>1 DEF StartAttempt, Goto, Awaiting
    <2>3. \A u \in Tasks : u # t => pc'[u] \notin Awaiting \cup Committing
      BY <2>1, <2>2, NamesAreDistinct DEF Inv, TypeOK, FlagTracksLock
    <2>4. pc'[t] = step
      BY <2>2 DEF Inv, TypeOK
    <2>5. IsRefresh(t)'
      <3> DEFINE new == [work[t] EXCEPT !.was = IsActive, !.age = 0, !.source = FirstSource]
      <3>1. work' = [work EXCEPT ![t] = new]
        BY <1>1 DEF StartAttempt
      <3>2. new.kind = work[t].kind
        BY <1>locals DEF Locals
      <3>3. work'[t].kind = work[t].kind
        BY <3>1, <3>2 DEF Inv, TypeOK
      <3>4. QED
        BY <1>1, <3>3 DEF StartAttempt, IsRefresh
    <2>6. FlagTracksLock'
      BY <2>1, <2>3, <2>4, <2>5 DEF FlagTracksLock
    <2>7. CommitInOrder'
      BY <2>1, <2>3, <2>4, NamesAreDistinct DEF CommitInOrder, Awaiting, Committing
    <2>8. QED
      BY <1>1, <1>same, <2>6, <2>7 DEF StartAttempt, disk
  <1>2. CASE NoLongerDue(t)
    <2>1. \E step \in Outside : pc' = [pc EXCEPT ![t] = step]
      BY <1>2 DEF NoLongerDue, Return, Goto, Outside
    <2>2. pc[t] \in Outside
      BY <1>2 DEF NoLongerDue, Granted, Outside
    <2>3. loop = None /\ UNCHANGED <<lock, refreshing, loop>> /\ UNCHANGED disk
      BY <1>2 DEF NoLongerDue, Granted
    <2>4. \E new : work' = [work EXCEPT ![t] = new]
      BY <1>2 DEF NoLongerDue, Return
    <2>5. QED
      BY <1>same, <2>1, <2>2, <2>3, <2>4, StayingOutside DEF disk
  <1>3. CASE StartProtocolCall(t)
    <2>1. /\ lock = None /\ loop = None /\ UNCHANGED <<refreshing, loop>> /\ UNCHANGED disk
          /\ ~IsRefresh(t) /\ pc[t] \in Outside
      BY <1>3 DEF StartProtocolCall, Granted, IsRefresh, Outside
    <2>2. CurrentReadable'
      BY <1>same, <2>1 DEF disk
    <2>3. CASE "protocol" \in Sources
      <3>1. lock' = t /\ pc' = [pc EXCEPT ![t] = "resolving"]
        BY <1>3, <2>3 DEF StartProtocolCall, Goto
      <3>2. \A u \in Tasks : u # t => pc'[u] \notin Awaiting \cup Committing
        BY <2>1, <3>1, NamesAreDistinct DEF Inv, TypeOK, FlagTracksLock
      <3>3. pc'[t] = "resolving"
        BY <3>1 DEF Inv, TypeOK
      <3>4. ~IsRefresh(t)'
        <4>1. [work[t] EXCEPT !.source = "protocol"].kind = work[t].kind
          BY <1>locals DEF Locals
        <4>2. work' = [work EXCEPT ![t] = [work[t] EXCEPT !.source = "protocol"]]
          BY <1>3, <2>3 DEF StartProtocolCall
        <4>3. work'[t].kind = work[t].kind
          BY <4>1, <4>2 DEF Inv, TypeOK
        <4>4. QED
          BY <2>1, <4>3 DEF IsRefresh
      <3>5. ~refreshing
        BY <2>1, NamesAreDistinct DEF Inv, FlagTracksLock
      <3>6. FlagTracksLock'
        BY <2>1, <3>1, <3>2, <3>3, <3>4, <3>5 DEF FlagTracksLock, Awaiting
      <3>7. CommitInOrder'
        BY <2>1, <3>2, <3>3, NamesAreDistinct DEF CommitInOrder, Committing
      <3>8. QED
        BY <2>2, <3>6, <3>7
    <2>4. CASE "protocol" \notin Sources
      <3>1. UNCHANGED lock /\ \E step \in Outside : pc' = [pc EXCEPT ![t] = step]
        BY <1>3, <2>4 DEF StartProtocolCall, Return, Goto, Outside
      <3>2. \E new : work' = [work EXCEPT ![t] = new]
        BY <1>3, <2>4 DEF StartProtocolCall, Return
      <3>3. QED
        BY <2>1, <2>2, <3>1, <3>2, StayingOutside
    <2>5. QED
      BY <2>3, <2>4
  <1>4. CASE Resolved(t)
    <2>1. lock = t /\ loop = None
      BY <1>4, <1>held DEF Resolved, Awaiting
    <2>2. db'.digest = db.digest /\ raw' = raw
      BY <1>4, <1>digest DEF Resolved, Row
    <2>3. CASE work[t].kind = "test"
      <3>1. Release(t) /\ \E step \in Outside : pc' = [pc EXCEPT ![t] = step]
        BY <1>4, <2>3 DEF Resolved, Return, Goto, Outside
      <3>2. QED
        BY <1>same, <2>1, <2>2, <3>1, Releasing
    <2>4. CASE work[t].kind # "test"
      <3>1. /\ pc' = [pc EXCEPT ![t] = "downloading"]
            /\ UNCHANGED <<refreshing, lock, loop>> /\ work' = work
        BY <1>4, <2>4 DEF Resolved, Goto
      <3>2. work' = [work EXCEPT ![t] = work[t]] /\ work[t].kind = work[t].kind
        BY <3>1 DEF Inv, TypeOK
      <3>3. loop' = IF "downloading" \in Committing THEN t ELSE None
        BY <2>1, <3>1 DEF Committing
      <3>4. "downloading" \in Awaiting \cup Committing
        BY DEF Awaiting
      <3>5. /\ FlagTracksLock'
            /\ \A u \in Tasks : pc'[u] \in Committing <=> loop' = u
            /\ \A u \in Tasks : u # t => pc'[u] \notin Awaiting \cup Committing
            /\ pc'[t] = "downloading"
        BY <2>1, <3>1, <3>2, <3>3, <3>4, Holding
      <3>6. CommitInOrder'
        BY <3>5 DEF CommitInOrder, Committing
      <3>7. QED
        BY <1>same, <2>2, <3>5, <3>6
    <2>5. QED
      BY <2>3, <2>4
  <1>5. ASSUME NEW p \in Payloads, Downloaded(t, p) PROVE Goal
    <2>1. lock = t /\ loop = None /\ db' = db /\ raw' = raw
      BY <1>5, <1>held DEF Downloaded, Awaiting, disk
    <2>2. CASE work[t].kind = "credentials" /\ ~SecretsAvailable
      <3>1. Release(t) /\ \E step \in Outside : pc' = [pc EXCEPT ![t] = step]
        BY <1>5, <2>2 DEF Downloaded, Return, Goto, Outside
      <3>2. QED
        BY <1>same, <2>1, <3>1, Releasing
    <2>3. CASE ~(work[t].kind = "credentials" /\ ~SecretsAvailable)
      <3> DEFINE new == [work[t] EXCEPT !.payload = p]
      <3>1. /\ loop' = t /\ pc' = [pc EXCEPT ![t] = "publish"]
            /\ work' = [work EXCEPT ![t] = new] /\ UNCHANGED <<refreshing, lock>>
        BY <1>5, <2>3 DEF Downloaded, Goto
      <3>2. new.kind = work[t].kind /\ new.payload = p
        BY <1>locals DEF Locals
      <3>3. "publish" \in Committing
        BY DEF Committing
      <3>4. /\ FlagTracksLock'
            /\ \A u \in Tasks : pc'[u] \in Committing <=> loop' = u
            /\ \A u \in Tasks : u # t => pc'[u] \notin Awaiting \cup Committing
            /\ pc'[t] = "publish" /\ work'[t] = new
        BY <2>1, <3>1, <3>2, <3>3, Holding
      <3>5. CommitInOrder'
        BY <3>2, <3>4 DEF CommitInOrder, Committing
      <3>6. QED
        BY <1>same, <2>1, <3>4, <3>5
    <2>4. QED
      BY <2>2, <2>3
  <1>6. ASSUME NEW retryable \in BOOLEAN, UpstreamFailed(t, retryable) PROVE Goal
    <2>1. AttemptFailed(t, retryable) /\ lock = t /\ loop = None /\ raw' = raw
      BY <1>6, <1>held DEF UpstreamFailed
    <2>2. QED
      BY <2>1, InvFailed
  <1>committing. ASSUME pc[t] \in Committing PROVE lock = t /\ loop = t
    BY <1>committing, <1>held, <1>inside
  <1>next. ASSUME NEW step \in Committing, pc[t] \in Committing,
                  pc' = [pc EXCEPT ![t] = step],
                  UNCHANGED <<refreshing, lock, loop>>,
                  NEW new, work' = [work EXCEPT ![t] = new], new.kind = work[t].kind,
                  step # "publish",
                  step = "record" => new.payload \in raw' /\ new.payload \in Payloads,
                  step = "prune" => new.payload \in Payloads,
                  step \in {"prune", "clear", "put"} =>
                    new.updated /\ new.payload = db'.digest
           PROVE  CommitInOrder' /\ FlagTracksLock'
    <2>1. lock = t /\ loop' = (IF step \in Committing THEN t ELSE None)
      BY <1>next, <1>committing
    <2>2. /\ FlagTracksLock'
          /\ \A u \in Tasks : pc'[u] \in Committing <=> loop' = u
          /\ \A u \in Tasks : u # t => pc'[u] \notin Awaiting \cup Committing
          /\ pc'[t] = step /\ work'[t] = new
      BY <1>next, <2>1, Holding
    <2>3. CommitInOrder'
      BY <1>next, <2>2 DEF CommitInOrder, Committing
    <2>4. QED
      BY <2>2, <2>3
  <1>unworked. work = [work EXCEPT ![t] = work[t]]
    BY DEF Inv, TypeOK
  <1>7. CASE Publish(t)
    <2>1. pc[t] = "publish" /\ pc[t] \in Committing /\ "record" \in Committing
      BY <1>7 DEF Publish, Committing
    <2>2. work[t].payload \in Payloads /\ work[t].payload \in raw'
      BY <1>7, <2>1 DEF Publish, Inv, CommitInOrder
    <2>3. CommitInOrder' /\ FlagTracksLock'
      BY <1>7, <1>next, <1>unworked, <2>1, <2>2 DEF Publish, Goto
    <2>4. QED
      BY <1>7, <1>same, <2>3 DEF Publish
  <1>8. CASE PublishFailed(t)
    <2>1. pc[t] \in Committing
      BY <1>8 DEF PublishFailed, Committing
    <2>2. AttemptFailed(t, FALSE) /\ raw \subseteq raw'
      BY <1>8 DEF PublishFailed
    <2>3. QED
      BY <1>committing, <2>1, <2>2, InvFailed
  <1>9. CASE Record(t)
    <2> DEFINE new == [work[t] EXCEPT !.previous = db.digest, !.updated = TRUE]
    <2>1. pc[t] = "record" /\ pc[t] \in Committing /\ "prune" \in Committing
      BY <1>9 DEF Record, Committing
    <2>2. work[t].payload \in Payloads /\ work[t].payload \in raw
      BY <2>1 DEF Inv, CommitInOrder
    <2>3. db'.digest = work[t].payload
      BY <1>9, <1>digest DEF Record, Row
    <2>4. new.kind = work[t].kind /\ new.payload = work[t].payload /\ new.updated
      BY <1>locals DEF Locals
    <2>5. work' = [work EXCEPT ![t] = new]
      BY <1>9 DEF Record
    <2>6. CommitInOrder' /\ FlagTracksLock'
      BY <1>9, <1>next, <2>1, <2>2, <2>3, <2>4, <2>5 DEF Record, Goto
    <2>7. CurrentReadable'
      BY <1>9, <2>2, <2>3 DEF Record, CurrentReadable
    <2>8. QED
      BY <2>6, <2>7
  <1>10. CASE Prune(t)
    <2>1. pc[t] = "prune" /\ pc[t] \in Committing /\ "clear" \in Committing
      BY <1>10 DEF Prune, Committing
    <2>2. work[t].payload = db.digest /\ work[t].updated
      BY <2>1 DEF Inv, CommitInOrder
    <2>3. db.digest \in raw => db.digest \in raw'
      BY <1>10, <2>2 DEF Prune, Pruned
    <2>4. CurrentReadable'
      BY <1>10, <2>3 DEF Prune, Inv, CurrentReadable
    <2>5. CommitInOrder' /\ FlagTracksLock'
      BY <1>10, <1>next, <1>unworked, <2>1, <2>2 DEF Prune, Goto
    <2>6. QED
      BY <2>4, <2>5
  <1>11. CASE ClearConverted(t)
    <2>1. PICK step \in {"put", "settle"} : pc' = [pc EXCEPT ![t] = step]
      BY <1>11 DEF ClearConverted, Goto
    <2>2. pc[t] \in Committing /\ step \in Committing
      BY <1>11 DEF ClearConverted, Committing
    <2>3. work[t].payload = db.digest /\ work[t].updated
      BY <1>11 DEF ClearConverted, Inv, CommitInOrder
    <2>4. CommitInOrder' /\ FlagTracksLock'
      BY <1>11, <1>next, <1>unworked, <2>1, <2>2, <2>3 DEF ClearConverted
    <2>5. QED
      BY <1>11, <1>same, <2>4 DEF ClearConverted
  <1>12. CASE PutCredentials(t)
    <2>1. pc[t] \in Committing /\ "settle" \in Committing
      BY <1>12 DEF PutCredentials, Committing
    <2>2. CommitInOrder' /\ FlagTracksLock'
      BY <1>12, <1>next, <1>unworked, <2>1 DEF PutCredentials, Goto
    <2>3. QED
      BY <1>12, <1>same, <2>2 DEF PutCredentials
  <1>13. CASE RecordFailure(t)
    <2>1. pc[t] \in Committing /\ "settle" \in Committing
      BY <1>13 DEF RecordFailure, Committing
    <2>2. CommitInOrder' /\ FlagTracksLock'
      BY <1>13, <1>next, <1>unworked, <2>1 DEF RecordFailure, Goto
    <2>3. db'.digest = db.digest
      BY <1>13, <1>digest DEF RecordFailure, Row
    <2>4. QED
      BY <1>13, <1>same, <2>2, <2>3 DEF RecordFailure
  <1>14. CASE DatabaseError(t)
    <2>1. lock = t /\ loop \in {t, None}
      BY <1>14, <1>held, <1>inside DEF DatabaseError, Queries, Awaiting, Committing
    <2>2. db'.digest = db.digest /\ raw' = raw
      BY <1>14, <1>digest DEF DatabaseError, Row
    <2>3. Release(t) /\ \E step \in Outside : pc' = [pc EXCEPT ![t] = step]
      BY <1>14 DEF DatabaseError, Return, Goto, Outside
    <2>4. QED
      BY <1>same, <2>1, <2>2, <2>3, Releasing
  <1>15. CASE Settle(t)
    <2>1. lock = t /\ loop = t
      BY <1>15, <1>committing DEF Settle, Committing
    <2>2. Release(t) /\ \E step \in Outside : pc' = [pc EXCEPT ![t] = step]
      BY <1>15 DEF Settle, Return, Goto, Outside
    <2>3. db' = db /\ raw' = raw
      BY <1>15 DEF Settle
    <2>4. QED
      BY <1>same, <2>1, <2>2, <2>3, Releasing
  <1>16. CASE AutoRefresh(t)
    <2>1. /\ loop = None /\ UNCHANGED <<refreshing, lock, loop>> /\ UNCHANGED disk
          /\ pc[t] \in Outside
      BY <1>16 DEF AutoRefresh, Enqueue, Outside
    <2>2. "waiting" \in Outside /\ pc' = [pc EXCEPT ![t] = "waiting"]
      BY <1>16 DEF AutoRefresh, Enqueue, Goto, Outside
    <2>3. \E new : work' = [work EXCEPT ![t] = new]
      BY <1>16 DEF AutoRefresh, Enqueue
    <2>4. QED
      BY <1>same, <2>1, <2>2, <2>3, StayingOutside DEF disk
  <1>17. CASE EndHook(t)
    <2>1. /\ loop = None /\ UNCHANGED <<refreshing, lock, loop>> /\ UNCHANGED disk
          /\ pc[t] \in Outside
      BY <1>17 DEF EndHook, Outside
    <2>2. \E step \in Outside : pc' = [pc EXCEPT ![t] = step]
      BY <1>17 DEF EndHook, Return, Goto, Outside
    <2>3. \E new : work' = [work EXCEPT ![t] = new]
      BY <1>17 DEF EndHook, Return
    <2>4. QED
      BY <1>same, <2>1, <2>2, <2>3, StayingOutside DEF disk
  <1>18. QED
    BY <1>1, <1>2, <1>3, <1>4, <1>5, <1>6, <1>7, <1>8, <1>9, <1>10, <1>11, <1>12,
       <1>13, <1>14, <1>15, <1>16, <1>17 DEF Proceed

LEMMA InvStep == Inv /\ [Next]_vars => Inv'
  <1> SUFFICES ASSUME Inv, [Next]_vars PROVE Inv'
    OBVIOUS
  <1>1. TypeOK'
    BY TypingStep DEF Inv
  <1>2. ASSUME NEW t \in Tasks, Call(t) \/ Proceed(t)
        PROVE  CommitInOrder' /\ FlagTracksLock' /\ CurrentReadable'
    BY <1>2, InvCall, InvProceed
  <1>3. ASSUME UNCHANGED <<raw, refreshing, lock, loop, pc>>, db'.digest = db.digest,
               \A t \in Tasks : /\ work'[t].kind = work[t].kind
                                /\ work'[t].payload = work[t].payload
                                /\ work'[t].updated = work[t].updated
        PROVE  CommitInOrder' /\ FlagTracksLock' /\ CurrentReadable'
    BY <1>3 DEF Inv, CommitInOrder, FlagTracksLock, CurrentReadable, IsRefresh
  <1>4. ASSUME NEW n \in Thresholds, SetThreshold(n)
        PROVE  CommitInOrder' /\ FlagTracksLock' /\ CurrentReadable'
    BY <1>3, <1>4 DEF SetThreshold, volatile
  <1>5. ASSUME NEW content \in Contents, ConverterWrites(content)
        PROVE  CommitInOrder' /\ FlagTracksLock' /\ CurrentReadable'
    BY <1>3, <1>5 DEF ConverterWrites, volatile
  <1>6. CASE Tick
    <2>1. db'.digest = db.digest
      BY <1>6 DEF Tick, Inv, TypeOK, Row
    <2>2. \A t \in Tasks : LET new == [work[t] EXCEPT !.age = Older(work[t].age)]
                           IN  /\ new.kind = work[t].kind /\ new.payload = work[t].payload
                               /\ new.updated = work[t].updated
      BY DEF Inv, TypeOK, Locals
    <2>3. \A t \in Tasks : /\ work'[t].kind = work[t].kind
                           /\ work'[t].payload = work[t].payload
                           /\ work'[t].updated = work[t].updated
      BY <1>6, <2>2 DEF Tick
    <2>4. UNCHANGED <<raw, refreshing, lock, loop, pc>>
      BY <1>6 DEF Tick
    <2>5. QED
      BY <1>1, <1>3, <2>1, <2>3, <2>4, Zenon DEF Inv
  <1>7. CASE Crash
    <2>1. /\ lock' = None /\ loop' = None /\ refreshing' = FALSE
          /\ \A t \in Tasks : pc'[t] = "idle"
          /\ db' = db /\ raw' = raw
      BY <1>7 DEF Crash, disk
    <2>2. CommitInOrder'
      BY <2>1, NamesAreDistinct DEF CommitInOrder, Committing
    <2>3. FlagTracksLock'
      BY <2>1, NamesAreDistinct DEF FlagTracksLock, Awaiting, Committing
    <2>4. CurrentReadable'
      BY <2>1 DEF Inv, CurrentReadable
    <2>5. QED
      BY <1>1, <2>2, <2>3, <2>4 DEF Inv
  <1>8. CASE UNCHANGED vars
    <2>1. UNCHANGED <<raw, refreshing, lock, loop, pc>> /\ db' = db /\ work' = work
      BY <1>8, Zenon DEF vars, disk, volatile
    <2>2. QED
      BY <1>1, <1>3, <2>1, Zenon DEF Inv
  <1>9. QED
    BY <1>1, <1>2, <1>4, <1>5, <1>6, <1>7, <1>8 DEF Inv, Next, Step

LEMMA Invariance == Spec => []Inv
  BY InvInit, InvStep, PTL DEF Spec

\* Every reachable state has the types the code's values have: one flag, one
\* lock holder, a FIFO queue of known tasks, counters within their bounds.
THEOREM TypeCorrect == Spec => []TypeOK
  BY Invariance, PTL DEF Inv

\* _commit_success runs for one task at a time and in its order, whoever else
\* calls the refresher and wherever the process dies.
THEOREM CommitsInOrder == Spec => []CommitInOrder
  BY Invariance, PTL DEF Inv

\* The lock is held exactly inside the critical section and _refreshing is set
\* exactly while a refresh holds it, on every path out of _refresh_locked.
THEOREM LockDiscipline == Spec => []FlagTracksLock
  BY Invariance, PTL DEF Inv

\* Once a digest is recorded, its payload is on disk for ever after: read_raw
\* never misses, whatever fails and whenever the process restarts.
THEOREM RecordedIsReadable == Spec => []CurrentReadable
  BY Invariance, PTL DEF Inv

-----------------------------------------------------------------------------
\* The line at the lock.

\* The queue holds exactly those that wait, each once.
InLine(line, waiting) ==
    /\ \A i \in 1..Len(line) : line[i] \in waiting
    /\ \A t \in waiting : \E i \in 1..Len(line) : line[i] = t
    /\ \A i, j \in 1..Len(line) : line[i] = line[j] => i = j

Waiting == {t \in Tasks : pc[t] = "waiting"}

WaitersInLine == InLine(queue, Waiting)

LEMMA JoinLine ==
  ASSUME NEW S, NEW line \in Seq(S), NEW waiting, InLine(line, waiting),
         NEW t \in S, t \notin waiting
  PROVE  InLine(Append(line, t), waiting \cup {t})
  <1> DEFINE new == Append(line, t)
  <1>1. /\ Len(line) \in Nat /\ Len(new) = Len(line) + 1
        /\ \A i \in 1..Len(line) : new[i] = line[i]
        /\ new[Len(line) + 1] = t
    OBVIOUS
  <1> HIDE DEF new
  <1>2. \A i \in 1..Len(new) : i \in 1..Len(line) \/ i = Len(line) + 1
    BY <1>1
  <1>3. \A i \in 1..Len(line) : i \in 1..Len(new)
    BY <1>1
  <1>4. Len(line) + 1 \in 1..Len(new)
    BY <1>1
  <1>5. \A i \in 1..Len(new) : new[i] \in waiting \cup {t}
    BY <1>1, <1>2, Zenon DEF InLine
  <1>6. ASSUME NEW u \in waiting \cup {t} PROVE \E i \in 1..Len(new) : new[i] = u
    <2>1. CASE u = t
      BY <1>1, <1>4, <2>1, Zenon
    <2>2. CASE u \in waiting
      BY <1>1, <1>3, <2>2, Zenon DEF InLine
    <2>3. QED
      BY <1>6, <2>1, <2>2
  <1>7. ASSUME NEW i \in 1..Len(new), NEW j \in 1..Len(new), new[i] = new[j] PROVE i = j
    <2>1. CASE i \in 1..Len(line) /\ j \in 1..Len(line)
      BY <1>1, <1>7, <2>1, Zenon DEF InLine
    <2>2. CASE i = Len(line) + 1 /\ j \in 1..Len(line)
      BY <1>1, <1>7, <2>2, Zenon DEF InLine
    <2>3. CASE i \in 1..Len(line) /\ j = Len(line) + 1
      BY <1>1, <1>7, <2>3, Zenon DEF InLine
    <2>4. QED
      BY <1>2, <2>1, <2>2, <2>3
  <1>8. QED
    BY <1>5, <1>6, <1>7, Zenon DEF InLine, new

LEMMA LeaveLine ==
  ASSUME NEW S, NEW line \in Seq(S), NEW waiting, InLine(line, waiting), line # <<>>
  PROVE  InLine(Tail(line), waiting \ {Head(line)})
  <1> DEFINE new == Tail(line)
  <1>1. /\ Len(line) \in Nat /\ Len(line) > 0 /\ Len(new) = Len(line) - 1
        /\ \A i \in 1..Len(new) : new[i] = line[i + 1]
        /\ Head(line) = line[1]
    OBVIOUS
  <1> HIDE DEF new
  <1>2. \A i \in 1..Len(new) : i + 1 \in 1..Len(line) /\ i + 1 # 1
    BY <1>1
  <1>3. \A i \in 1..Len(line) : i # 1 => i - 1 \in 1..Len(new) /\ (i - 1) + 1 = i
    BY <1>1
  <1>4. 1 \in 1..Len(line)
    BY <1>1
  <1>5. ASSUME NEW i \in 1..Len(new) PROVE new[i] \in waiting \ {Head(line)}
    BY <1>1, <1>2, <1>4, <1>5 DEF InLine
  <1>6. ASSUME NEW t \in waiting \ {Head(line)} PROVE \E i \in 1..Len(new) : new[i] = t
    <2>1. PICK i \in 1..Len(line) : line[i] = t
      BY DEF InLine
    <2>2. i # 1
      BY <1>1, <2>1
    <2>3. i - 1 \in 1..Len(new) /\ new[i - 1] = t
      BY <1>1, <1>3, <2>1, <2>2
    <2>4. QED
      BY <2>3
  <1>7. ASSUME NEW i \in 1..Len(new), NEW j \in 1..Len(new), new[i] = new[j] PROVE i = j
    <2>1. line[i + 1] = line[j + 1] /\ i + 1 \in 1..Len(line) /\ j + 1 \in 1..Len(line)
      BY <1>1, <1>2, <1>7, Zenon
    <2>2. i + 1 = j + 1
      BY <2>1, Zenon DEF InLine
    <2>3. QED
      BY <2>2
  <1>8. QED
    BY <1>5, <1>6, <1>7 DEF InLine, new

\* A task comes, goes, or neither.
LEMMA LineJoined ==
  ASSUME TypeOK, WaitersInLine, NEW t \in Tasks, pc[t] # "waiting",
         pc' = [pc EXCEPT ![t] = "waiting"], queue' = Append(queue, t)
  PROVE  WaitersInLine'
  <1>1. Waiting' = Waiting \cup {t} /\ t \notin Waiting
    BY DEF TypeOK, Waiting
  <1>2. InLine(Append(queue, t), Waiting \cup {t})
    BY <1>1, JoinLine DEF TypeOK, WaitersInLine
  <1>3. QED
    BY <1>1, <1>2 DEF WaitersInLine

LEMMA LineLeft ==
  ASSUME TypeOK, WaitersInLine, NEW t \in Tasks, Granted(t),
         queue' = Tail(queue), NEW step, step # "waiting", pc' = [pc EXCEPT ![t] = step]
  PROVE  WaitersInLine'
  <1>1. Waiting' = Waiting \ {t} /\ queue # <<>> /\ Head(queue) = t
    BY DEF TypeOK, Waiting, Granted
  <1>2. InLine(Tail(queue), Waiting \ {Head(queue)})
    BY <1>1, LeaveLine DEF TypeOK, WaitersInLine
  <1>3. QED
    BY <1>1, <1>2 DEF WaitersInLine

LEMMA LineKept ==
  ASSUME TypeOK, WaitersInLine, NEW t \in Tasks, pc[t] # "waiting", queue' = queue,
         NEW step, step # "waiting", pc' = [pc EXCEPT ![t] = step]
  PROVE  WaitersInLine'
  <1>1. Waiting' = Waiting
    BY DEF TypeOK, Waiting
  <1>2. QED
    BY <1>1 DEF WaitersInLine

LEMMA LineReturned ==
  ASSUME TypeOK, WaitersInLine, NEW t \in Tasks, pc[t] # "waiting", queue' = queue, Return(t)
  PROVE  WaitersInLine'
  <1>1. PICK step \in {"hooked", "idle"} : pc' = [pc EXCEPT ![t] = step]
    BY DEF Return, Goto
  <1>2. QED
    BY <1>1, LineKept

LEMMA LineCalled ==
  ASSUME TypeOK, WaitersInLine, NEW t \in Tasks, Call(t)
  PROVE  WaitersInLine'
  <1>1. pc[t] # "waiting"
    BY DEF Call, CallRefresh, CallRefreshIfStale, CallTestProtocol, CallUpdateCredentials,
           CallRunHealth, SaveBackupNodes, Idle
  <1>2. ASSUME NEW kind, NEW cred, Enqueue(t, kind, cred) PROVE WaitersInLine'
    BY <1>1, <1>2, LineJoined DEF Enqueue, Goto
  <1>3. CASE CallRunHealth(t)
    BY <1>1, <1>3, LineKept DEF CallRunHealth, Goto
  <1>4. CASE SaveBackupNodes(t)
    <2>1. queue' = queue /\ (pc' = pc \/ pc' = [pc EXCEPT ![t] = "hook"])
      BY <1>4 DEF SaveBackupNodes, Goto
    <2>2. CASE pc' = pc
      BY <2>1, <2>2 DEF WaitersInLine, Waiting
    <2>3. CASE pc' = [pc EXCEPT ![t] = "hook"]
      BY <1>1, <2>1, <2>3, LineKept
    <2>4. QED
      BY <2>1, <2>2, <2>3
  <1>5. QED
    BY <1>2, <1>3, <1>4
       DEF Call, CallRefresh, CallRefreshIfStale, CallTestProtocol, CallUpdateCredentials

\* A step outside of the grant leaves the line alone, and its task was not in it.
LEMMA LineProceeds ==
  ASSUME TypeOK, WaitersInLine, NEW t \in Tasks, Proceed(t)
  PROVE  WaitersInLine'
  <1>1. CASE StartAttempt(t)
    <2>1. PICK step \in Awaiting : pc' = [pc EXCEPT ![t] = step]
      BY <1>1 DEF StartAttempt, Goto, Awaiting
    <2>2. QED
      BY <1>1, <2>1, LineLeft DEF StartAttempt, Awaiting
  <1>2. CASE NoLongerDue(t)
    <2>1. PICK step \in {"hooked", "idle"} : pc' = [pc EXCEPT ![t] = step]
      BY <1>2 DEF NoLongerDue, Return, Goto
    <2>2. QED
      BY <1>2, <2>1, LineLeft DEF NoLongerDue
  <1>3. CASE StartProtocolCall(t)
    BY <1>3, LineLeft DEF StartProtocolCall, Return, Goto
  <1>4. CASE AutoRefresh(t)
    BY <1>4, LineJoined DEF AutoRefresh, Enqueue, Goto
  <1>5. CASE EndHook(t)
    BY <1>5, LineReturned DEF EndHook
  <1>returned. ASSUME pc[t] # "waiting", Release(t), Return(t) PROVE WaitersInLine'
    BY <1>returned, LineReturned DEF Release
  <1>failed. ASSUME NEW retryable, pc[t] # "waiting", AttemptFailed(t, retryable)
             PROVE  WaitersInLine'
    <2>1. CASE IsRefresh(t)
      <3>1. queue' = queue /\ TryNext(t, retryable)
        BY <1>failed, <2>1 DEF AttemptFailed
      <3>2. PICK step \in {"resolving", "downloading", "fail"} : pc' = [pc EXCEPT ![t] = step]
        BY <3>1 DEF TryNext, Goto
      <3>3. QED
        BY <1>failed, <3>1, <3>2, LineKept
    <2>2. CASE ~IsRefresh(t)
      BY <1>failed, <1>returned, <2>2 DEF AttemptFailed
    <2>3. QED
      BY <2>1, <2>2
  <1>6. CASE Resolved(t)
    <2>1. CASE work[t].kind = "test"
      BY <1>6, <1>returned, <2>1 DEF Resolved
    <2>2. CASE work[t].kind # "test"
      BY <1>6, <2>2, LineKept DEF Resolved, Goto
    <2>3. QED
      BY <2>1, <2>2
  <1>7. ASSUME NEW p \in Payloads, Downloaded(t, p) PROVE WaitersInLine'
    <2>1. CASE work[t].kind = "credentials" /\ ~SecretsAvailable
      BY <1>7, <1>returned, <2>1 DEF Downloaded
    <2>2. CASE ~(work[t].kind = "credentials" /\ ~SecretsAvailable)
      BY <1>7, <2>2, LineKept DEF Downloaded, Goto
    <2>3. QED
      BY <2>1, <2>2
  <1>8. ASSUME NEW retryable \in BOOLEAN, UpstreamFailed(t, retryable) PROVE WaitersInLine'
    BY <1>8, <1>failed DEF UpstreamFailed, Awaiting
  <1>9. CASE PublishFailed(t)
    BY <1>9, <1>failed DEF PublishFailed
  <1>10. CASE Publish(t) \/ Record(t) \/ Prune(t) \/ ClearConverted(t) \/ PutCredentials(t)
              \/ RecordFailure(t)
    <2>1. pc[t] # "waiting" /\ queue' = queue
      BY <1>10 DEF Publish, Record, Prune, ClearConverted, PutCredentials, RecordFailure
    <2>2. PICK step \in {"record", "prune", "clear", "put", "settle"} :
            pc' = [pc EXCEPT ![t] = step]
      BY <1>10 DEF Publish, Record, Prune, ClearConverted, PutCredentials, RecordFailure, Goto
    <2>3. QED
      BY <2>1, <2>2, LineKept
  <1>11. CASE DatabaseError(t)
    BY <1>11, <1>returned DEF DatabaseError, Queries
  <1>12. CASE Settle(t)
    <2>1. pc[t] = "settle" /\ queue' = queue
      BY <1>12 DEF Settle, Release
    <2>2. CASE Announces(t)
      BY <1>12, <2>1, <2>2, LineKept DEF Settle, Goto
    <2>3. CASE ~Announces(t)
      BY <1>12, <1>returned, <2>1, <2>3 DEF Settle
    <2>4. QED
      BY <2>2, <2>3
  <1>13. QED
    BY <1>1, <1>2, <1>3, <1>4, <1>5, <1>6, <1>7, <1>8, <1>9, <1>10, <1>11, <1>12 DEF Proceed

LEMMA LineStep == TypeOK /\ WaitersInLine /\ [Next]_vars => WaitersInLine'
  <1> SUFFICES ASSUME TypeOK, WaitersInLine, [Next]_vars PROVE WaitersInLine'
    OBVIOUS
  <1>1. CASE UNCHANGED <<queue, pc>>
    BY <1>1 DEF WaitersInLine, Waiting
  <1>2. CASE Crash
    <2>1. queue' = <<>> /\ Waiting' = {}
      BY <1>2 DEF Crash, Waiting
    <2>2. QED
      BY <2>1 DEF WaitersInLine, InLine
  <1>3. QED
    BY <1>1, <1>2, LineCalled, LineProceeds
       DEF Next, Step, SetThreshold, Tick, ConverterWrites, vars, volatile

\* Whoever waits has its turn: the lock is held by a call that is at work, or the
\* head of the line gets it.
THEOREM LockIsPassedOn == Spec => []LockMovesOn
  <1>1. Init => WaitersInLine
    BY DEF Init, WaitersInLine, Waiting, InLine
  <1>2. Inv /\ WaitersInLine => LockMovesOn
    <2> SUFFICES ASSUME Inv, WaitersInLine, NEW t \in Tasks, pc[t] = "waiting"
                 PROVE  \E u \in Tasks :
                            (lock = u /\ pc[u] \in Awaiting \cup Committing) \/ Granted(u)
      BY DEF LockMovesOn
    <2>1. CASE lock \in Tasks
      BY <2>1 DEF Inv, FlagTracksLock
    <2>2. CASE lock = None
      <3>1. \A u \in Tasks : pc[u] \notin Committing
        BY <2>2, NamesAreDistinct DEF Inv, FlagTracksLock
      <3>2. loop = None
        BY <3>1 DEF Inv, CommitInOrder, TypeOK
      <3>3. queue \in Seq(Tasks) /\ t \in Waiting
        BY DEF Inv, TypeOK, Waiting
      <3>4. PICK i \in 1..Len(queue) : queue[i] = t
        BY <3>3 DEF WaitersInLine, InLine
      <3>5. queue # <<>> /\ Len(queue) \in Nat /\ 1 \in 1..Len(queue) /\ Head(queue) = queue[1]
        BY <3>3, <3>4
      <3>6. Head(queue) \in Waiting
        BY <3>5 DEF WaitersInLine, InLine
      <3>7. Granted(Head(queue)) /\ Head(queue) \in Tasks
        BY <2>2, <3>2, <3>5, <3>6 DEF Granted, Waiting
      <3>8. QED
        BY <3>7
    <2>3. QED
      BY <2>1, <2>2 DEF Inv, TypeOK
  <1>3. Inv => TypeOK
    BY DEF Inv
  <1>4. QED
    BY <1>1, <1>2, <1>3, LineStep, Invariance, PTL DEF Spec

-----------------------------------------------------------------------------
\* The refinement of LastGoodCache.

\* The payload that waits for its row; what LastGood calls the candidate.
Pending == IF loop # None /\ pc[loop] \in {"publish", "record"}
           THEN work[loop].payload ELSE None

Offered == IF db.digest \in raw THEN db.digest ELSE None

LEMMA OfferedIsRecorded == Inv => Offered = db.digest
  BY NamesAreDistinct DEF Inv, TypeOK, CurrentReadable, Offered, Row

LEMMA OfferedIsRecordedNext == Inv' => Offered' = db'.digest
  BY NamesAreDistinct DEF Inv, TypeOK, CurrentReadable, Offered, Row

\* A step that leaves the row's digest alone and has no pending payload
\* afterwards is a stutter or drops the one that was pending.
LEMMA Dropping ==
  ASSUME Inv, Inv', db'.digest = db.digest,
         loop' = None \/ pc'[loop'] \notin {"publish", "record"}
  PROVE  LastGood!Discard \/ UNCHANGED LastGood!vars
  <1>1. Offered' = Offered /\ Pending' = None
    BY OfferedIsRecorded, OfferedIsRecordedNext DEF Pending
  <1>2. QED
    BY <1>1 DEF LastGood!Discard, LastGood!vars, Offered, Pending

\* One that leaves loop, pc and the payloads alone as well is a stutter.
LEMMA Standing ==
  ASSUME Inv, Inv', db'.digest = db.digest, UNCHANGED <<loop, pc>>,
         \A t \in Tasks : work'[t].payload = work[t].payload
  PROVE  UNCHANGED LastGood!vars
  <1>1. Offered' = Offered
    BY OfferedIsRecorded, OfferedIsRecordedNext
  <1>2. Pending' = Pending
    BY DEF Inv, TypeOK, Pending
  <1>3. QED
    BY <1>1, <1>2 DEF LastGood!vars, Offered, Pending

LEMMA LastGoodInit == Init => LastGood!Init
  BY NamesAreDistinct DEF Init, LastGood!Init

LEMMA LastGoodProceed ==
  ASSUME Inv, Inv', NEW t \in Tasks, Proceed(t)
  PROVE  LastGood!Next \/ UNCHANGED LastGood!vars
  <1>typed. /\ db \in Row /\ work[t] \in Locals
            /\ pc \in [Tasks -> Outside \cup Awaiting \cup Committing]
            /\ work \in [Tasks -> Locals] /\ t # None
    BY NamesAreDistinct DEF Inv, TypeOK
  <1>inside. pc[t] \in Committing <=> loop = t
    BY DEF Inv, CommitInOrder
  <1>drop. ASSUME db'.digest = db.digest,
                  loop' = None \/ pc'[loop'] \notin {"publish", "record"}
           PROVE  LastGood!Next \/ UNCHANGED LastGood!vars
    BY <1>drop, Dropping DEF LastGood!Next
  <1>1. CASE StartAttempt(t) \/ NoLongerDue(t) \/ StartProtocolCall(t) \/ AutoRefresh(t) \/ EndHook(t)
    <2>1. loop' = None /\ db' = db
      BY <1>1 DEF StartAttempt, NoLongerDue, StartProtocolCall, AutoRefresh, EndHook, Granted, Enqueue, disk
    <2>2. QED
      BY <1>drop, <2>1
  <1>2. CASE Resolved(t)
    <2>1. loop' = None /\ db'.digest = db.digest
      BY <1>2, <1>typed DEF Resolved, Release, Row
    <2>2. QED
      BY <1>drop, <2>1
  <1>3. ASSUME NEW p \in Payloads, Downloaded(t, p)
        PROVE  LastGood!Next \/ UNCHANGED LastGood!vars
    <2>1. CASE work[t].kind = "credentials" /\ ~SecretsAvailable
      BY <1>3, <1>drop, <2>1 DEF Downloaded, Release, disk
    <2>2. CASE ~(work[t].kind = "credentials" /\ ~SecretsAvailable)
      <3>1. loop' = t /\ pc'[t] = "publish" /\ work'[t].payload = p /\ Pending = None
        BY <1>3, <1>typed, <2>2 DEF Downloaded, Goto, Pending, Locals
      <3>2. Pending' = p
        BY <1>typed, <3>1 DEF Pending
      <3>3. db' = db /\ Offered' = Offered
        BY <1>3, OfferedIsRecorded, OfferedIsRecordedNext DEF Downloaded, disk
      <3>4. LastGood!Validate(p)
        BY <3>1, <3>2, <3>3 DEF LastGood!Validate, Pending, Offered
      <3>5. QED
        BY <3>4 DEF LastGood!Next
    <2>3. QED
      BY <2>1, <2>2
  <1>failed. ASSUME NEW retryable \in BOOLEAN, AttemptFailed(t, retryable)
             PROVE  /\ db'.digest = db.digest
                    /\ loop' = None \/ pc'[loop'] \notin {"publish", "record"}
    <2>1. db'.digest = db.digest
      BY <1>failed, <1>typed DEF AttemptFailed, Row
    <2>2. CASE ~IsRefresh(t)
      BY <1>failed, <2>1, <2>2 DEF AttemptFailed, Release
    <2>3. CASE IsRefresh(t)
      <3>1. TryNext(t, retryable)
        BY <1>failed, <2>3 DEF AttemptFailed
      <3>2. \/ loop' = None
            \/ loop' = t /\ pc' = [pc EXCEPT ![t] = "fail"]
        BY <3>1 DEF TryNext, Goto
      <3>3. QED
        BY <1>typed, <2>1, <3>2
    <2>4. QED
      BY <2>2, <2>3
  <1>4. ASSUME NEW retryable \in BOOLEAN, UpstreamFailed(t, retryable) \/ PublishFailed(t)
        PROVE  LastGood!Next \/ UNCHANGED LastGood!vars
    BY <1>4, <1>drop, <1>failed DEF UpstreamFailed, PublishFailed
  <1>5. CASE Publish(t)
    <2>1. loop = t /\ loop' = t /\ pc[t] = "publish" /\ pc'[t] = "record" /\ work' = work
      BY <1>5, <1>inside, <1>typed DEF Publish, Goto, Committing
    <2>2. Pending' = Pending
      BY <1>typed, <2>1 DEF Pending
    <2>3. Offered' = Offered
      BY <1>5, OfferedIsRecorded, OfferedIsRecordedNext DEF Publish
    <2>4. QED
      BY <2>2, <2>3 DEF LastGood!vars, Pending, Offered
  <1>6. CASE Record(t)
    <2>1. loop = t /\ loop' = t /\ pc[t] = "record" /\ pc'[t] = "prune"
      BY <1>6, <1>inside, <1>typed DEF Record, Goto, Committing
    <2>2. db'.digest = work[t].payload /\ work[t].payload \in Payloads
      BY <1>6, <1>typed, <2>1 DEF Record, Row, Inv, CommitInOrder
    <2>3. Pending = work[t].payload /\ Pending' = None
      BY <1>typed, <2>1 DEF Pending
    <2>4. Offered' = Pending /\ Pending # None
      BY <2>2, <2>3, OfferedIsRecordedNext, NamesAreDistinct
    <2>5. LastGood!Publish
      BY <2>3, <2>4 DEF LastGood!Publish, Pending, Offered
    <2>6. QED
      BY <2>5 DEF LastGood!Next
  <1>7. CASE Prune(t) \/ ClearConverted(t) \/ PutCredentials(t) \/ RecordFailure(t)
    <2>1. loop' = loop /\ pc[t] \in Committing
      BY <1>7 DEF Prune, ClearConverted, PutCredentials, RecordFailure, Committing
    <2>2. loop' = t
      BY <1>inside, <2>1
    <2>3. pc'[t] \in {"clear", "put", "settle"}
      BY <1>7, <1>typed DEF Prune, ClearConverted, PutCredentials, RecordFailure, Goto
    <2>4. db'.digest = db.digest
      BY <1>7, <1>typed DEF Prune, ClearConverted, PutCredentials, RecordFailure, Row
    <2>5. QED
      BY <1>drop, <2>2, <2>3, <2>4
  <1>8. CASE DatabaseError(t) \/ Settle(t)
    <2>1. loop' = None
      BY <1>8 DEF DatabaseError, Settle, Release
    <2>2. db'.digest = db.digest
      BY <1>8, <1>typed DEF DatabaseError, Settle, Row
    <2>3. QED
      BY <1>drop, <2>1, <2>2
  <1>9. QED
    BY <1>1, <1>2, <1>3, <1>4, <1>5, <1>6, <1>7, <1>8 DEF Proceed

LEMMA LastGoodStep ==
  Inv /\ Inv' /\ [Next]_vars => LastGood!Next \/ UNCHANGED LastGood!vars
  <1> SUFFICES ASSUME Inv, Inv', [Next]_vars
               PROVE  LastGood!Next \/ UNCHANGED LastGood!vars
    OBVIOUS
  <1>1. ASSUME NEW t \in Tasks, Call(t) PROVE LastGood!Next \/ UNCHANGED LastGood!vars
    <2>1. loop' = None /\ db' = db
      BY <1>1 DEF Call, CallRefresh, CallRefreshIfStale, CallTestProtocol,
         CallUpdateCredentials, CallRunHealth, SaveBackupNodes, Idle, Enqueue, disk
    <2>2. QED
      BY <2>1, Dropping DEF LastGood!Next
  <1>2. ASSUME NEW t \in Tasks, Proceed(t) PROVE LastGood!Next \/ UNCHANGED LastGood!vars
    BY <1>2, LastGoodProceed
  <1>3. ASSUME UNCHANGED <<db, loop, pc, work>> PROVE UNCHANGED LastGood!vars
    BY <1>3, Standing
  <1>4. ASSUME NEW n \in Thresholds, SetThreshold(n) PROVE UNCHANGED LastGood!vars
    BY <1>3, <1>4 DEF SetThreshold, volatile
  <1>5. ASSUME NEW content \in Contents, ConverterWrites(content)
        PROVE  UNCHANGED LastGood!vars
    BY <1>3, <1>5 DEF ConverterWrites, volatile
  <1>6. CASE Tick
    <2>1. loop' = None /\ db'.digest = db.digest
      BY <1>6 DEF Tick, Inv, TypeOK, Row
    <2>2. QED
      BY <2>1, Dropping DEF LastGood!Next
  <1>7. CASE Crash
    <2>1. loop' = None /\ db' = db
      BY <1>7 DEF Crash, disk
    <2>2. QED
      BY <2>1, Dropping DEF LastGood!Next
  <1>8. CASE UNCHANGED vars
    BY <1>3, <1>8 DEF vars, disk, volatile
  <1>9. QED
    BY <1>1, <1>2, <1>4, <1>5, <1>6, <1>7, <1>8 DEF Next, Step

\* publish_raw, record_refresh_success and prune_raw, interrupted anywhere, are
\* to a reader one atomic replacement of the payload or nothing at all.
THEOREM RefinesLastGood == Spec => ImplementsLastGood
  <1>1. Inv /\ Inv' /\ [Next]_vars => [LastGood!Next]_LastGood!vars
    BY LastGoodStep
  <1>2. QED
    BY <1>1, Invariance, LastGoodInit, PTL DEF Spec, ImplementsLastGood, LastGood!Spec
-----------------------------------------------------------------------------
\* An action property that rests on the same invariant.

LEMMA OnlyPutStores ==
  ASSUME [Next]_vars, creds' # creds
  PROVE  \E t \in Tasks : PutCredentials(t)
  <1>1. ASSUME NEW t \in Tasks, Call(t) PROVE creds' = creds
    BY <1>1 DEF Call, CallRefresh, CallRefreshIfStale, CallTestProtocol,
         CallUpdateCredentials, CallRunHealth, SaveBackupNodes, disk
  <1>2. ASSUME NEW t \in Tasks, Proceed(t), ~PutCredentials(t) PROVE creds' = creds
    BY <1>2 DEF Proceed, StartAttempt, NoLongerDue, StartProtocolCall, Resolved, Downloaded,
         UpstreamFailed, Publish, PublishFailed, Record, Prune, ClearConverted,
         RecordFailure, DatabaseError, Settle, AutoRefresh, EndHook, disk
  <1>3. Tick \/ Crash => creds' = creds
    BY DEF Tick, Crash, disk
  <1>4. ASSUME NEW content \in Contents, ConverterWrites(content) PROVE creds' = creds
    BY <1>4 DEF ConverterWrites
  <1>5. ASSUME NEW n \in Thresholds, SetThreshold(n) PROVE creds' = creds
    BY <1>5 DEF SetThreshold
  <1>6. UNCHANGED vars => creds' = creds
    BY DEF vars, disk
  <1>7. QED
    BY <1>1, <1>2, <1>3, <1>4, <1>5, <1>6 DEF Next, Step

\* update_protocol_credentials stores an account only after the payload that
\* was fetched with it was committed, and while it still holds the lock.
THEOREM CredentialsCommitted == Spec => CredentialsFollowCommit
  <1> DEFINE Committed ==
        creds' # creds => \E t \in Tasks : /\ lock = t
                                         /\ creds' = work[t].cred
                                         /\ work[t].updated /\ db.digest = work[t].payload
  <1>1. Inv /\ [Next]_vars => Committed
    <2> SUFFICES ASSUME Inv, [Next]_vars, creds' # creds
                 PROVE  \E t \in Tasks : /\ lock = t
                                         /\ creds' = work[t].cred
                                         /\ work[t].updated /\ db.digest = work[t].payload
      OBVIOUS
    <2>1. PICK t \in Tasks : PutCredentials(t)
      BY OnlyPutStores
    <2>2. lock = t
      BY <2>1 DEF PutCredentials, Inv, FlagTracksLock, Committing
    <2>3. work[t].updated /\ db.digest = work[t].payload
      BY <2>1 DEF PutCredentials, Inv, CommitInOrder
    <2>4. QED
      BY <2>1, <2>2, <2>3 DEF PutCredentials
  <1>2. Inv /\ [Next]_vars => [Committed]_vars
    BY <1>1
  <1>3. QED
    BY <1>2, Invariance, PTL DEF Spec, CredentialsFollowCommit
-----------------------------------------------------------------------------
\* What was recorded is announced.

\* Between the row and the end of the hook.
Announcing == {"prune", "clear", "put", "settle", "hook", "hooked"}

UpdatesOnTheirWay == \A t \in Tasks : work[t].updated => pc[t] \in Announcing

\* A call ends with a blank record, or starts with one.
LEMMA BlankIsNoUpdate ==
  ASSUME TypeOK, NEW t \in Tasks
  PROVE  /\ Return(t) => ~work'[t].updated
         /\ \A kind, cred : Enqueue(t, kind, cred) => ~work'[t].updated
  <1>1. Return(t) => ~work'[t].updated
    BY DEF TypeOK, Return, Blank
  <1>2. ASSUME NEW kind, NEW cred, Enqueue(t, kind, cred)
        PROVE  ~work'[t].updated
    <2>1. [Blank EXCEPT !.kind = kind, !.cred = cred].updated = FALSE
      BY DEF Blank
    <2>2. work'[t] = [Blank EXCEPT !.kind = kind, !.cred = cred]
      BY <1>2, SMTT(30) DEF Enqueue, TypeOK
    <2>3. QED
      BY <2>1, <2>2
  <1>3. QED
    BY <1>1, <1>2

LEMMA OneTaskSteps ==
  ASSUME TypeOK, NEW t \in Tasks, Call(t) \/ Proceed(t), NEW u \in Tasks, u # t
  PROVE  work'[u] = work[u] /\ pc'[u] = pc[u]
  BY DEF TypeOK, Call, CallRefresh, CallRefreshIfStale, CallTestProtocol, CallUpdateCredentials,
         CallRunHealth, SaveBackupNodes, Enqueue, Proceed, StartAttempt, NoLongerDue,
         StartProtocolCall, Resolved, Downloaded, UpstreamFailed, AttemptFailed, TryNext,
         Publish, PublishFailed, Record, Prune, ClearConverted, PutCredentials, RecordFailure,
         DatabaseError, Settle, AutoRefresh, EndHook, Return, Goto

LEMMA UpdateCall ==
  ASSUME TypeOK, UpdatesOnTheirWay, NEW t \in Tasks, Call(t)
  PROVE  ~work[t].updated /\ ~work'[t].updated
  <1>1. pc[t] = "idle"
    BY DEF Call, CallRefresh, CallRefreshIfStale, CallTestProtocol, CallUpdateCredentials,
           CallRunHealth, SaveBackupNodes, Idle
  <1>2. ~work[t].updated
    BY <1>1 DEF UpdatesOnTheirWay, Announcing
  <1>3. CASE CallRunHealth(t) \/ SaveBackupNodes(t)
    <2>1. \/ work' = work
          \/ \E kind \in {"health", "save"} :
                work' = [work EXCEPT ![t] = [Blank EXCEPT !.kind = kind]]
      BY <1>3 DEF CallRunHealth, SaveBackupNodes
    <2>2. QED
      BY <1>2, <2>1 DEF TypeOK, Blank
  <1>4. QED
    BY <1>2, <1>3, BlankIsNoUpdate
       DEF Call, CallRefresh, CallRefreshIfStale, CallTestProtocol, CallUpdateCredentials

LEMMA UpdateProceeds ==
  ASSUME TypeOK, UpdatesOnTheirWay, NEW t \in Tasks, Proceed(t)
  PROVE  /\ work'[t].updated => pc'[t] \in Announcing
         /\ work[t].updated /\ ~work'[t].updated =>
              pc[t] \in {"hook", "hooked"} \/ (pc[t] \in {"put", "settle"} /\ "database" \in Faults)
  <1> DEFINE Goal == /\ work'[t].updated => pc'[t] \in Announcing
                     /\ work[t].updated /\ ~work'[t].updated =>
                         pc[t] \in {"hook", "hooked"} \/ (pc[t] \in {"put", "settle"} /\ "database" \in Faults)
  <1> SUFFICES Goal
    OBVIOUS
  <1>early. ASSUME pc[t] \notin Announcing, ~work'[t].updated PROVE Goal
    BY <1>early DEF UpdatesOnTheirWay
  <1>returned. ASSUME pc[t] \notin Announcing, Return(t) PROVE Goal
    BY <1>early, <1>returned, BlankIsNoUpdate
  <1>same. ASSUME pc[t] \notin Announcing, work'[t].updated = work[t].updated PROVE Goal
    BY <1>early, <1>same DEF UpdatesOnTheirWay
  <1> HIDE DEF Goal
  <1>failed. ASSUME NEW retryable, pc[t] \in Awaiting \cup {"publish"},
                    AttemptFailed(t, retryable)
             PROVE  Goal
    <2>1. pc[t] \notin Announcing
      BY <1>failed DEF Awaiting, Announcing
    <2>2. ASSUME TryNext(t, retryable) PROVE work'[t].updated = work[t].updated
      <3>1. \/ work' = [work EXCEPT ![t].attempt = 1]
            \/ work' = [work EXCEPT ![t] = [@ EXCEPT !.source = "fallback", !.payload = None]]
            \/ work' = [work EXCEPT ![t].payload = None]
        BY <2>2 DEF TryNext
      <3>2. QED
        BY <3>1 DEF TypeOK, Locals
    <2>3. TryNext(t, retryable) \/ Return(t)
      BY <1>failed DEF AttemptFailed
    <2>4. QED
      BY <1>same, <1>returned, <2>1, <2>2, <2>3
  <1>1. CASE StartAttempt(t) \/ NoLongerDue(t) \/ StartProtocolCall(t)
    <2>1. pc[t] \notin Announcing
      BY <1>1 DEF StartAttempt, NoLongerDue, StartProtocolCall, Granted, Announcing
    <2>2. Return(t) \/ work'[t].updated = work[t].updated
      BY <1>1, ZenonT(60) DEF StartAttempt, NoLongerDue, StartProtocolCall, TypeOK, Locals
    <2>3. QED
      BY <1>same, <1>returned, <2>1, <2>2
  <1>2. CASE Resolved(t) \/ \E p \in Payloads : Downloaded(t, p)
    <2>1. pc[t] \notin Announcing
      BY <1>2 DEF Resolved, Downloaded, Announcing
    <2>2. Return(t) \/ work'[t].updated = work[t].updated
      BY <1>2 DEF Resolved, Downloaded, TypeOK, Locals
    <2>3. QED
      BY <1>same, <1>returned, <2>1, <2>2
  <1>3. ASSUME NEW retryable \in BOOLEAN, UpstreamFailed(t, retryable) PROVE Goal
    BY <1>3, <1>failed DEF UpstreamFailed
  <1>4. CASE PublishFailed(t)
    BY <1>4, <1>failed DEF PublishFailed
  <1>5. CASE Publish(t) \/ RecordFailure(t)
    <2>1. pc[t] \notin Announcing
      BY <1>5 DEF Publish, RecordFailure, Announcing
    <2>2. work'[t].updated = work[t].updated
      BY <1>5 DEF Publish, RecordFailure, TypeOK, Locals
    <2>3. QED
      BY <1>same, <2>1, <2>2
  <1>6. CASE Record(t)
    <2>1. pc[t] \notin Announcing /\ pc'[t] \in Announcing
      BY <1>6 DEF Record, Goto, TypeOK, Announcing
    <2>2. QED
      BY <2>1 DEF UpdatesOnTheirWay, Goal
  <1>7. CASE Prune(t) \/ ClearConverted(t) \/ PutCredentials(t)
    <2>1. work' = work
      BY <1>7 DEF Prune, ClearConverted, PutCredentials
    <2>2. PICK step \in {"clear", "put", "settle"} : pc' = [pc EXCEPT ![t] = step]
      BY <1>7 DEF Prune, ClearConverted, PutCredentials, Goto
    <2>3. pc'[t] \in Announcing
      BY <2>2 DEF TypeOK, Announcing
    <2>4. QED
      BY <2>1, <2>3 DEF Goal
  <1>8. CASE DatabaseError(t)
    <2>1. ~work'[t].updated /\ "database" \in Faults
      BY <1>8, BlankIsNoUpdate DEF DatabaseError
    <2>2. pc[t] \in Announcing => pc[t] \in {"put", "settle"}
      BY <1>8 DEF DatabaseError, Queries, Announcing
    <2>3. QED
      BY <2>1, <2>2 DEF UpdatesOnTheirWay, Goal
  <1>9. CASE Settle(t)
    <2>1. CASE Announces(t)
      <3>1. pc'[t] \in Announcing /\ work' = work
        BY <1>9, <2>1 DEF Settle, Goto, TypeOK, Announcing
      <3>2. QED
        BY <3>1 DEF Goal
    <2>2. CASE ~Announces(t)
      <3>1. ~work[t].updated /\ ~work'[t].updated
        BY <1>9, <2>2, BlankIsNoUpdate DEF Settle, Announces
      <3>2. QED
        BY <3>1 DEF Goal
    <2>3. QED
      BY <2>1, <2>2
  <1>10. CASE AutoRefresh(t) \/ EndHook(t)
    <2>1. pc[t] \in {"hook", "hooked"} /\ ~work'[t].updated
      BY <1>10, BlankIsNoUpdate DEF AutoRefresh, EndHook
    <2>2. QED
      BY <2>1 DEF Goal
  <1>11. QED
    BY <1>1, <1>2, <1>3, <1>4, <1>5, <1>6, <1>7, <1>8, <1>9, <1>10 DEF Proceed

LEMMA UpdateElsewhere ==
  ASSUME TypeOK, [Next]_vars, ~Crash, ~\E t \in Tasks : Call(t) \/ Proceed(t)
  PROVE  pc' = pc /\ \A t \in Tasks : work'[t].updated = work[t].updated
  <1>1. CASE Tick
    <2>1. pc' = pc
      BY <1>1 DEF Tick
    <2>2. \A t \in Tasks : \/ work'[t] = work[t]
                           \/ work'[t] = [work[t] EXCEPT !.age = Older(work[t].age)]
      BY <1>1 DEF Tick
    <2>3. QED
      BY <2>1, <2>2, ZenonT(60) DEF TypeOK, Locals
  <1>2. CASE \/ \E n \in Thresholds : SetThreshold(n)
             \/ \E content \in Contents : ConverterWrites(content)
             \/ UNCHANGED vars
    BY <1>2 DEF SetThreshold, ConverterWrites, vars, volatile
  <1>3. QED
    BY <1>1, <1>2 DEF Next, Step

LEMMA UpdateStep ==
  ASSUME TypeOK, UpdatesOnTheirWay, [Next]_vars
  PROVE  /\ UpdatesOnTheirWay'
         /\ \A t \in Tasks : work[t].updated /\ ~work'[t].updated =>
              \/ pc[t] \in {"hook", "hooked"}
              \/ pc[t] \in {"put", "settle"} /\ "database" \in Faults
              \/ "crash" \in Faults /\ pc' = [u \in Tasks |-> "idle"]
  <1>1. CASE Crash
    BY <1>1 DEF Crash, UpdatesOnTheirWay, Blank
  <1>2. ASSUME NEW t \in Tasks, Call(t) \/ Proceed(t)
        PROVE  /\ UpdatesOnTheirWay'
               /\ \A u \in Tasks : work[u].updated /\ ~work'[u].updated =>
                    pc[u] \in {"hook", "hooked"} \/ (pc[u] \in {"put", "settle"} /\ "database" \in Faults)
    <2>1. \A u \in Tasks \ {t} : work'[u] = work[u] /\ pc'[u] = pc[u]
      BY <1>2, OneTaskSteps
    <2>2. /\ work'[t].updated => pc'[t] \in Announcing
          /\ work[t].updated /\ ~work'[t].updated =>
               pc[t] \in {"hook", "hooked"} \/ (pc[t] \in {"put", "settle"} /\ "database" \in Faults)
      BY <1>2, UpdateCall, UpdateProceeds
    <2>3. QED
      BY <2>1, <2>2 DEF UpdatesOnTheirWay
  <1>3. CASE ~Crash /\ ~\E t \in Tasks : Call(t) \/ Proceed(t)
    BY <1>3, UpdateElsewhere DEF UpdatesOnTheirWay
  <1>4. QED
    BY <1>1, <1>2, <1>3

\* Whatever fails, a payload that went into the row goes on to the hook with its
\* call: OpenClash is told and the nodes are checked, but for the exceptions.
THEOREM UpdatesReachHook == Spec => UpdateGoesThroughHook
  <1>1. Init => UpdatesOnTheirWay
    BY DEF Init, UpdatesOnTheirWay, Blank
  <1>2. Inv => TypeOK
    BY DEF Inv
  <1>3. TypeOK /\ UpdatesOnTheirWay /\ [Next]_vars
        => /\ UpdatesOnTheirWay'
           /\ [\A t \in Tasks : work[t].updated /\ ~work'[t].updated =>
                 \/ pc[t] \in {"hook", "hooked"}
                 \/ pc[t] \in {"put", "settle"} /\ "database" \in Faults
                 \/ "crash" \in Faults /\ pc' = [u \in Tasks |-> "idle"]]_vars
    BY UpdateStep
  <1>4. QED
    BY <1>1, <1>2, <1>3, Invariance, PTL DEF Spec, UpdateGoesThroughHook
-----------------------------------------------------------------------------
\* On-demand refreshes.

\* Doubling an interval never makes it shorter than the first doubling.
LEMMA StaleAfterBounds ==
  ASSUME NEW n \in Nat
  PROVE  /\ StaleAfter(n) \in Nat
         /\ StaleAfter(n) >= Lesser(MaxAge, MaxBackoff)
         /\ n > 0 => StaleAfter(n) >= Lesser(2 * MaxAge, MaxBackoff)
  <1> DEFINE k == Lesser(n, 4)
             doubled == MaxAge * (2 ^ k)
  <1>1. MaxAge \in Nat /\ MaxBackoff \in Nat
    BY BoundsAssumption
  <1>2. k \in 0..4 /\ (n > 0 => k > 0)
    BY DEF Lesser
  <1>3. /\ 2 ^ k \in {1, 2, 4, 8, 16}
        /\ k > 0 => 2 ^ k >= 2
    <2>1. 2 ^ 0 = 1 /\ 2 ^ 1 = 2 /\ 2 ^ 2 = 4 /\ 2 ^ 3 = 8 /\ 2 ^ 4 = 16
      OBVIOUS
    <2>2. k = 0 \/ k = 1 \/ k = 2 \/ k = 3 \/ k = 4
      BY <1>2
    <2>3. (2 ^ k = 1 /\ k = 0) \/ 2 ^ k \in {2, 4, 8, 16}
      <3> HIDE DEF k
      <3>1. CASE k = 0
        BY <2>1, <3>1
      <3>2. CASE k = 1
        BY <2>1, <3>2
      <3>3. CASE k = 2
        BY <2>1, <3>3
      <3>4. CASE k = 3
        BY <2>1, <3>4
      <3>5. CASE k = 4
        BY <2>1, <3>5
      <3>6. QED
        BY <2>2, <3>1, <3>2, <3>3, <3>4, <3>5
    <2> DEFINE power == 2 ^ k
    <2>4. (power = 1 /\ k = 0) \/ power \in {2, 4, 8, 16}
      BY <2>3
    <2> HIDE DEF power, k
    <2>5. power \in {1, 2, 4, 8, 16} /\ (k > 0 => power >= 2)
      BY <2>4
    <2>6. QED
      BY <2>5 DEF power
  <1>4. doubled \in Nat /\ doubled >= MaxAge /\ (n > 0 => doubled >= 2 * MaxAge)
    <2> DEFINE factor == 2 ^ k
    <2>1. factor \in {1, 2, 4, 8, 16} /\ (n > 0 => factor >= 2)
      BY <1>2, <1>3
    <2>2. doubled = MaxAge * factor
      OBVIOUS
    <2> HIDE DEF factor, doubled, k
    <2>3. QED
      BY <1>1, <2>1, <2>2
  <1>5. StaleAfter(n) = Lesser(doubled, MaxBackoff)
    BY DEF StaleAfter
  <1> HIDE DEF doubled
  <1>6. QED
    BY <1>1, <1>4, <1>5 DEF Lesser

\* The only steps from the queue into the critical section.
LEMMA EntersByGrant ==
  ASSUME Inv, [Next]_vars, NEW t \in Tasks, pc[t] = "waiting", pc'[t] \in Awaiting
  PROVE  StartAttempt(t) \/ StartProtocolCall(t)
  <1>1. ASSUME NEW u \in Tasks, NEW step, pc' = [pc EXCEPT ![u] = step] PROVE u = t
    BY <1>1 DEF Inv, TypeOK, Awaiting
  <1>2. ASSUME NEW u \in Tasks, Call(u) PROVE FALSE
    <2>1. pc[u] = "idle"
      BY <1>2 DEF Call, CallRefresh, CallRefreshIfStale, CallTestProtocol,
           CallUpdateCredentials, CallRunHealth, SaveBackupNodes, Idle
    <2>2. pc' = pc \/ \E step : pc' = [pc EXCEPT ![u] = step]
      <3>1. SaveBackupNodes(u) => pc' = pc \/ pc' = [pc EXCEPT ![u] = "hook"]
        BY Zenon DEF SaveBackupNodes, Goto
      <3>2. CallRunHealth(u) => pc' = [pc EXCEPT ![u] = "hook"]
        BY DEF CallRunHealth, Goto
      <3>3. /\ CallRefresh(u) \/ CallRefreshIfStale(u) \/ CallTestProtocol(u)
                => pc' = [pc EXCEPT ![u] = "waiting"]
            /\ \A cred \in Credentials :
                CallUpdateCredentials(u, cred) => pc' = [pc EXCEPT ![u] = "waiting"]
        BY Zenon DEF CallRefresh, CallRefreshIfStale, CallTestProtocol,
             CallUpdateCredentials, Enqueue, Goto
      <3>4. QED
        BY <1>2, <3>1, <3>2, <3>3, Zenon DEF Call
    <2>3. QED
      BY <1>1, <2>1, <2>2 DEF Awaiting
  <1>3. ASSUME NEW u \in Tasks, Proceed(u), pc[u] # "waiting" PROVE FALSE
    <2>1. pc'[t] = pc[t]
      BY <1>3 DEF Proceed, StartAttempt, NoLongerDue, StartProtocolCall, Granted, Resolved,
           Downloaded, UpstreamFailed, AttemptFailed, TryNext, Publish, PublishFailed, Record,
           Prune, ClearConverted, PutCredentials, RecordFailure, DatabaseError, Settle,
           AutoRefresh, EndHook, Enqueue, Return, Goto, Inv, TypeOK
    <2>2. QED
      BY <2>1 DEF Awaiting
  <1>4. ASSUME NEW u \in Tasks, Proceed(u), pc[u] = "waiting"
        PROVE  StartAttempt(t) \/ StartProtocolCall(t)
    <2>1. StartAttempt(u) \/ NoLongerDue(u) \/ StartProtocolCall(u)
      BY <1>4 DEF Proceed, Resolved, Downloaded, UpstreamFailed, Publish, PublishFailed,
           Record, Prune, ClearConverted, PutCredentials, RecordFailure, DatabaseError,
           Queries, Settle, AutoRefresh, EndHook, Awaiting
    <2>2. \E step : pc' = [pc EXCEPT ![u] = step]
      BY <2>1 DEF StartAttempt, NoLongerDue, StartProtocolCall, Return, Goto
    <2>3. u = t
      BY <1>1, <2>2
    <2>4. ~NoLongerDue(t)
      BY DEF NoLongerDue, Return, Goto, Inv, TypeOK, Awaiting
    <2>5. QED
      BY <2>1, <2>3, <2>4
  <1>5. ASSUME NEW n \in Thresholds, SetThreshold(n) PROVE FALSE
    BY <1>5 DEF SetThreshold, volatile, Awaiting
  <1>6. ASSUME NEW content \in Contents, ConverterWrites(content) PROVE FALSE
    BY <1>6 DEF ConverterWrites, volatile, Awaiting
  <1>7. ~Tick /\ ~Crash /\ ~UNCHANGED vars
    BY DEF Tick, Crash, vars, volatile, Awaiting
  <1>8. QED
    BY <1>2, <1>3, <1>4, <1>5, <1>6, <1>7 DEF Next, Step

\* A download or a round of the scheduler that had to wait for the lock looks
\* again, and bothers the upstream only if a refresh is due by then.
THEOREM OnDemandIsDue == Spec => OnDemandOnlyWhenDue
  <1> DEFINE Due ==
        \A t \in Tasks :
          work[t].kind = "on_demand" /\ pc[t] = "waiting" /\ pc'[t] \in Awaiting =>
            /\ db.attemptAge >= MinRetry
            /\ db.successAge >= Lesser(MaxAge, MaxBackoff)
            /\ db.failures > 0 => db.successAge >= Lesser(2 * MaxAge, MaxBackoff)
  <1>1. Inv /\ [Next]_vars => Due
    <2> SUFFICES ASSUME Inv, [Next]_vars, NEW t \in Tasks,
                        work[t].kind = "on_demand", pc[t] = "waiting", pc'[t] \in Awaiting
                 PROVE  /\ db.attemptAge >= MinRetry
                        /\ db.successAge >= Lesser(MaxAge, MaxBackoff)
                        /\ db.failures > 0 => db.successAge >= Lesser(2 * MaxAge, MaxBackoff)
      OBVIOUS
    <2>1. StartAttempt(t)
      BY EntersByGrant DEF StartProtocolCall
    <2>2. db.attemptAge >= MinRetry /\ db.successAge >= StaleAfter(db.failures)
      BY <2>1 DEF StartAttempt, StillDue, IsStale
    <2>3. db.failures \in Nat /\ db.successAge \in Nat
      BY BoundsAssumption DEF Inv, TypeOK, Row
    <2>4. /\ Lesser(MaxAge, MaxBackoff) \in Nat
          /\ Lesser(2 * MaxAge, MaxBackoff) \in Nat
      BY BoundsAssumption DEF Lesser
    <2>5. QED
      BY <2>2, <2>3, <2>4, StaleAfterBounds
  <1>2. Inv /\ [Next]_vars => [Due]_vars
    BY <1>1
  <1>3. QED
    BY <1>2, Invariance, PTL DEF Spec, OnDemandOnlyWhenDue
-----------------------------------------------------------------------------
\* The number of raw files, when nothing goes wrong.

\* What pruning leaves is finite and small.
LEMMA PrunedIsFew ==
  ASSUME NEW files, IsFiniteSet(files), NEW p, NEW left \in Pruned(files, {p})
  PROVE  Cardinality(left) \in Nat /\ Cardinality(left) <= MaxKeep + 1
  <1>1. PICK newest \in SUBSET files :
            /\ Cardinality(newest) = Lesser(MaxKeep, Cardinality(files))
            /\ left = (newest \cup {p}) \cap files
    BY DEF Pruned
  <1>2. /\ IsFiniteSet(newest)
        /\ Cardinality(newest) \in Nat /\ Cardinality(files) \in Nat
        /\ IsFiniteSet(newest \cup {p})
        /\ Cardinality(newest \cup {p}) \in Nat
        /\ Cardinality(newest \cup {p}) <= Cardinality(newest) + 1
    BY <1>1, FS_Subset, FS_AddElement, FS_CardinalityType
  <1>3. Cardinality(newest) <= MaxKeep
    BY <1>1, <1>2, BoundsAssumption DEF Lesser
  <1>4. left \subseteq newest \cup {p}
    BY <1>1
  <1>5. IsFiniteSet(left) /\ Cardinality(left) <= Cardinality(newest \cup {p})
    BY <1>2, <1>4, FS_Subset
  <1>6. Cardinality(left) \in Nat
    BY <1>5, FS_CardinalityType
  <1>7. QED
    BY <1>2, <1>3, <1>5, <1>6, BoundsAssumption

\* Only a commit adds and removes raw files, and without faults it is not cut short
\* between these steps.
LEMMA FilesStep ==
  ASSUME Inv, [Next]_vars, Faults = {}
  PROVE  \/ /\ raw' = raw
            /\ \A t \in Tasks : pc[t] \in {"record", "prune"} => pc'[t] = pc[t]
         \/ \E t \in Tasks : Publish(t) \/ Record(t) \/ Prune(t)
  <1> DEFINE Uncut == \A t \in Tasks : pc[t] \in {"record", "prune"} => pc'[t] = pc[t]
  <1>1. loop = None => Uncut
    BY NamesAreDistinct DEF Inv, CommitInOrder, Committing
  <1>2. ASSUME NEW u \in Tasks, Call(u) PROVE raw' = raw /\ Uncut
    <2>1. raw' = raw
      BY <1>2 DEF Call, CallRefresh, CallRefreshIfStale, CallTestProtocol,
           CallUpdateCredentials, CallRunHealth, SaveBackupNodes, disk
    <2>2. loop = None
      BY <1>2 DEF Call, CallRefresh, CallRefreshIfStale, CallTestProtocol,
           CallUpdateCredentials, CallRunHealth, SaveBackupNodes, Idle
    <2>3. QED
      BY <1>1, <2>1, <2>2
  <1>3. ASSUME NEW u \in Tasks, Proceed(u), ~(Publish(u) \/ Record(u) \/ Prune(u))
        PROVE  raw' = raw /\ Uncut
    <2>1. ~PublishFailed(u) /\ ~DatabaseError(u)
      BY DEF PublishFailed, DatabaseError
    <2>2. raw' = raw
      BY <1>3, <2>1 DEF Proceed, StartAttempt, NoLongerDue, StartProtocolCall, Resolved,
           Downloaded, UpstreamFailed, ClearConverted, PutCredentials, RecordFailure, Settle,
           AutoRefresh, EndHook, disk
    <2>3. loop = None \/ pc[u] \in Committing \ {"record", "prune"}
      BY <1>3, <2>1 DEF Proceed, StartAttempt, NoLongerDue, StartProtocolCall, Granted,
           Resolved, Downloaded, UpstreamFailed, ClearConverted, PutCredentials,
           RecordFailure, Settle, AutoRefresh, EndHook, Committing
    <2>4. pc[u] \in Committing => loop = u
      BY DEF Inv, CommitInOrder
    <2>5. pc[u] \in Committing \ {"record", "prune"} => Uncut
      BY <2>4 DEF Inv, CommitInOrder, Committing
    <2>6. QED
      BY <1>1, <2>2, <2>3, <2>5
  <1>4. ASSUME NEW n \in Thresholds, SetThreshold(n) PROVE raw' = raw /\ Uncut
    BY <1>4 DEF SetThreshold, volatile
  <1>5. ASSUME NEW content \in Contents, ConverterWrites(content) PROVE raw' = raw /\ Uncut
    BY <1>5 DEF ConverterWrites, volatile
  <1>6. Tick => raw' = raw /\ Uncut
    BY DEF Tick
  <1>7. ~Crash
    BY DEF Crash
  <1>8. UNCHANGED vars => raw' = raw /\ Uncut
    BY DEF vars, disk, volatile
  <1>9. QED
    BY <1>2, <1>3, <1>4, <1>5, <1>6, <1>7, <1>8 DEF Next, Step

\* Without faults MaxKeep files and the current one are all that is ever left,
\* whatever was downloaded and however often.  (A crash between the file and the
\* row, and an error in either, may leave a file more until the next commit.)
THEOREM RawFilesStayFew ==
  ASSUME Faults = {}
  PROVE  Spec => []RawFilesBounded
  <1> DEFINE Few == Cardinality(raw) <= MaxKeep + 1
             FewOrBusy == Few \/ \E t \in Tasks : pc[t] \in {"record", "prune"}
  <1>1. Init => FewOrBusy
    BY FS_EmptySet, BoundsAssumption DEF Init
  <1>2. Inv /\ FewOrBusy /\ [Next]_vars => FewOrBusy'
    <2> SUFFICES ASSUME Inv, FewOrBusy, [Next]_vars PROVE FewOrBusy'
      OBVIOUS
    <2>1. CASE /\ raw' = raw
               /\ \A t \in Tasks : pc[t] \in {"record", "prune"} => pc'[t] = pc[t]
      BY <2>1
    <2>2. ASSUME NEW t \in Tasks, Publish(t) \/ Record(t) PROVE FewOrBusy'
      BY <2>2 DEF Publish, Record, Goto, Inv, TypeOK
    <2>3. ASSUME NEW t \in Tasks, Prune(t) PROVE FewOrBusy'
      <3>1. IsFiniteSet(raw)
        BY RawFilesAreFinite, FS_Subset DEF Inv, TypeOK
      <3>2. raw' \in Pruned(raw, {work[t].payload})
        BY <2>3 DEF Prune
      <3>3. QED
        BY <3>1, <3>2, PrunedIsFew
    <2>4. QED
      BY <2>1, <2>2, <2>3, FilesStep
  <1>3. Inv /\ FewOrBusy => RawFilesBounded
    BY NamesAreDistinct DEF Inv, CommitInOrder, RawFilesBounded, Committing
  <1>4. QED
    BY <1>1, <1>2, <1>3, Invariance, PTL DEF Spec
-----------------------------------------------------------------------------
\* ConvertedCache: renders beside the refresher.

Rendering == [pc: {"idle", "requested", "converting"}, input: Contents \cup {None}]

\* The converter is at work on something that was served.
InputsServed ==
    /\ render \in [Renderers -> Rendering]
    /\ \A r \in Renderers : render[r].pc = "converting" => render[r].input \in Contents

LEMMA ServedType ==
  ASSUME Inv, Served # None
  PROVE  Served \in Contents
  <1>1. db.digest \in raw => db.digest \in Payloads /\ backup \in BOOLEAN
    BY DEF Inv, TypeOK
  <1>2. QED
    BY <1>1 DEF Served, Contents

\* A step of the whole is one of the refresher, or leaves it alone.
LEMMA RenderStepRefines ==
  ASSUME InputsServed, [CNext]_cvars
  PROVE  [Next]_vars
  <1>1. ASSUME NEW r \in Renderers, WriteTemplate(r) PROVE Next
    <2>1. render[r].input \in Contents /\ ConverterWrites(render[r].input)
      BY <1>1 DEF WriteTemplate, InputsServed
    <2>2. QED
      BY <2>1 DEF Next
  <1>2. ASSUME NEW r \in Renderers, Request(r) \/ ConverterReads(r) \/ RenderFailed(r)
        PROVE  UNCHANGED vars
    BY <1>2 DEF Request, ConverterReads, RenderFailed
  <1>3. RefresherStep \/ RestartsRenders => Next
    BY Zenon DEF RefresherStep, RestartsRenders, Next
  <1>4. UNCHANGED cvars => UNCHANGED vars
    BY DEF cvars
  <1>5. QED
    BY <1>1, <1>2, <1>3, <1>4 DEF CNext

LEMMA RenderStepKeepsInputs ==
  ASSUME Inv, InputsServed, [CNext]_cvars
  PROVE  InputsServed'
  <1> DEFINE Kept(new) == \E r \in Renderers : render' = [render EXCEPT ![r] = new]
  <1>1. ASSUME NEW new \in Rendering, new.pc = "converting" => new.input \in Contents, Kept(new)
        PROVE  InputsServed'
    BY <1>1 DEF InputsServed
  <1>2. Quiet \in Rendering /\ Quiet.pc # "converting"
    BY DEF Quiet, Rendering
  <1>3. ASSUME NEW r \in Renderers, Request(r) PROVE InputsServed'
    <2> DEFINE new == [render[r] EXCEPT !.pc = "requested"]
    <2>1. new \in Rendering /\ new.pc # "converting"
      BY DEF InputsServed, Rendering
    <2>2. render' = [render EXCEPT ![r] = new]
      BY <1>3 DEF Request
    <2> HIDE DEF new
    <2>3. QED
      BY <1>1, <2>1, <2>2
  <1>4. ASSUME NEW r \in Renderers, ConverterReads(r) PROVE InputsServed'
    <2> DEFINE new == [pc |-> "converting", input |-> Served]
    <2>1. Served \in Contents
      BY <1>4, ServedType DEF ConverterReads
    <2>2. new \in Rendering /\ new.input \in Contents
      BY <2>1 DEF Rendering
    <2>3. render' = [render EXCEPT ![r] = new]
      BY <1>4 DEF ConverterReads
    <2> HIDE DEF new
    <2>4. QED
      BY <1>1, <2>2, <2>3
  <1>5. ASSUME NEW r \in Renderers, WriteTemplate(r) \/ RenderFailed(r) PROVE InputsServed'
    <2>1. render' = [render EXCEPT ![r] = Quiet]
      BY <1>5 DEF WriteTemplate, RenderFailed
    <2>2. QED
      BY <1>1, <1>2, <2>1
  <1>6. RefresherStep \/ UNCHANGED cvars => InputsServed'
    BY DEF RefresherStep, cvars, InputsServed
  <1>7. RestartsRenders => InputsServed'
    BY <1>2 DEF RestartsRenders, InputsServed
  <1>8. QED
    BY <1>3, <1>4, <1>5, <1>6, <1>7 DEF CNext

LEMMA RenderInvariance == CSpec => [](Inv /\ InputsServed)
  <1>1. CInit => Inv /\ InputsServed
    <2>1. Quiet \in Rendering /\ Quiet.pc # "converting"
      BY DEF Quiet, Rendering
    <2>2. QED
      BY <2>1, InvInit DEF CInit, InputsServed
  <1>2. Inv /\ InputsServed /\ [CNext]_cvars => (Inv /\ InputsServed)'
    BY RenderStepRefines, RenderStepKeepsInputs, InvStep
  <1>3. QED
    BY <1>1, <1>2, PTL DEF CSpec

\* Renders and their restarts are among what Refresher leaves open: what
\* holds of it holds beside any number of renders.
THEOREM RendersRefineRefresher == CSpec => ImplementsRefresher
  <1>1. CInit => Init
    BY DEF CInit
  <1>2. InputsServed /\ [CNext]_cvars => [Next]_vars
    BY RenderStepRefines
  <1>3. QED
    BY <1>1, <1>2, RenderInvariance, PTL DEF CSpec, Spec, ImplementsRefresher

\* Readers see the promise of LastGoodCache whatever renders write meanwhile.
THEOREM RendersKeepThePromise == CSpec => ImplementsLastGood
  BY RendersRefineRefresher, RefinesLastGood DEF ImplementsRefresher

\* Every variable has its type, those of the renders included.
THEOREM RendersTypeCorrect == CSpec => []CTypeOK
  <1>1. CInit => late \in BOOLEAN
    BY Zenon DEF CInit
  <1>2. late \in BOOLEAN /\ [CNext]_cvars
        => (late \in BOOLEAN)'
    <2> SUFFICES ASSUME late \in BOOLEAN, [CNext]_cvars
                 PROVE  late' \in BOOLEAN
      OBVIOUS
    <2>1. ASSUME NEW r \in Renderers, WriteTemplate(r)
          PROVE  late' \in BOOLEAN
      BY <2>1, Zenon DEF WriteTemplate
    <2>2. ASSUME NEW r \in Renderers, Request(r) \/ ConverterReads(r) \/ RenderFailed(r)
          PROVE  late' \in BOOLEAN
      BY <2>2, Zenon DEF Request, ConverterReads, RenderFailed
    <2>3. ASSUME RefresherStep PROVE late' \in BOOLEAN
      BY <2>3, Zenon DEF RefresherStep
    <2>4. ASSUME RestartsRenders PROVE late' \in BOOLEAN
      BY <2>4, Zenon DEF RestartsRenders
    <2>5. QED
      BY <2>1, <2>2, <2>3, <2>4 DEF CNext, cvars
  <1>3. Inv /\ InputsServed /\ late \in BOOLEAN => CTypeOK
    BY DEF Inv, InputsServed, Rendering, CTypeOK
  <1>4. QED
    BY <1>1, <1>2, <1>3, RenderInvariance, PTL DEF CSpec
-----------------------------------------------------------------------------
\* Converted files that follow what is served.

\* The theorem is about refreshes and protocol tests: a change of the account, of
\* the backup nodes or of the threshold has other effects on the converted files,
\* and an unlink error leaves them in place.
RefreshesOnly ==
    /\ Kinds \subseteq {"refresh", "on_demand", "test", "health", "auto"}
    /\ "disk" \notin Faults
    /\ \E n \in Thresholds : Thresholds = {n}

Refreshing == {"refresh", "on_demand"}

\* Only a refresh downloads and commits.
CallsKnown ==
    \A t \in Tasks :
        /\ pc[t] \in {"waiting", "resolving"} => work[t].kind \in Refreshing \cup {"test"}
        /\ pc[t] = "downloading" \/ pc[t] \in Committing => work[t].kind \in Refreshing
        /\ pc[t] # "put"
        /\ pc[t] = "clear" => work[t].payload # None

\* The activation that a refresh found at its start lasts until it is recorded.
ActivationKnown ==
    \A t \in Tasks :
        /\ work[t].kind \in Refreshing
        /\ pc[t] \in Awaiting \cup {"publish", "record", "fail"}
        => work[t].was = IsActive

\* What was served with this digest, under this activation.
Former(was, digest, nodes) == IF was THEN BackupContent ELSE <<digest, nodes>>

\* What a template that is not late was built from: what is served or, in the middle
\* of a commit, what was served when it began.
BuiltFrom ==
    template # None /\ ~late =>
        /\ loop = None => template = Served
        /\ \A t \in Tasks :
            /\ pc[t] \in {"publish", "record", "fail"} => template = Served
            /\ pc[t] \in {"prune", "clear"} =>
                template = Former(work[t].was, work[t].previous, backup)
            /\ pc[t] = "settle" =>
                /\ template = Former(work[t].was, db.digest, backup)
                /\ work[t].was \/ db.digest # None

CInv == Inv /\ InputsServed /\ CallsKnown /\ ActivationKnown /\ BuiltFrom

\* What is served changes with these only.
LEMMA SameService ==
  ASSUME UNCHANGED <<raw, backup, threshold>>,
         db'.digest = db.digest, db'.failures = db.failures
  PROVE  Served' = Served /\ IsActive' = IsActive
  BY DEF Served, IsActive, ActiveWith

\* Of a file that is there, what made it stale is not forgotten.
StaysLate == template' # None /\ ~late' => ~late

LEMMA FreshInit == CInit => CInv
  <1> SUFFICES ASSUME CInit PROVE CInv
    OBVIOUS
  <1>1. Init /\ render = [r \in Renderers |-> Quiet]
    BY DEF CInit
  <1>2. InputsServed
    BY <1>1 DEF InputsServed, Quiet, Rendering
  <1>3. \A t \in Tasks : pc[t] = "idle"
    BY <1>1 DEF Init
  <1>4. template = None
    BY <1>1 DEF Init
  <1>5. QED
    BY <1>1, <1>2, <1>3, <1>4, InvInit
    DEF CInv, CallsKnown, ActivationKnown, BuiltFrom, Awaiting, Committing

\* A task moves outside of its commit, or begins or leaves one, and what is served
\* stays as it is.
LEMMA QuietTaskStep ==
  ASSUME CInv, UNCHANGED <<raw, template, backup, threshold>>,
         db'.digest = db.digest, db'.failures = db.failures,
         NEW t \in Tasks, NEW step, pc' = [pc EXCEPT ![t] = step],
         NEW new, work' = [work EXCEPT ![t] = new],
         loop = None \/ loop = t,
         template' # None /\ ~late' => template = Served,
         \/ step \in {"publish", "fail"} /\ loop' = t
         \/ step \in Outside \cup Awaiting /\ loop' = None,
         step \in {"waiting", "resolving"} => new.kind \in Refreshing \cup {"test"},
         step \in {"downloading", "publish", "fail"} => new.kind \in Refreshing,
         new.kind \in Refreshing /\ step \in Awaiting \cup {"publish", "fail"}
            => new.was = IsActive
  PROVE  CallsKnown' /\ ActivationKnown' /\ BuiltFrom'
  <1>1. Served' = Served /\ IsActive' = IsActive
    BY SameService
  <1>2. pc'[t] = step /\ work'[t] = new
    BY DEF CInv, Inv, TypeOK
  <1>3. \A u \in Tasks : u # t => pc'[u] = pc[u] /\ work'[u] = work[u]
    BY DEF CInv, Inv, TypeOK
  <1>4. \A u \in Tasks : u # t => pc'[u] \notin Committing
    BY <1>3, NamesAreDistinct DEF CInv, Inv, CommitInOrder
  <1>5. CallsKnown'
    BY <1>2, <1>3 DEF CInv, CallsKnown, Outside, Awaiting, Committing
  <1>6. ActivationKnown'
    BY <1>1, <1>2, <1>3 DEF CInv, ActivationKnown, Outside, Awaiting
  <1>7. template' # None /\ ~late' => template' = Served'
    BY <1>1
  <1>8. \A u \in Tasks : pc'[u] \notin {"prune", "clear", "settle"}
    BY <1>2, <1>4 DEF Outside, Awaiting, Committing
  <1>9. BuiltFrom'
    BY <1>7, <1>8 DEF BuiltFrom
  <1>10. QED
    BY <1>5, <1>6, <1>9
\* A call returns, from outside of a commit or at its end.
LEMMA QuietReturn ==
  ASSUME CInv, NEW t \in Tasks, UNCHANGED <<raw, template, backup, threshold>>,
         db'.digest = db.digest, db'.failures = db.failures,
         Return(t), loop' = None, loop = None \/ loop = t,
         template' # None /\ ~late' => template = Served
  PROVE  CallsKnown' /\ ActivationKnown' /\ BuiltFrom'
  <1>1. PICK step \in {"hooked", "idle"} : pc' = [pc EXCEPT ![t] = step]
    BY DEF Return, Goto
  <1>2. work' = [work EXCEPT ![t] = Blank] /\ Blank.kind = "none"
    BY DEF Return, Blank
  <1>3. step \in Outside \cup Awaiting
    BY DEF Outside
  <1>4. QED
    BY <1>1, <1>2, <1>3, QuietTaskStep DEF Refreshing

LEMMA QuietEnqueue ==
  ASSUME CInv, NEW t \in Tasks, NEW kind \in Refreshing \cup {"test"}, NEW cred,
         Enqueue(t, kind, cred), UNCHANGED disk, loop = None,
         StaysLate
  PROVE  CallsKnown' /\ ActivationKnown' /\ BuiltFrom'
  <1> DEFINE new == [Blank EXCEPT !.kind = kind, !.cred = cred]
  <1>1. work' = [work EXCEPT ![t] = new] /\ pc' = [pc EXCEPT ![t] = "waiting"] /\ loop' = None
    BY DEF Enqueue, Goto
  <1>2. new.kind = kind
    BY DEF Blank
  <1>3. template' # None /\ ~late' => template = Served
    BY DEF CInv, BuiltFrom, StaysLate, disk
  <1> HIDE DEF new
  <1>4. PICK step \in Outside : step = "waiting"
    BY DEF Outside
  <1>5. step \notin Awaiting \cup {"downloading", "publish", "fail"}
    BY <1>4 DEF Awaiting
  <1>6. pc' = [pc EXCEPT ![t] = step] /\ new.kind \in Refreshing \cup {"test"}
    BY <1>1, <1>2, <1>4
  <1>7. UNCHANGED <<raw, template, backup, threshold>> /\ db' = db
    BY DEF disk
  <1>8. QED
    BY <1>1, <1>3, <1>5, <1>6, <1>7, QuietTaskStep

LEMMA FreshCall ==
  ASSUME CInv, RefreshesOnly, NEW t \in Tasks, Call(t), StaysLate
  PROVE  CallsKnown' /\ ActivationKnown' /\ BuiltFrom'
  <1>1. CASE CallRefresh(t)
    BY <1>1, QuietEnqueue DEF CallRefresh, Idle, Refreshing
  <1>2. CASE CallRefreshIfStale(t)
    BY <1>2, QuietEnqueue DEF CallRefreshIfStale, Idle, Refreshing
  <1>3. CASE CallTestProtocol(t)
    BY <1>3, QuietEnqueue DEF CallTestProtocol, Idle, Refreshing
  <1>4. CASE CallRunHealth(t)
    <2> DEFINE new == [Blank EXCEPT !.kind = "health"]
    <2>1. /\ work' = [work EXCEPT ![t] = new] /\ pc' = [pc EXCEPT ![t] = "hook"]
          /\ loop = None /\ loop' = None /\ UNCHANGED disk
      BY <1>4 DEF CallRunHealth, Goto, Idle
    <2>2. new.kind = "health"
      BY DEF Blank
    <2>3. template' # None /\ ~late' => template = Served
      BY <2>1 DEF CInv, BuiltFrom, StaysLate, disk
    <2> HIDE DEF new
    <2>4. PICK step \in Outside : step = "hook"
      BY DEF Outside
    <2>5. new.kind \notin Refreshing /\ step \notin Awaiting
      BY <2>2, <2>4 DEF Refreshing, Awaiting
    <2>6. UNCHANGED <<raw, template, backup, threshold>> /\ db' = db
      BY <2>1 DEF disk
    <2>7. step \notin {"waiting", "resolving", "downloading", "publish", "fail"}
      BY <2>4
    <2>8. QED
      BY <2>1, <2>3, <2>4, <2>5, <2>6, <2>7, QuietTaskStep
  <1>5. ~SaveBackupNodes(t) /\ \A cred \in Credentials : ~CallUpdateCredentials(t, cred)
    BY DEF RefreshesOnly, SaveBackupNodes, CallUpdateCredentials
  <1>6. QED
    BY <1>1, <1>2, <1>3, <1>4, <1>5 DEF Call

\* The steps of a call outside of its commit, and those that begin or break off one.
LEMMA FreshProceed ==
  ASSUME CInv, RefreshesOnly, NEW t \in Tasks, Proceed(t), StaysLate,
         Unsettled(t) /\ template' # None => late',
         ~(Publish(t) \/ Record(t) \/ Prune(t) \/ ClearConverted(t) \/ RecordFailure(t)
           \/ Settle(t))
  PROVE  CallsKnown' /\ ActivationKnown' /\ BuiltFrom'
  <1>1. loop = None /\ template' # None /\ ~late' /\ template' = template => template = Served
    BY DEF CInv, BuiltFrom, StaysLate
  <1>types. db \in Row /\ work[t] \in Locals /\ work = [work EXCEPT ![t] = work[t]]
    BY DEF CInv, Inv, TypeOK
  <1>2. CASE StartAttempt(t)
    <2> DEFINE new == [work[t] EXCEPT !.was = IsActive, !.age = 0, !.source = FirstSource]
    <2>1. PICK step \in Awaiting : pc' = [pc EXCEPT ![t] = step]
      BY <1>2 DEF StartAttempt, Goto, Awaiting
    <2>2. work' = [work EXCEPT ![t] = new]
      BY <1>2 DEF StartAttempt
    <2>3. new.kind = work[t].kind /\ new.was = IsActive
      BY <1>types DEF Locals
    <2>4. /\ loop = None /\ loop' = None /\ UNCHANGED disk /\ work[t].kind \in Refreshing
      BY <1>2 DEF StartAttempt, Granted, IsRefresh, Refreshing
    <2>5. step \in Outside \cup Awaiting
      OBVIOUS
    <2> HIDE DEF new
    <2>6. QED
      BY <1>1, <2>1, <2>2, <2>3, <2>4, <2>5, QuietTaskStep DEF disk
  <1>3. CASE NoLongerDue(t)
    BY <1>1, <1>3, QuietReturn DEF NoLongerDue, Granted, disk
  <1>4. CASE StartProtocolCall(t)
    <2>1. loop = None /\ loop' = None /\ UNCHANGED disk
      BY <1>4 DEF StartProtocolCall, Granted
    <2>2. CASE "protocol" \in Sources
      <3> DEFINE new == [work[t] EXCEPT !.source = "protocol"]
      <3>1. work' = [work EXCEPT ![t] = new] /\ pc' = [pc EXCEPT ![t] = "resolving"]
        BY <1>4, <2>2 DEF StartProtocolCall, Goto
      <3>2. new.kind = work[t].kind
        BY <1>types DEF Locals
      <3>3. work[t].kind = "test"
        BY <1>4 DEF StartProtocolCall, Granted, CInv, CallsKnown, Refreshing
      <3>4. "resolving" \in Awaiting
        BY DEF Awaiting
      <3> HIDE DEF new
      <3>5. QED
        BY <1>1, <2>1, <3>1, <3>2, <3>3, <3>4, QuietTaskStep DEF disk, Refreshing
    <2>3. CASE "protocol" \notin Sources
      <3>1. Return(t)
        BY <1>4, <2>3 DEF StartProtocolCall
      <3>2. QED
        BY <1>1, <2>1, <3>1, QuietReturn DEF disk
    <2>4. QED
      BY <2>2, <2>3
  <1>5. CASE Resolved(t)
    <2>1. /\ loop = None /\ pc[t] = "resolving" /\ UNCHANGED <<raw, template, backup, threshold>>
          /\ db'.digest = db.digest /\ db'.failures = db.failures
      BY <1>5, <1>types DEF Resolved, Row
    <2>2. CASE work[t].kind = "test"
      BY <1>1, <1>5, <2>1, <2>2, QuietReturn DEF Resolved, Release
    <2>3. CASE work[t].kind # "test"
      <3>1. /\ work' = [work EXCEPT ![t] = work[t]] /\ pc' = [pc EXCEPT ![t] = "downloading"]
            /\ loop' = None
        BY <1>5, <1>types, <2>1, <2>3 DEF Resolved, Goto
      <3>2. work[t].kind \in Refreshing /\ work[t].was = IsActive
        BY <2>1, <2>3 DEF CInv, CallsKnown, ActivationKnown, Awaiting
      <3>3. "downloading" \in Awaiting
        BY DEF Awaiting
      <3>4. QED
        BY <1>1, <2>1, <3>1, <3>2, <3>3, QuietTaskStep
    <2>4. QED
      BY <2>2, <2>3
  <1>6. ASSUME NEW p \in Payloads, Downloaded(t, p)
        PROVE  CallsKnown' /\ ActivationKnown' /\ BuiltFrom'
    <2> DEFINE new == [work[t] EXCEPT !.payload = p]
    <2>1. loop = None /\ pc[t] = "downloading" /\ UNCHANGED disk
      BY <1>6 DEF Downloaded
    <2>2. work[t].kind \in Refreshing /\ work[t].was = IsActive
      BY <2>1 DEF CInv, CallsKnown, ActivationKnown, Awaiting
    <2>3. work' = [work EXCEPT ![t] = new] /\ pc' = [pc EXCEPT ![t] = "publish"] /\ loop' = t
      BY <1>6, <2>2 DEF Downloaded, Goto, Refreshing
    <2>4. new.kind = work[t].kind /\ new.was = work[t].was
      BY <1>types DEF Locals
    <2> HIDE DEF new
    <2>5. QED
      BY <1>1, <2>1, <2>2, <2>3, <2>4, QuietTaskStep DEF disk
  <1>7. ASSUME NEW retryable \in BOOLEAN, UpstreamFailed(t, retryable)
        PROVE  CallsKnown' /\ ActivationKnown' /\ BuiltFrom'
    <2>1. /\ loop = None /\ pc[t] \in Awaiting /\ UNCHANGED <<raw, template, backup, threshold>>
          /\ db'.digest = db.digest /\ db'.failures = db.failures
      <3>1. \E error : db' = [db EXCEPT !.protocolError = error]
        BY <1>7 DEF UpstreamFailed, AttemptFailed
      <3>2. QED
        BY <1>7, <1>types, <3>1 DEF UpstreamFailed, Row
    <2>2. CASE ~IsRefresh(t)
      BY <1>1, <1>7, <2>1, <2>2, QuietReturn DEF UpstreamFailed, AttemptFailed, Release
    <2>3. CASE IsRefresh(t)
      <3>1. work[t].kind \in Refreshing /\ work[t].was = IsActive
        BY <2>1, <2>3 DEF IsRefresh, Refreshing, CInv, ActivationKnown
      <3>2. \E step, new :
              /\ pc' = [pc EXCEPT ![t] = step] /\ work' = [work EXCEPT ![t] = new]
              /\ new.kind = work[t].kind /\ new.was = work[t].was
              /\ \/ step \in Awaiting /\ loop' = None
                 \/ step = "fail" /\ loop' = t
        <4> DEFINE again == [work[t] EXCEPT !.attempt = 1]
                   next == [work[t] EXCEPT !.source = "fallback", !.payload = None]
                   over == [work[t] EXCEPT !.payload = None]
        <4>1. /\ again.kind = work[t].kind /\ again.was = work[t].was
              /\ next.kind = work[t].kind /\ next.was = work[t].was
              /\ over.kind = work[t].kind /\ over.was = work[t].was
          BY <1>types DEF Locals
        <4>2. \/ /\ pc' = [pc EXCEPT ![t] = "resolving"] /\ work' = [work EXCEPT ![t] = again]
                 /\ loop' = None
              \/ /\ pc' = [pc EXCEPT ![t] = "downloading"] /\ work' = [work EXCEPT ![t] = next]
                 /\ loop' = None
              \/ /\ pc' = [pc EXCEPT ![t] = "fail"] /\ work' = [work EXCEPT ![t] = over]
                 /\ loop' = t
          BY <1>7, <2>3, Zenon DEF UpstreamFailed, AttemptFailed, TryNext, Goto
        <4> HIDE DEF again, next, over
        <4>3. "resolving" \in Awaiting /\ "downloading" \in Awaiting
          BY DEF Awaiting
        <4>4. QED
          BY <4>1, <4>2, <4>3, Zenon
      <3>3. QED
        BY <1>1, <2>1, <3>1, <3>2, QuietTaskStep
    <2>4. QED
      BY <2>2, <2>3
  <1>8. ~PublishFailed(t) /\ ~PutCredentials(t)
    BY DEF RefreshesOnly, PublishFailed, PutCredentials, CInv, CallsKnown
  <1>9. CASE DatabaseError(t)
    <2>1. \/ pc[t] \in {"resolving", "downloading"} /\ loop = None
          \/ pc[t] \in {"record", "fail", "settle"}
      BY <1>8, <1>9 DEF DatabaseError, Queries, CInv, CallsKnown
    <2>2. work[t].kind # "credentials"
      BY <2>1 DEF CInv, CallsKnown, Committing, Refreshing
    <2>3. UNCHANGED <<db, raw, template, backup, threshold>> /\ Return(t) /\ loop' = None
      BY <1>9, <2>2 DEF DatabaseError, Release
    <2>4. loop = None \/ loop = t
      BY <2>1 DEF CInv, Inv, CommitInOrder, Committing
    <2>5. template' # None /\ ~late' => template = Served
      <3>1. CASE pc[t] = "settle"
        <4>1. template' # None /\ ~late' => work[t].was = IsActive
          BY <1>9, <3>1 DEF Unsettled
        <4>2. template' # None /\ ~late' =>
                /\ template = Former(work[t].was, db.digest, backup)
                /\ work[t].was \/ db.digest # None
          BY <2>3, <3>1 DEF CInv, BuiltFrom, StaysLate
        <4>3. db.digest # None => db.digest \in raw
          BY DEF CInv, Inv, CurrentReadable
        <4>4. QED
          BY <4>1, <4>2, <4>3 DEF Served, Former
      <3>2. CASE pc[t] \in {"record", "fail"}
        BY <2>3, <3>2 DEF CInv, BuiltFrom, StaysLate
      <3>3. QED
        BY <1>1, <2>1, <2>3, <3>1, <3>2
    <2>6. QED
      BY <2>3, <2>4, <2>5, QuietReturn
  <1>10. CASE AutoRefresh(t)
    BY <1>10, QuietEnqueue DEF AutoRefresh, Refreshing
  <1>11. CASE EndHook(t)
    BY <1>1, <1>11, QuietReturn DEF EndHook, disk
  <1>12. QED
    BY <1>2, <1>3, <1>4, <1>5, <1>6, <1>7, <1>8, <1>9, <1>10, <1>11 DEF Proceed
\* In a commit, what the invariant says of the task is all that it says.
\* BuiltFrom at a step of a commit, of the values it is about.
Matches(built, step, w, served, digest, nodes) ==
    /\ step \in Outside \cup {"publish", "record", "fail"} => built = served
    /\ step \in {"prune", "clear"} => built = Former(w.was, w.previous, nodes)
    /\ step = "settle" => built = Former(w.was, digest, nodes) /\ (w.was \/ digest # None)

LEMMA CommitStep ==
  ASSUME CInv, NEW t \in Tasks, pc[t] \in Committing,
         NEW step, pc' = [pc EXCEPT ![t] = step],
         NEW new, work' = [work EXCEPT ![t] = new], step \in Committing => new.kind \in Refreshing,
         \/ step \in Committing \ {"put"} /\ loop' = t
         \/ step \in Outside \ {"waiting"} /\ loop' = None,
         step \in {"publish", "record", "fail"} => new.was = IsActive',
         step = "clear" => new.payload # None,
         template' # None /\ ~late' => Matches(template', step, new, Served', db'.digest, backup')
  PROVE  CallsKnown' /\ ActivationKnown' /\ BuiltFrom'
  <1>1. loop = t /\ lock = t
    BY DEF CInv, Inv, CommitInOrder, FlagTracksLock
  <1>2. pc'[t] = step /\ work'[t] = new
    BY DEF CInv, Inv, TypeOK
  <1>3. \A u \in Tasks : u # t => pc'[u] = pc[u] /\ work'[u] = work[u]
    BY DEF CInv, Inv, TypeOK
  <1>4. \A u \in Tasks : u # t => pc'[u] \notin Awaiting \cup Committing
    BY <1>1, <1>3, NamesAreDistinct DEF CInv, Inv, FlagTracksLock
  <1>5. CallsKnown'
    BY <1>2, <1>3, <1>4 DEF CInv, CallsKnown, Outside, Awaiting, Committing
  <1>6. ActivationKnown'
    BY <1>2, <1>4 DEF ActivationKnown, Outside, Awaiting, Committing
  <1>7. BuiltFrom'
    <2>1. \A u \in Tasks : u # t =>
            pc'[u] \notin {"publish", "record", "fail", "prune", "clear", "settle"}
      BY <1>4 DEF Committing
    <2>2. loop' = None => step \in Outside
      BY NamesAreDistinct DEF Committing, Outside
    <2>3. step \in Outside => step \notin Committing
      BY DEF Outside, Committing
    <2>4. QED
      BY <1>2, <2>1, <2>2, <2>3 DEF BuiltFrom, Matches
  <1>8. QED
    BY <1>5, <1>6, <1>7

LEMMA FreshCommit ==
  ASSUME CInv, RefreshesOnly, NEW t \in Tasks, StaysLate,
         \/ Publish(t) \/ Record(t) \/ Prune(t) \/ ClearConverted(t)
         \/ RecordFailure(t) \/ Settle(t)
  PROVE  CallsKnown' /\ ActivationKnown' /\ BuiltFrom'
  <1>types. db \in Row /\ work[t] \in Locals /\ work = [work EXCEPT ![t] = work[t]]
            /\ None \notin Payloads
    BY NamesAreDistinct DEF CInv, Inv, TypeOK
  <1>at. pc[t] \in Committing /\ loop = t /\ work[t].kind \in Refreshing
    BY DEF CInv, Inv, CommitInOrder, CallsKnown, Committing, Publish, Record, Prune,
         ClearConverted, RecordFailure, Settle
  <1>1. CASE Publish(t)
    <2>1. /\ pc[t] = "publish" /\ loop' = t /\ UNCHANGED <<db, template, backup, threshold>>
          /\ raw' = raw \cup {work[t].payload}
          /\ pc' = [pc EXCEPT ![t] = "record"] /\ work' = [work EXCEPT ![t] = work[t]]
      BY <1>1, <1>at, <1>types DEF Publish, Goto
    <2>2. IsActive' = IsActive /\ work[t].was = IsActive
      BY <1>at, <2>1 DEF IsActive, ActiveWith, CInv, ActivationKnown
    <2>3. Served # None => Served' = Served
      BY <2>1, <2>2 DEF Served
    <2>4. template' # None /\ ~late' => template' = Served'
      BY <2>1, <2>3 DEF CInv, BuiltFrom, StaysLate
    <2>5. PICK step \in Committing \ {"put"} : step = "record"
      BY DEF Committing
    <2>6. template' # None /\ ~late'
            => Matches(template', step, work[t], Served', db'.digest, backup')
      BY <2>4, <2>5 DEF Matches
    <2>7. /\ loop' = t /\ pc' = [pc EXCEPT ![t] = step] /\ work' = [work EXCEPT ![t] = work[t]]
          /\ step \in {"publish", "record", "fail"} => work[t].was = IsActive'
          /\ step = "clear" => work[t].payload # None
      BY <2>1, <2>2, <2>5
    <2>8. QED
      BY <1>at, <2>6, <2>7, CommitStep, Zenon
  <1>2. CASE Record(t)
    <2> DEFINE new == [work[t] EXCEPT !.previous = db.digest, !.updated = TRUE]
    <2>1. /\ pc[t] = "record" /\ loop' = t /\ UNCHANGED <<raw, template, backup, threshold>>
          /\ pc' = [pc EXCEPT ![t] = "prune"] /\ work' = [work EXCEPT ![t] = new]
      BY <1>2, <1>at DEF Record, Goto
    <2>2. /\ new.kind = work[t].kind /\ new.was = work[t].was /\ new.previous = db.digest
      BY <1>types DEF Locals
    <2>3. work[t].was = IsActive
      BY <1>at, <2>1 DEF CInv, ActivationKnown
    <2>4. Served # None => Served = Former(work[t].was, db.digest, backup)
      BY <2>3 DEF Served, Former
    <2>5. template' # None /\ ~late' => template' = Former(new.was, new.previous, backup')
      BY <2>1, <2>2, <2>4 DEF CInv, BuiltFrom, StaysLate
    <2> HIDE DEF new
    <2>6. PICK step \in Committing \ {"put"} : step = "prune"
      BY DEF Committing
    <2>7. template' # None /\ ~late'
            => Matches(template', step, new, Served', db'.digest, backup')
      BY <2>5, <2>6 DEF Matches, Outside
    <2>8. /\ loop' = t /\ pc' = [pc EXCEPT ![t] = step] /\ work' = [work EXCEPT ![t] = new]
          /\ new.kind \in Refreshing
          /\ step \in {"publish", "record", "fail"} => new.was = IsActive'
          /\ step = "clear" => new.payload # None
      BY <1>at, <2>1, <2>2, <2>6
    <2>9. QED
      BY <1>at, <2>7, <2>8, CommitStep, Zenon
  <1>3. CASE Prune(t)
    <2>1. /\ pc[t] = "prune" /\ loop' = t /\ UNCHANGED <<db, template, backup, threshold>>
          /\ pc' = [pc EXCEPT ![t] = "clear"] /\ work' = [work EXCEPT ![t] = work[t]]
      BY <1>3, <1>at, <1>types DEF Prune, Goto
    <2>2. work[t].payload # None
      BY <1>types, <2>1 DEF CInv, Inv, CommitInOrder
    <2>3. template' # None /\ ~late' => template' = Former(work[t].was, work[t].previous, backup')
      BY <2>1 DEF CInv, BuiltFrom, StaysLate
    <2>4. PICK step \in Committing \ {"put"} : step = "clear"
      BY DEF Committing
    <2>5. template' # None /\ ~late'
            => Matches(template', step, work[t], Served', db'.digest, backup')
      BY <2>3, <2>4 DEF Matches, Outside
    <2>6. /\ loop' = t /\ pc' = [pc EXCEPT ![t] = step] /\ work' = [work EXCEPT ![t] = work[t]]
          /\ step \in {"publish", "record", "fail"} => work[t].was = IsActive'
          /\ step = "clear" => work[t].payload # None
      BY <2>1, <2>2, <2>4
    <2>7. QED
      BY <1>at, <2>5, <2>6, CommitStep, Zenon
  <1>4. CASE ClearConverted(t)
    <2>1. /\ pc[t] = "clear" /\ loop' = t /\ UNCHANGED <<db, backup>>
          /\ pc' = [pc EXCEPT ![t] = "settle"] /\ work' = [work EXCEPT ![t] = work[t]]
      BY <1>4, <1>at, <1>types DEF ClearConverted, Goto, Refreshing
    <2>2. work[t].payload = db.digest /\ db.digest # None
      BY <2>1 DEF CInv, CallsKnown, Inv, CommitInOrder
    <2>3. template' # None => template' = template /\ work[t].previous = db.digest
      BY <1>4, <2>2 DEF ClearConverted, Cleared, RefreshesOnly
    <2>4. template' # None /\ ~late' => template' = Former(work[t].was, db.digest, backup)
      BY <2>1, <2>3 DEF CInv, BuiltFrom, StaysLate
    <2>5. PICK step \in Committing \ {"put"} : step = "settle"
      BY DEF Committing
    <2>6. template' # None /\ ~late'
            => Matches(template', step, work[t], Served', db'.digest, backup')
      BY <2>1, <2>2, <2>4, <2>5 DEF Matches, Outside
    <2>7. /\ loop' = t /\ pc' = [pc EXCEPT ![t] = step] /\ work' = [work EXCEPT ![t] = work[t]]
          /\ step \in {"publish", "record", "fail"} => work[t].was = IsActive'
          /\ step = "clear" => work[t].payload # None
      BY <2>1, <2>5
    <2>8. QED
      BY <1>at, <2>6, <2>7, CommitStep, Zenon
  <1>5. CASE RecordFailure(t)
    <2>1. /\ pc[t] = "fail" /\ loop' = t /\ UNCHANGED <<template, backup>>
          /\ db'.digest = db.digest
          /\ pc' = [pc EXCEPT ![t] = "settle"] /\ work' = [work EXCEPT ![t] = work[t]]
      BY <1>5, <1>at, <1>types DEF RecordFailure, Goto, Row
    <2>2. work[t].was = IsActive
      BY <1>at, <2>1 DEF CInv, ActivationKnown
    <2>3. Served # None =>
            /\ Served = Former(work[t].was, db.digest, backup)
            /\ work[t].was \/ db.digest # None
      <3>1. db.digest \in raw => db.digest # None
        BY <1>types DEF CInv, Inv, TypeOK
      <3>2. QED
        BY <2>2, <3>1 DEF Served, Former
    <2>4. template' # None /\ ~late' =>
            /\ template' = Former(work[t].was, db'.digest, backup')
            /\ work[t].was \/ db'.digest # None
      BY <2>1, <2>3 DEF CInv, BuiltFrom, StaysLate
    <2>5. PICK step \in Committing \ {"put"} : step = "settle"
      BY DEF Committing
    <2>6. template' # None /\ ~late'
            => Matches(template', step, work[t], Served', db'.digest, backup')
      BY <2>4, <2>5 DEF Matches, Outside
    <2>7. /\ loop' = t /\ pc' = [pc EXCEPT ![t] = step] /\ work' = [work EXCEPT ![t] = work[t]]
          /\ step \in {"publish", "record", "fail"} => work[t].was = IsActive'
          /\ step = "clear" => work[t].payload # None
      BY <2>1, <2>5
    <2>8. QED
      BY <1>at, <2>6, <2>7, CommitStep, Zenon
  <1>6. CASE Settle(t)
    <2>1. /\ pc[t] = "settle" /\ loop' = None /\ UNCHANGED <<db, raw, backup, threshold>>
      BY <1>6 DEF Settle, Release
    <2>2. Served' = Served /\ IsActive' = IsActive
      BY <2>1, SameService
    <2>3. template' # None => template' = template /\ work[t].was = IsActive
      <3>1. IsRefresh(t)
        BY <1>at DEF IsRefresh, Refreshing
      <3>2. QED
        BY <1>6, <3>1 DEF Settle, Cleared, RefreshesOnly
    <2>4. template' # None /\ ~late' => template' = Served'
      <3>1. template' # None /\ ~late' =>
              template = Former(IsActive, db.digest, backup) /\ (IsActive \/ db.digest # None)
        BY <2>1, <2>3 DEF CInv, BuiltFrom, StaysLate
      <3>2. db.digest # None => db.digest \in raw
        BY DEF CInv, Inv, CurrentReadable
      <3>3. QED
        BY <2>2, <2>3, <3>1, <3>2 DEF Served, Former
    <2>5. PICK step \in {"hook", "hooked", "idle"} : pc' = [pc EXCEPT ![t] = step]
      BY <1>6 DEF Settle, Return, Goto
    <2>6. PICK new \in {work[t], Blank} : work' = [work EXCEPT ![t] = new]
      BY <1>6, <1>types DEF Settle, Return
    <2>7. /\ step \in Outside \ {"waiting"} /\ step \notin Committing
          /\ step \notin {"publish", "record", "fail", "prune", "clear", "settle"}
      BY DEF Outside, Committing
    <2>8. template' # None /\ ~late'
            => Matches(template', step, new, Served', db'.digest, backup')
      BY <2>4, <2>7 DEF Matches
    <2>9. /\ step \in {"publish", "record", "fail"} => new.was = IsActive'
          /\ step = "clear" => new.payload # None
          /\ step \in Committing => new.kind \in Refreshing
      BY <2>7
    <2>10. QED
      BY <1>at, <2>1, <2>5, <2>6, <2>7, <2>8, <2>9, CommitStep, Zenon
  <1>7. QED
    BY <1>1, <1>2, <1>3, <1>4, <1>5, <1>6

LEMMA FreshStep ==
  ASSUME CInv, RefreshesOnly, [CNext]_cvars
  PROVE  CallsKnown' /\ ActivationKnown' /\ BuiltFrom'
  <1>1. ASSUME UNCHANGED <<vars, late>>
        PROVE  CallsKnown' /\ ActivationKnown' /\ BuiltFrom'
    <2>1. UNCHANGED <<db, raw, template, backup, threshold, loop, pc, work, late>>
      BY <1>1 DEF vars, disk, volatile
    <2>2. Served' = Served /\ IsActive' = IsActive
      BY <2>1, SameService
    <2>3. CallsKnown' /\ ActivationKnown'
      BY <2>1, <2>2 DEF CInv, CallsKnown, ActivationKnown
    <2>4. BuiltFrom'
      BY <2>1, <2>2 DEF CInv, BuiltFrom, Former
    <2>5. QED
      BY <2>3, <2>4
  <1>2. ASSUME NEW r \in Renderers, Request(r) \/ ConverterReads(r) \/ RenderFailed(r)
        PROVE  UNCHANGED <<vars, late>>
    BY <1>2 DEF Request, ConverterReads, RenderFailed
  <1>3. UNCHANGED cvars => UNCHANGED <<vars, late>>
    BY DEF cvars
  <1>4. ASSUME NEW r \in Renderers, WriteTemplate(r)
        PROVE  CallsKnown' /\ ActivationKnown' /\ BuiltFrom'
    <2>1. /\ UNCHANGED <<db, raw, backup, threshold, loop, pc, work>> /\ loop = None
          /\ template' = render[r].input /\ late' = (render[r].input # Served)
      BY <1>4 DEF WriteTemplate, ConverterWrites, volatile
    <2>2. Served' = Served /\ IsActive' = IsActive
      BY <2>1, SameService
    <2>3. CallsKnown' /\ ActivationKnown'
      BY <2>1, <2>2 DEF CInv, CallsKnown, ActivationKnown
    <2>4. ~late' => template' = Served'
      BY <2>1, <2>2
    <2>5. \A t \in Tasks : pc'[t] \notin Committing
      BY <2>1, NamesAreDistinct DEF CInv, Inv, CommitInOrder
    <2>6. BuiltFrom'
      BY <2>4, <2>5 DEF BuiltFrom, Committing
    <2>7. QED
      BY <2>3, <2>6
  <1>5. CASE RestartsRenders
    <2>1. /\ \A t \in Tasks : pc'[t] = "idle"
          /\ UNCHANGED <<db, raw, template, backup, threshold>>
          /\ late' = (template # None /\ (late \/ loop # None))
      BY <1>5 DEF RestartsRenders, Crash, disk
    <2>2. Served' = Served
      BY <2>1, SameService
    <2>3. template' # None /\ ~late' => template' = Served'
      BY <2>1, <2>2 DEF CInv, BuiltFrom
    <2>4. QED
      BY <2>1, <2>3
      DEF CallsKnown, ActivationKnown, BuiltFrom, Awaiting, Committing
  <1>6. CASE RefresherStep
    <2>1. Step /\ StaysLate
      BY <1>6, Zenon DEF RefresherStep, StaysLate
    <2>unsettled. ASSUME NEW t \in Tasks, Unsettled(t), template' # None PROVE late'
      BY <1>6, <2>unsettled, Zenon DEF RefresherStep
    <2>2. ASSUME NEW t \in Tasks, Call(t) \/ Proceed(t)
          PROVE  CallsKnown' /\ ActivationKnown' /\ BuiltFrom'
      BY <2>1, <2>2, <2>unsettled, FreshCall, FreshProceed, FreshCommit
    <2>3. ASSUME NEW n \in Thresholds, SetThreshold(n) PROVE FALSE
      BY <2>3 DEF SetThreshold, RefreshesOnly, CInv, Inv, TypeOK
    <2>4. ASSUME Tick PROVE CallsKnown' /\ ActivationKnown' /\ BuiltFrom'
      <3>1. UNCHANGED <<raw, template, backup, threshold, loop, pc>> /\ loop = None
        BY <2>4 DEF Tick
      <3>2. db'.digest = db.digest /\ db'.failures = db.failures
        BY <2>4 DEF Tick, CInv, Inv, TypeOK, Row
      <3>3. Served' = Served /\ IsActive' = IsActive
        BY <3>1, <3>2, SameService
      <3>4. \A t \in Tasks : LET new == [work[t] EXCEPT !.age = Older(work[t].age)]
                             IN  /\ new.kind = work[t].kind /\ new.was = work[t].was
                                 /\ new.payload = work[t].payload
        BY DEF CInv, Inv, TypeOK, Locals
      <3>5. \A t \in Tasks : /\ work'[t].kind = work[t].kind /\ work'[t].was = work[t].was
                             /\ work'[t].payload = work[t].payload
        BY <2>4, <3>4 DEF Tick
      <3>6. CallsKnown' /\ ActivationKnown'
        BY <3>1, <3>3, <3>5 DEF CInv, CallsKnown, ActivationKnown
      <3>7. \A t \in Tasks : pc'[t] \notin Committing
        BY <3>1, NamesAreDistinct DEF CInv, Inv, CommitInOrder
      <3>8. template' # None /\ ~late' => template' = Served'
        BY <2>1, <3>1, <3>3 DEF CInv, BuiltFrom, StaysLate
      <3>9. BuiltFrom'
        BY <3>7, <3>8 DEF BuiltFrom, Committing
      <3>10. QED
        BY <3>6, <3>9
    <2>5. QED
      BY <2>1, <2>2, <2>3, <2>4 DEF Step
  <1>7. QED
    BY <1>1, <1>2, <1>3, <1>4, <1>5, <1>6 DEF CNext

\* With refreshes and protocol tests only, every converted file was built from what
\* is served whenever nobody is in a commit, but for those of an overtaken render and
\* those that a refresh which was cut short did not come to clear.
THEOREM TemplatesAreFresh ==
  ASSUME RefreshesOnly
  PROVE  CSpec => []StaleOnlyIfOvertaken
  <1>1. CInit => CInv
    BY FreshInit
  <1>2. CInv /\ [CNext]_cvars => CInv'
    BY FreshStep, RenderStepRefines, RenderStepKeepsInputs, InvStep DEF CInv
  <1>3. CInv => StaleOnlyIfOvertaken
    BY DEF CInv, BuiltFrom, StaleOnlyIfOvertaken
  <1>4. QED
    BY <1>1, <1>2, <1>3, PTL DEF CSpec
=============================================================================
