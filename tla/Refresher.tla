----------------------------- MODULE Refresher -----------------------------
(* UpstreamRefresher (subscription.py) with the state it shares: the         *)
(* runtime_state row and the stored credentials (db.py, secret_store.py),    *)
(* the raw and converted files (cache_files.py), and the backup nodes        *)
(* (backup_nodes.py) whose activation follows the failure count.             *)
(*                                                                           *)
(* Coroutines share one event loop, so between two awaits a task runs alone: *)
(* `loop` names the task inside such a section when the section is several   *)
(* steps here.  They are several steps because the process may die between   *)
(* them, and because the thread that stores settings is not on the loop.     *)
(* A payload is its digest.  Times are ages that stop growing at AgeCap,     *)
(* above which no comparison of the code tells them apart.                   *)
EXTENDS Integers, Sequences, FiniteSets

CONSTANTS
    Tasks,          \* coroutines that may call the refresher
    Payloads,       \* digests of the bodies the upstream may deliver
    Credentials,    \* airport accounts; FirstCredentials is the configured one
    FirstCredentials,
    None,           \* no task, no payload, no template
    BackupContent,  \* the template tag of output built from backup nodes
    Sources,        \* the configured ones of "protocol" and "fallback"
    Kinds,          \* the calls made in this instance
    Faults,         \* "disk", "database", "crash": what may go wrong
    InitialBackup,  \* whether backup nodes are configured at the start
    SecretsAvailable, \* the encryption key is present
    Thresholds,     \* values of backup_fail_threshold
    MaxKeep,        \* newest raw files that pruning keeps
    MinRetry,       \* MIN_RETRY_SECONDS, in ticks
    MaxAge,         \* the refresh interval, in ticks
    MaxBackoff,     \* the cap of _stale_after, in ticks
    AgeCap,         \* bound: ages saturate here
    FailureCap      \* bound: consecutive_failures saturates here

\* What requests are answered with: a payload, with the backup nodes merged in
\* or not (one set of nodes is not told from another), or the backup nodes alone.
Contents == (Payloads \X BOOLEAN) \cup {BackupContent}

AllKinds == {"refresh", "on_demand", "test", "credentials", "health", "auto", "save"}

ASSUME NamesAreDistinct ==
    /\ None \notin Tasks \cup Payloads
    /\ None \notin Contents
    /\ BackupContent \notin Payloads \X BOOLEAN
    /\ FirstCredentials \in Credentials
ASSUME SourcesAssumption ==
    /\ Sources \in SUBSET {"protocol", "fallback"}
    /\ Sources # {}
ASSUME SwitchesAssumption ==
    /\ Kinds \subseteq AllKinds
    /\ Faults \subseteq {"disk", "database", "crash"}
    /\ InitialBackup \in BOOLEAN
    /\ SecretsAvailable \in BOOLEAN
    /\ InitialBackup => SecretsAvailable
ASSUME BoundsAssumption ==
    /\ MaxKeep \in Nat /\ MinRetry \in Nat /\ MaxAge \in Nat
    /\ MaxBackoff \in Nat /\ AgeCap \in Nat /\ FailureCap \in Nat
    /\ MinRetry <= AgeCap /\ MaxBackoff <= AgeCap
    /\ Thresholds # {} /\ Thresholds \subseteq 1..FailureCap
ASSUME RawFilesAreFinite == IsFiniteSet(Payloads)

VARIABLES
    db,         \* the runtime_state row
    raw,        \* digests with a file under cache/raw
    template,   \* what the converted file was built from, or None
    creds,      \* the stored airport credentials
    backup,     \* backup nodes are stored and parse
    threshold,  \* the backup_fail_threshold setting
    refreshing, \* UpstreamRefresher._refreshing
    lock,       \* the holder of UpstreamRefresher._lock
    queue,      \* its waiters, first come first served
    loop,       \* the task in the middle of a synchronous section
    pc,         \* where each task is
    nested,     \* the task's call was made by its own refresh hook
    work        \* the local variables of each task

disk == <<db, raw, template, creds, backup, threshold>>
volatile == <<refreshing, lock, queue, loop, pc, nested, work>>
vars == <<disk, volatile>>

Row == [digest: Payloads \cup {None}, failures: 0..FailureCap,
        attemptAge: 0..AgeCap, successAge: 0..AgeCap, protocolError: BOOLEAN]

\* Steps of the critical section of _lock, those that await and those that do not.
Awaiting == {"resolving", "downloading"}
Committing == {"publish", "record", "prune", "clear", "put", "fail", "settle"}
Outside == {"idle", "waiting", "hook", "hooked"}

Locals == [kind: AllKinds \cup {"none"}, was: BOOLEAN, age: 0..AgeCap,
           source: {"protocol", "fallback", "none"}, attempt: 0..1,
           payload: Payloads \cup {None}, previous: Payloads \cup {None},
           updated: BOOLEAN, cred: Credentials]

Blank == [kind |-> "none", was |-> FALSE, age |-> 0, source |-> "none",
          attempt |-> 0, payload |-> None, previous |-> None,
          updated |-> FALSE, cred |-> FirstCredentials]

TypeOK ==
    /\ db \in Row
    /\ raw \in SUBSET Payloads
    /\ template \in Contents \cup {None}
    /\ creds \in Credentials
    /\ backup \in BOOLEAN
    /\ threshold \in Thresholds
    /\ refreshing \in BOOLEAN
    /\ lock \in Tasks \cup {None}
    /\ queue \in Seq(Tasks)
    /\ loop \in Tasks \cup {None}
    /\ pc \in [Tasks -> Outside \cup Awaiting \cup Committing]
    /\ nested \in [Tasks -> BOOLEAN]
    /\ work \in [Tasks -> Locals]

-----------------------------------------------------------------------------
\* Pure parts of the code.

Lesser(a, b) == IF a < b THEN a ELSE b

\* Age after one more tick; failure count after one more failure.
Older(age) == IF age < AgeCap THEN age + 1 ELSE age
OneMore(n) == IF n < FailureCap THEN n + 1 ELSE n

\* The cache age from which a refresh is due: the interval doubled per failure.
StaleAfter(failures) == Lesser(MaxAge * (2 ^ Lesser(failures, 4)), MaxBackoff)

IsStale ==
    /\ db.attemptAge >= MinRetry
    /\ db.successAge >= StaleAfter(db.failures)

\* Requests are answered from the backup nodes.
ActiveWith(configured) == configured /\ db.failures >= threshold
IsActive == ActiveWith(backup)

\* The contents a request is answered with, None when there is none yet.
Served ==
    IF IsActive THEN BackupContent
    ELSE IF db.digest \in raw THEN <<db.digest, backup>> ELSE None

\* Deviation: only the newest files are kept, whatever is current.
PrunedByAge(files, keep) ==
    {s \in SUBSET files : Cardinality(s) = Lesser(MaxKeep, Cardinality(files))}

\* Deviation: one file too many is kept.
PrunedOffByOne(files, keep) ==
    {(newest \cup keep) \cap files :
        newest \in {s \in SUBSET files :
            Cardinality(s) = Lesser(MaxKeep + 1, Cardinality(files))}}

\* What pruning may leave: the digests to keep and the newest MaxKeep files.
\* Which those are depends on modification times, which are left open.
Pruned(files, keep) ==
    {(newest \cup keep) \cap files :
        newest \in {s \in SUBSET files :
            Cardinality(s) = Lesser(MaxKeep, Cardinality(files))}}

\* unlink errors are swallowed, and leave the file in place.
Cleared == IF "disk" \in Faults THEN {None, template} ELSE {None}

\* The protocol source is tried before the static URL.
FirstSource == IF "protocol" \in Sources THEN "protocol" ELSE "fallback"

IsRefresh(t) == work[t].kind \in {"refresh", "on_demand"}

\* The health check called refresh() from a hook and has not returned from it.
AutoRefreshInFlight == \E t \in Tasks : nested[t]

-----------------------------------------------------------------------------
\* How a call ends.

Goto(t, step) == pc' = [pc EXCEPT ![t] = step]

\* The call returns, or raises, to its caller: to the hook if that made it.
Return(t) ==
    /\ Goto(t, IF nested[t] THEN "hooked" ELSE "idle")
    /\ nested' = [nested EXCEPT ![t] = FALSE]
    /\ work' = [work EXCEPT ![t] = Blank]

\* Deviation: the flag is reset by hand and an error path forgets it.
ReleaseKeepingFlag(t) ==
    /\ lock' = None
    /\ loop' = None
    /\ UNCHANGED <<refreshing, queue>>

\* `async with self._lock` and the finally clause of _refresh_locked.
Release(t) ==
    /\ lock' = None
    /\ loop' = None
    /\ refreshing' = FALSE
    /\ UNCHANGED queue

\* Enter the queue of the lock.
Enqueue(t, kind, cred) ==
    /\ Goto(t, "waiting")
    /\ queue' = Append(queue, t)
    /\ work' = [work EXCEPT ![t] = [Blank EXCEPT !.kind = kind, !.cred = cred]]
    /\ UNCHANGED <<refreshing, lock, loop>>

-----------------------------------------------------------------------------
\* Calls.

Idle(t) == pc[t] = "idle" /\ loop = None

\* refresh(), called by the mail watcher and the admin API.
CallRefresh(t) ==
    /\ "refresh" \in Kinds /\ Idle(t)
    /\ Enqueue(t, "refresh", FirstCredentials)
    /\ UNCHANGED <<disk, nested>>

\* refresh_if_stale(), called by the scheduler and by downloads: returns at
\* once while a refresh runs or while the cache is fresh.
CallRefreshIfStale(t) ==
    /\ "on_demand" \in Kinds /\ Idle(t)
    /\ ~refreshing /\ IsStale
    /\ Enqueue(t, "on_demand", FirstCredentials)
    /\ UNCHANGED <<disk, nested>>

CallTestProtocol(t) ==
    /\ "test" \in Kinds /\ Idle(t)
    /\ Enqueue(t, "test", FirstCredentials)
    /\ UNCHANGED <<disk, nested>>

CallUpdateCredentials(t, cred) ==
    /\ "credentials" \in Kinds /\ Idle(t)
    /\ Enqueue(t, "credentials", cred)
    /\ UNCHANGED <<disk, nested>>

\* The health scheduler runs the same integration code as the refresh hook.
CallRunHealth(t) ==
    /\ "health" \in Kinds /\ Idle(t)
    /\ Goto(t, "hook")
    /\ work' = [work EXCEPT ![t] = [Blank EXCEPT !.kind = "health"]]
    /\ UNCHANGED <<disk, nested, refreshing, lock, queue, loop>>

\* PUT /backup-nodes: stores or deletes the nodes without taking the lock.
\* A change of activation clears the converted files and runs the hook.
SaveBackupNodes(t) ==
    /\ "save" \in Kinds /\ Idle(t)
    /\ SecretsAvailable
    /\ backup' = ~backup
    /\ IF ActiveWith(backup) # ActiveWith(~backup)
       THEN /\ template' \in Cleared
            /\ Goto(t, "hook")
            /\ work' = [work EXCEPT ![t] = [Blank EXCEPT !.kind = "save"]]
       ELSE UNCHANGED <<template, pc, work>>
    /\ UNCHANGED <<db, raw, creds, threshold, nested, refreshing, lock, queue, loop>>

\* PUT /settings, on a thread: at any moment, even inside a commit.
SetThreshold(n) ==
    /\ n # threshold
    /\ threshold' = n
    /\ UNCHANGED <<db, raw, template, creds, backup, volatile>>

-----------------------------------------------------------------------------
\* The critical section.

\* The task at the head of the queue gets the lock.
Granted(t) ==
    /\ pc[t] = "waiting" /\ loop = None
    /\ lock = None
    /\ queue # <<>> /\ Head(queue) = t

\* Deviation: staleness is checked before queueing only.
StillDueUnchecked(t) == TRUE

\* What an on-demand call checks again once it has the lock.
StillDue(t) == work[t].kind = "on_demand" => ~refreshing /\ IsStale

StartAttempt(t) ==
    /\ Granted(t) /\ IsRefresh(t) /\ StillDue(t)
    /\ lock' = t
    /\ queue' = Tail(queue)
    /\ refreshing' = TRUE
    /\ Goto(t, IF FirstSource = "protocol" THEN "resolving" ELSE "downloading")
    /\ work' = [work EXCEPT ![t] = [@ EXCEPT !.was = IsActive, !.age = 0, !.source = FirstSource]]
    /\ UNCHANGED <<disk, loop, nested>>

\* A waiter finds that the refresh it queued behind did its job; or the row cannot
\* be read, which the caller of a refresh gets to see.
NoLongerDue(t) ==
    /\ Granted(t)
    /\ ~StillDue(t) \/ (IsRefresh(t) /\ "database" \in Faults)
    /\ queue' = Tail(queue)
    /\ Return(t)
    /\ UNCHANGED <<disk, refreshing, lock, loop>>

\* test_protocol and update_protocol_credentials hold the lock, not the flag.
StartProtocolCall(t) ==
    /\ Granted(t) /\ work[t].kind \in {"test", "credentials"}
    /\ queue' = Tail(queue)
    /\ IF "protocol" \in Sources
       THEN /\ lock' = t
            /\ Goto(t, "resolving")
            /\ work' = [work EXCEPT ![t].source = "protocol"]
            /\ UNCHANGED nested
       ELSE Return(t) /\ UNCHANGED lock
    /\ UNCHANGED <<disk, refreshing, loop>>

\* The airport accepted the login and named the subscription URL.
Resolved(t) ==
    /\ pc[t] = "resolving" /\ loop = None
    /\ db' = [db EXCEPT !.protocolError = FALSE]
    /\ IF work[t].kind = "test"
       THEN Release(t) /\ Return(t)
       ELSE /\ Goto(t, "downloading")
            /\ UNCHANGED <<refreshing, lock, queue, loop, nested, work>>
    /\ UNCHANGED <<raw, template, creds, backup, threshold>>

\* Deviation: the credentials are stored once the download worked.
DownloadedSavesFirst(t, p) ==
    /\ pc[t] = "downloading" /\ loop = None
    /\ creds' = IF work[t].kind = "credentials" THEN work[t].cred ELSE creds
    /\ loop' = t
    /\ Goto(t, "publish")
    /\ work' = [work EXCEPT ![t].payload = p]
    /\ UNCHANGED <<db, raw, template, backup, threshold, refreshing, lock, queue, nested>>

\* A body arrived and passed validate_subscription; the commit starts.
Downloaded(t, p) ==
    /\ pc[t] = "downloading" /\ loop = None
    /\ IF work[t].kind = "credentials" /\ ~SecretsAvailable
       THEN Release(t) /\ Return(t)
       ELSE /\ loop' = t
            /\ Goto(t, "publish")
            /\ work' = [work EXCEPT ![t].payload = p]
            /\ UNCHANGED <<refreshing, lock, queue, nested>>
    /\ UNCHANGED disk

\* Where a failed source leads: once more after an expired login, then to the
\* next source, then to record_refresh_failure.
TryNext(t, retryable) ==
    IF work[t].source = "protocol" /\ retryable /\ work[t].attempt = 0
    THEN /\ Goto(t, "resolving")
         /\ work' = [work EXCEPT ![t].attempt = 1]
         /\ loop' = None
    ELSE IF work[t].source = "protocol" /\ "fallback" \in Sources
    THEN /\ Goto(t, "downloading")
         /\ work' = [work EXCEPT ![t] = [@ EXCEPT !.source = "fallback", !.payload = None]]
         /\ loop' = None
    ELSE /\ Goto(t, "fail")
         /\ work' = [work EXCEPT ![t].payload = None]
         /\ loop' = t

\* Network, HTTP, validation and file errors of the attempt.
AttemptFailed(t, retryable) ==
    /\ db' = [db EXCEPT !.protocolError = (work[t].source = "protocol") \/ @]
    /\ IF IsRefresh(t)
       THEN TryNext(t, retryable) /\ UNCHANGED <<refreshing, lock, queue, nested>>
       ELSE Release(t) /\ Return(t)

\* The airport or the download server did not deliver.
UpstreamFailed(t, retryable) ==
    /\ pc[t] \in Awaiting /\ loop = None
    /\ AttemptFailed(t, retryable)
    /\ UNCHANGED <<raw, template, creds, backup, threshold>>

\* Deviation: the file is left for after the row.
PublishLater(t) ==
    /\ pc[t] = "publish"
    /\ Goto(t, "record")
    /\ UNCHANGED <<disk, refreshing, lock, queue, loop, nested, work>>

\* Both raw files are replaced atomically, each on its own.
Publish(t) ==
    /\ pc[t] = "publish"
    /\ raw' = raw \cup {work[t].payload}
    /\ Goto(t, "record")
    /\ UNCHANGED <<db, template, creds, backup, threshold, refreshing, lock, queue, loop, nested, work>>

\* Writing them failed, before or after the payload was in place.
PublishFailed(t) ==
    /\ "disk" \in Faults
    /\ pc[t] = "publish"
    /\ raw' \in {raw, raw \cup {work[t].payload}}
    /\ AttemptFailed(t, FALSE)
    /\ UNCHANGED <<template, creds, backup, threshold>>

\* record_refresh_success: one transaction.
Record(t) ==
    /\ pc[t] = "record"
    /\ db' = [db EXCEPT !.digest = work[t].payload, !.failures = 0, !.successAge = 0,
                        !.attemptAge = work[t].age]
    /\ work' = [work EXCEPT ![t] = [@ EXCEPT !.previous = db.digest, !.updated = TRUE]]
    /\ Goto(t, "prune")
    /\ UNCHANGED <<raw, template, creds, backup, threshold, refreshing, lock, queue, loop, nested>>

\* prune_raw({digest}); listing the files may fail, which skips it, and so may the
\* unlinking of any of them.
Prune(t) ==
    /\ pc[t] = "prune"
    /\ \/ raw' \in Pruned(raw, {work[t].payload})
       \/ /\ "disk" \in Faults
          /\ raw' \in SUBSET raw
          /\ \E kept \in Pruned(raw, {work[t].payload}) : kept \subseteq raw'
    /\ Goto(t, "clear")
    /\ UNCHANGED <<db, template, creds, backup, threshold, refreshing, lock, queue, loop, nested, work>>

\* Deviation: a new digest leaves the converted files alone.
ClearConvertedNever(t) ==
    /\ pc[t] = "clear"
    /\ Goto(t, IF work[t].kind = "credentials" THEN "put" ELSE "settle")
    /\ UNCHANGED <<disk, refreshing, lock, queue, loop, nested, work>>

\* clear_converted, when the digest is another than before.
ClearConverted(t) ==
    /\ pc[t] = "clear"
    /\ IF work[t].payload # work[t].previous THEN template' \in Cleared ELSE UNCHANGED template
    /\ Goto(t, IF work[t].kind = "credentials" THEN "put" ELSE "settle")
    /\ UNCHANGED <<db, raw, creds, backup, threshold, refreshing, lock, queue, loop, nested, work>>

\* credential_store.put, after the commit.
PutCredentials(t) ==
    /\ pc[t] = "put"
    /\ creds' = work[t].cred
    /\ Goto(t, "settle")
    /\ UNCHANGED <<db, raw, template, backup, threshold, refreshing, lock, queue, loop, nested, work>>

\* Deviation: a failure forgets the digest along with the success.
RecordFailureForgets(t) ==
    /\ pc[t] = "fail"
    /\ db' = [db EXCEPT !.failures = OneMore(@), !.attemptAge = work[t].age, !.digest = None]
    /\ Goto(t, "settle")
    /\ UNCHANGED <<raw, template, creds, backup, threshold, refreshing, lock, queue, loop, nested, work>>

\* record_refresh_failure: every source failed.
RecordFailure(t) ==
    /\ pc[t] = "fail"
    /\ db' = [db EXCEPT !.failures = OneMore(@), !.attemptAge = work[t].age]
    /\ Goto(t, "settle")
    /\ UNCHANGED <<raw, template, creds, backup, threshold, refreshing, lock, queue, loop, nested, work>>

\* Steps at which a statement on runtime_state may raise sqlite3.Error; that of
\* "settle" reads the row, to tell whether the backup nodes are in use now.
Queries(t) ==
    \/ pc[t] = "resolving" /\ loop = None
    \/ pc[t] = "downloading" /\ work[t].source = "protocol" /\ loop = None
    \/ pc[t] \in {"record", "put", "fail"}
    \/ pc[t] = "settle" /\ IsRefresh(t)

\* sqlite3.Error: update_protocol_credentials catches it and records a failure,
\* if that can be written; out of a refresh or a test it escapes to the caller.
\* (A file error whose recording fails too ends like Publish or Downloaded
\* followed by this step.)
DatabaseError(t) ==
    /\ "database" \in Faults
    /\ Queries(t)
    /\ \/ UNCHANGED db
       \/ work[t].kind = "credentials" /\ db' = [db EXCEPT !.protocolError = TRUE]
    /\ Release(t) /\ Return(t)
    /\ UNCHANGED <<raw, template, creds, backup, threshold>>

\* Deviations: the hook is told of one kind of change only.
AnnouncesFailover(t) == IsRefresh(t) /\ ~work[t].was /\ IsActive
AnnouncesUpdates(t) == work[t].updated

\* Whether the hook is to be told of the attempt.
Announces(t) ==
    \/ work[t].updated
    \/ IsRefresh(t) /\ ~work[t].was /\ IsActive

\* Deviation: the hook runs before the lock is released.
SettleHoldingLock(t) ==
    /\ pc[t] = "settle"
    /\ IF Announces(t)
       THEN /\ Goto(t, "hook")
            /\ refreshing' = FALSE /\ loop' = None
            /\ UNCHANGED <<lock, queue, nested, work>>
       ELSE Release(t) /\ Return(t)
    /\ UNCHANGED disk

\* The end of the critical section: a refresh that changed the activation of
\* the backup nodes clears the converted files; then the lock is free, and only
\* then does the hook run.
Settle(t) ==
    /\ pc[t] = "settle"
    /\ IF IsRefresh(t) /\ work[t].was # IsActive
       THEN template' \in Cleared ELSE UNCHANGED template
    /\ Release(t)
    /\ IF Announces(t)
       THEN Goto(t, "hook") /\ UNCHANGED <<nested, work>>
       ELSE Return(t)
    /\ UNCHANGED <<db, raw, creds, backup, threshold>>

-----------------------------------------------------------------------------
\* The hook: sync_after_refresh, whose exceptions are swallowed.

\* A health check in the hook found too few nodes online and calls refresh().
AutoRefresh(t) ==
    /\ "auto" \in Kinds
    /\ pc[t] = "hook" /\ loop = None
    /\ ~AutoRefreshInFlight
    /\ nested' = [nested EXCEPT ![t] = TRUE]
    /\ Enqueue(t, "refresh", FirstCredentials)
    /\ UNCHANGED disk

EndHook(t) ==
    /\ pc[t] \in {"hook", "hooked"} /\ loop = None
    /\ Return(t)
    /\ UNCHANGED <<disk, refreshing, lock, queue, loop>>

-----------------------------------------------------------------------------
\* The environment.

\* The converter writes a template; ConvertedCache says which and when.
ConverterWrites(content) ==
    /\ loop = None
    /\ template' = content
    /\ UNCHANGED <<db, raw, creds, backup, threshold, volatile>>

Tick ==
    /\ loop = None
    /\ db' = [db EXCEPT !.attemptAge = Older(@), !.successAge = Older(@)]
    /\ work' = [t \in Tasks |-> IF IsRefresh(t) /\ lock = t
                                THEN [work[t] EXCEPT !.age = Older(@)] ELSE work[t]]
    /\ UNCHANGED <<raw, template, creds, backup, threshold, refreshing, lock, queue, loop, pc, nested>>

\* The process dies and is started again.
Crash ==
    /\ "crash" \in Faults
    /\ refreshing' = FALSE
    /\ lock' = None
    /\ queue' = <<>>
    /\ loop' = None
    /\ pc' = [t \in Tasks |-> "idle"]
    /\ nested' = [t \in Tasks |-> FALSE]
    /\ work' = [t \in Tasks |-> Blank]
    /\ UNCHANGED disk

-----------------------------------------------------------------------------
Init ==
    /\ db = [digest |-> None, failures |-> 0, attemptAge |-> AgeCap,
             successAge |-> AgeCap, protocolError |-> FALSE]
    /\ raw = {}
    /\ template = None
    /\ creds = FirstCredentials
    /\ backup = InitialBackup
    /\ threshold \in Thresholds
    /\ refreshing = FALSE
    /\ lock = None
    /\ queue = <<>>
    /\ loop = None
    /\ pc = [t \in Tasks |-> "idle"]
    /\ nested = [t \in Tasks |-> FALSE]
    /\ work = [t \in Tasks |-> Blank]

Call(t) ==
    \/ CallRefresh(t) \/ CallRefreshIfStale(t) \/ CallTestProtocol(t)
    \/ \E cred \in Credentials : CallUpdateCredentials(t, cred)
    \/ CallRunHealth(t) \/ SaveBackupNodes(t)

\* What a task does by itself once it was called.
Proceed(t) ==
    \/ StartAttempt(t) \/ NoLongerDue(t) \/ StartProtocolCall(t)
    \/ Resolved(t)
    \/ \E p \in Payloads : Downloaded(t, p)
    \/ \E retryable \in BOOLEAN : UpstreamFailed(t, retryable)
    \/ Publish(t) \/ PublishFailed(t) \/ Record(t) \/ Prune(t) \/ ClearConverted(t)
    \/ PutCredentials(t) \/ RecordFailure(t) \/ DatabaseError(t) \/ Settle(t)
    \/ AutoRefresh(t) \/ EndHook(t)

\* The steps of a running service; the converter is not part of it.
Step ==
    \/ \E t \in Tasks : Call(t) \/ Proceed(t)
    \/ \E n \in Thresholds : SetThreshold(n)
    \/ Tick

Next == Step \/ Crash \/ \E content \in Contents : ConverterWrites(content)

Spec == Init /\ [][Next]_vars

\* Every await has a deadline (HTTP timeouts, DOWNLOAD_TOTAL_DEADLINE), and the
\* loop takes its ready tasks in turn: a task that is ready while another one
\* is in a synchronous section, over and over, gets its turn.  Hence strong
\* fairness, per task.  Nothing makes a caller call, or the process die.
LiveSpec == Spec /\ \A t \in Tasks : SF_vars(Proceed(t))
-----------------------------------------------------------------------------
\* The promise of LastGoodCache, kept by the files and the row together.

LastGood == INSTANCE LastGoodCache WITH
    served <- IF db.digest \in raw THEN db.digest ELSE None,
    candidate <- IF loop # None /\ pc[loop] \in {"publish", "record"}
                 THEN work[loop].payload ELSE None

\* publish_raw, record_refresh_success, prune_raw and clear_converted with a
\* crash or an error after any of them look to a reader like one atomic
\* replacement of the payload, or like nothing at all.
ImplementsLastGood == LastGood!Spec

\* The same, and every validated payload is published or dropped in the end.
ImplementsLiveLastGood == LastGood!LiveSpec

\* The digest in the database always has its file: _commit_success writes the
\* file before the row and never prunes the digest it has just recorded.
CurrentReadable == db.digest # None => db.digest \in raw

\* One commit at a time, in the order file, row, the rest: a digest goes into the
\* row only when its file is there, and pruning, clearing and the storing of
\* credentials go by a digest that is the one in the row.
CommitInOrder ==
    \A t \in Tasks :
        /\ pc[t] \in Committing <=> loop = t
        /\ pc[t] \in {"publish", "record", "prune"} => work[t].payload \in Payloads
        /\ pc[t] = "record" => work[t].payload \in raw
        /\ pc[t] \in {"prune", "clear", "put"} =>
            work[t].updated /\ work[t].payload = db.digest

\* Exactly the tasks between `async with self._lock` and its end hold the lock,
\* and _refreshing is set exactly while one of them refreshes: no error path
\* leaves the flag set, which would switch refresh_if_stale off for good.
FlagTracksLock ==
    /\ \A t \in Tasks : pc[t] \in Awaiting \cup Committing <=> lock = t
    /\ refreshing <=> \E t \in Tasks : lock = t /\ IsRefresh(t)

\* Nobody is forgotten at the lock and nobody waits for itself: while a call waits
\* for it, another one is at work under it, or one of those that wait gets it.  The
\* refresh that a hook makes inside a refresh (integration.py:128) finds the lock
\* released, and a waiter stays in line when errors or exits pass the lock on.
LockMovesOn ==
    (\E t \in Tasks : pc[t] = "waiting") =>
        \E u \in Tasks : (lock = u /\ pc[u] \in Awaiting \cup Committing) \/ Granted(u)

\* Whatever was downloaded so far, pruning leaves MaxKeep files and the current
\* one; holds as long as no commit was cut short.
RawFilesBounded == loop = None => Cardinality(raw) <= MaxKeep + 1

\* A caller of refresh_if_stale reaches the upstream only when, at that moment
\* and not when it queued for the lock, the last attempt is MIN_RETRY_SECONDS
\* old and the cache older than its interval, twice that after a failure.
OnDemandOnlyWhenDue ==
    [][\A t \in Tasks :
        work[t].kind = "on_demand" /\ pc[t] = "waiting" /\ pc'[t] \in Awaiting =>
            /\ db.attemptAge >= MinRetry
            /\ db.successAge >= Lesser(MaxAge, MaxBackoff)
            /\ db.failures > 0 => db.successAge >= Lesser(2 * MaxAge, MaxBackoff)]_vars

\* Stored credentials change only to those with which the payload now in the
\* cache was fetched: "commit first, then persist the new credentials".
CredentialsFollowCommit ==
    [][creds' # creds =>
        \E t \in Tasks : /\ lock = t
                        /\ creds' = work[t].cred
                        /\ work[t].updated /\ db.digest = work[t].payload]_vars

\* No step takes a call that recorded a payload past the hook, be it a refresh or an
\* update of the credentials, except where the payload outlives its call: the
\* process dies, the accepted credentials cannot be stored (an error that
\* update_protocol_credentials reports, with the payload already in the row), or a
\* refresh cannot read the row once more after its commit.
UpdateGoesThroughHook ==
    [][\A t \in Tasks : work[t].updated /\ ~work'[t].updated =>
        \/ pc[t] \in {"hook", "hooked"}
        \/ pc[t] \in {"put", "settle"} /\ "database" \in Faults
        \/ "crash" \in Faults /\ pc' = [u \in Tasks |-> "idle"]]_vars

\* Every call returns, the refresh a hook makes from inside a refresh included:
\* the hook runs after the lock was released.
EveryCallReturns == \A t \in Tasks : pc[t] # "idle" ~> pc[t] = "idle"

\* A recorded payload is announced to the hook (OpenClash push, health check).
UpdateAnnounced == \A t \in Tasks : pc[t] = "prune" ~> pc[t] = "hook"

\* So is the failure that makes the backup nodes take over, or keeps them in use,
\* when the refresh began without them; unless the threshold, which a thread may
\* store at any moment, is raised before the comparison.  A refresh that began with
\* them announces nothing, even if the threshold was raised after its start and its
\* own failure is what makes them take over again: `was` is read at the start.
FailoverAnnounced ==
    \A t \in Tasks :
        (pc[t] = "fail" /\ ~work[t].was /\ backup /\ OneMore(db.failures) >= threshold)
            ~> (pc[t] = "hook" \/ (pc[t] = "settle" /\ ~IsActive))
=============================================================================
