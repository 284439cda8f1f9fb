--------------------------- MODULE DeliveryProofs ---------------------------
(* Proofs about Delivery, for any callers and providers, with a preferred    *)
(* one or without, and any number of versions.                               *)
EXTENDS Delivery, TLAPS

Steps == {"idle", "waiting", "fetching", "list", "put", "told", "served", "answered",
          "health", "answering"}
Jobs == [kind: {"none", "hook", "mute", "push"}, todo: SUBSET Providers]

\* TypeOK, by groups of variables.
VersionTypes ==
    /\ served \in 0..MaxVersion
    /\ got \in [Feeds -> 0..MaxVersion] /\ held \in [Feeds -> 0..MaxVersion]
TaskTypes ==
    /\ pc \in [Tasks -> Steps]
    /\ job \in [Tasks -> Jobs]
    /\ feed \in [Tasks -> Feeds \cup {None}]
SetTypes == wanted \in SUBSET Feeds /\ excused \in SUBSET Feeds

-----------------------------------------------------------------------------
\* The invariant.

\* Somebody will see to it that OpenClash downloads the feed again, or nobody
\* need: something failed.
Owed(f) ==
    \/ \E t \in Tasks : f \in Pending(t)
    \/ f \in wanted
    \/ f \in excused

\* With no download in progress, or with the one whose answer is under way,
\* OpenClash will hold an older version than what is served.
Lags(f) ==
    \/ pc[f] = "idle" /\ held[f] # served
    \/ pc[f] = "answering" /\ got[f] # served

NothingForgotten == \A f \in Pushed : Lags(f) => Owed(f)

\* A feed is downloaded once at a time, so OpenClash never goes back.
VersionsInOrder ==
    \A f \in Feeds :
        /\ held[f] <= served
        /\ pc[f] = "answering" => held[f] <= got[f] /\ got[f] <= served

Inv == TypeOK /\ VersionsInOrder /\ NothingForgotten

-----------------------------------------------------------------------------
\* Types.

LEMMA FeedTypes ==
  /\ Named \in SUBSET Providers /\ Pushed \in SUBSET Feeds /\ Providers \in SUBSET Feeds
  /\ Config \in Feeds /\ Config \notin Providers /\ Feeds \in SUBSET Tasks
  /\ Pushed = Named \cup {Config}
  BY DeliveryAssumption DEF Named, Pushed, Feeds, Tasks

LEMMA TypeParts ==
  TypeOK <=> /\ due \in BOOLEAN /\ lock \in Tasks \cup {None}
             /\ VersionTypes /\ TaskTypes /\ SetTypes
  BY DEF TypeOK, VersionTypes, TaskTypes, SetTypes, Steps, Jobs

LEMMA ExcuseType ==
  ASSUME SetTypes, NEW feeds \in SUBSET Feeds, Excuse(feeds)
  PROVE  excused' \in SUBSET Feeds
  BY DEF Excuse, SetTypes

LEMMA FinishType ==
  ASSUME TaskTypes, VersionTypes, served' \in 0..MaxVersion, NEW t \in Tasks, Finish(t)
  PROVE  TaskTypes' /\ got' \in [Feeds -> 0..MaxVersion]
  <1>1. NoJob \in Jobs
    BY DEF NoJob, Jobs
  <1>2. job' \in [Tasks -> Jobs] /\ feed' \in [Tasks -> Feeds \cup {None}]
    BY <1>1 DEF Finish, TaskTypes
  <1>3. pc' \in [Tasks -> Steps]
    BY DEF Finish, Goto, TaskTypes, Steps
  <1>4. got' \in [Feeds -> 0..MaxVersion]
    BY DEF Finish, VersionTypes
  <1>5. QED
    BY <1>2, <1>3, <1>4 DEF TaskTypes

LEMMA BeginHookType ==
  ASSUME TaskTypes, SetTypes, NEW t \in Tasks, BeginHook(t), UNCHANGED feed
  PROVE  TaskTypes' /\ excused' \in SUBSET Feeds
  <1>1. pc' \in [Tasks -> Steps]
    BY DEF BeginHook, Goto, TaskTypes, Steps
  <1>2. job' \in [Tasks -> Jobs]
    <2>1. \A kind \in {"hook", "mute"} : [job[t] EXCEPT !.kind = kind] \in Jobs
      BY DEF TaskTypes, Jobs
    <2>2. PICK kind \in {"hook", "mute"} : job' = [job EXCEPT ![t] = [job[t] EXCEPT !.kind = kind]]
      BY DEF BeginHook
    <2>3. QED
      BY <2>1, <2>2 DEF TaskTypes
  <1>3. excused' \in SUBSET Feeds
    BY ExcuseType, FeedTypes DEF BeginHook, SetTypes
  <1>4. QED
    BY <1>1, <1>2, <1>3 DEF TaskTypes

LEMMA AfterProvidersType ==
  ASSUME TaskTypes, VersionTypes, served' \in 0..MaxVersion, NEW t \in Tasks,
         NEW todo \in SUBSET Providers, AfterProviders(t, todo)
  PROVE  TaskTypes' /\ got' \in [Feeds -> 0..MaxVersion]
  <1>1. \A rest \in SUBSET Providers : [job[t] EXCEPT !.todo = rest] \in Jobs
    BY DEF TaskTypes, Jobs
  <1>2. CASE todo # {}
    <2>1. job' \in [Tasks -> Jobs] /\ feed' \in [Tasks -> Feeds \cup {None}] /\ got' = got
      BY <1>1, <1>2 DEF AfterProviders, TaskTypes
    <2>2. pc' \in [Tasks -> Steps]
      BY <1>2 DEF AfterProviders, Goto, TaskTypes, Steps
    <2>3. QED
      BY <2>1, <2>2 DEF TaskTypes, VersionTypes
  <1>3. CASE todo = {} /\ job[t].kind = "push"
    BY <1>3, FinishType DEF AfterProviders
  <1>4. CASE todo = {} /\ job[t].kind # "push"
    <2>1. job' = [job EXCEPT ![t] = [job[t] EXCEPT !.todo = {}]]
      BY <1>4 DEF AfterProviders
    <2>2. job' \in [Tasks -> Jobs] /\ feed' \in [Tasks -> Feeds \cup {None}] /\ got' = got
      BY <1>1, <1>4, <2>1 DEF AfterProviders, TaskTypes
    <2>3. pc' \in [Tasks -> Steps]
      BY <1>4 DEF AfterProviders, Goto, TaskTypes, Steps
    <2>4. QED
      BY <2>2, <2>3 DEF TaskTypes, VersionTypes
  <1>5. QED
    BY <1>2, <1>3, <1>4

LEMMA TypingInit == Init => TypeOK
  <1> SUFFICES ASSUME Init PROVE TypeOK
    OBVIOUS
  <1>1. NoJob \in Jobs
    BY DEF NoJob, Jobs
  <1>2. VersionTypes /\ SetTypes
    BY DeliveryAssumption DEF Init, VersionTypes, SetTypes
  <1>3. TaskTypes
    BY <1>1 DEF Init, TaskTypes, Steps
  <1>4. due \in BOOLEAN /\ lock \in Tasks \cup {None}
    BY Zenon DEF Init
  <1>5. QED
    BY <1>2, <1>3, <1>4, TypeParts

\* A step that keeps what the refresher reads, and each group's types.
LEMMA TypingByParts ==
  ASSUME TypeOK, UNCHANGED <<due, lock>>, VersionTypes', TaskTypes', SetTypes'
  PROVE  TypeOK'
  BY TypeParts DEF TypeOK, VersionTypes, TaskTypes, SetTypes, Steps, Jobs

LEMMA TellType ==
  ASSUME TypeOK, NEW t \in Tasks, NEW f \in Feeds, Tell(t, f), job' \in [Tasks -> Jobs]
  PROVE  TypeOK'
  <1>1. VersionTypes /\ TaskTypes /\ SetTypes
    BY TypeParts
  <1>2. VersionTypes' /\ SetTypes' /\ UNCHANGED <<due, lock>>
    BY <1>1 DEF Tell, VersionTypes, SetTypes, service
  <1>3. pc' \in [Tasks -> Steps] /\ feed' \in [Tasks -> Feeds \cup {None}]
    BY <1>1 DEF Tell, Goto, TaskTypes, Steps
  <1>4. QED
    BY <1>2, <1>3, TypingByParts DEF TaskTypes

LEMMA EndDownloadType ==
  ASSUME TypeOK, NEW f \in Feeds, EndDownload(f),
         held' \in [Feeds -> 0..MaxVersion], excused' \in SUBSET Feeds
  PROVE  TypeOK'
  <1>1. VersionTypes /\ TaskTypes /\ SetTypes
    BY TypeParts
  <1>2. VersionTypes' /\ SetTypes' /\ UNCHANGED <<due, lock>>
    BY <1>1, DeliveryAssumption DEF EndDownload, VersionTypes, SetTypes, service
  <1>3. pc' \in [Tasks -> Steps]
    BY <1>1 DEF EndDownload, TaskTypes, Steps
  <1>4. QED
    BY <1>1, <1>2, <1>3, TypingByParts DEF EndDownload, TaskTypes

LEMMA TypingContinue ==
  ASSUME TypeOK, NEW t \in Tasks, Continue(t)
  PROVE  TypeOK'
  <1>1. VersionTypes /\ TaskTypes /\ SetTypes
    BY TypeParts
  <1>kept. ASSUME UNCHANGED <<served, due, lock, wanted, held>>, TaskTypes',
                  got' \in [Feeds -> 0..MaxVersion], excused' \in SUBSET Feeds
           PROVE  TypeOK'
    BY <1>1, <1>kept, TypingByParts DEF VersionTypes, SetTypes
  <1>todo. job[t].todo \in SUBSET Providers
    BY <1>1 DEF TaskTypes, Jobs
  <1>same. UNCHANGED served => served' \in 0..MaxVersion
    BY <1>1 DEF VersionTypes
  <1>2. CASE Refreshed(t)
    <2>1. TaskTypes' /\ excused' \in SUBSET Feeds
      BY <1>1, <1>2, BeginHookType DEF Refreshed
    <2>2. served' \in 0..MaxVersion
      BY <1>1, <1>2, DeliveryAssumption DEF Refreshed, VersionTypes
    <2>3. due' \in BOOLEAN /\ lock' \in Tasks \cup {None}
      BY <1>2, Zenon DEF Refreshed
    <2>4. VersionTypes' /\ SetTypes'
      BY <1>1, <1>2, <2>1, <2>2 DEF Refreshed, VersionTypes, SetTypes, router
    <2>5. QED
      BY <2>1, <2>3, <2>4 DEF TypeOK, VersionTypes, TaskTypes, SetTypes, Steps, Jobs
  <1>3. CASE RefreshFails(t)
    <2>1. TaskTypes' /\ got' \in [Feeds -> 0..MaxVersion]
      BY <1>1, <1>3, <1>same, FinishType DEF RefreshFails
    <2>2. due' \in BOOLEAN /\ lock' \in Tasks \cup {None}
      BY <1>3, Zenon DEF RefreshFails
    <2>3. VersionTypes' /\ SetTypes'
      BY <1>1, <1>3, <2>1 DEF RefreshFails, VersionTypes, SetTypes
    <2>4. QED
      BY <2>1, <2>2, <2>3 DEF TypeOK, VersionTypes, TaskTypes, SetTypes, Steps, Jobs
  <1>4. CASE ListProviders(t)
    BY <1>1, <1>4, <1>kept, <1>same, AfterProvidersType, FeedTypes
       DEF ListProviders, SetTypes, service
  <1>5. CASE ListFails(t)
    <2>1. excused' \in SUBSET Feeds
      BY <1>1, <1>5, ExcuseType, FeedTypes DEF ListFails, SetTypes
    <2>2. (IF Preferred # None THEN {Preferred} ELSE {}) \in SUBSET Providers
      BY DeliveryAssumption
    <2>3. TaskTypes' /\ got' \in [Feeds -> 0..MaxVersion]
      BY <1>1, <1>5, <1>same, <2>2, AfterProvidersType DEF ListFails
    <2>4. QED
      BY <1>5, <1>kept, <2>1, <2>3 DEF ListFails, service
  <1>6. CASE PutProvider(t)
    <2>1. PICK p \in job[t].todo : /\ Tell(t, p)
                                   /\ job' = [job EXCEPT ![t].todo = @ \ {p}]
      BY <1>6 DEF PutProvider
    <2>2. [job[t] EXCEPT !.todo = job[t].todo \ {p}] \in Jobs
      BY <1>1 DEF TaskTypes, Jobs
    <2>3. job' \in [Tasks -> Jobs]
      BY <1>1, <2>1, <2>2 DEF TaskTypes
    <2>4. QED
      BY <1>todo, <2>1, <2>3, FeedTypes, TellType
  <1>7. CASE PutFails(t)
    <2>1. PICK p \in job[t].todo :
            IF job[t].kind = "push"
            THEN Finish(t) /\ UNCHANGED excused
            ELSE AfterProviders(t, job[t].todo \ {p}) /\ Excuse({p})
      BY <1>7 DEF PutFails
    <2>2. TaskTypes' /\ got' \in [Feeds -> 0..MaxVersion]
      BY <1>1, <1>7, <1>same, <1>todo, <2>1, FinishType, AfterProvidersType DEF PutFails
    <2>3. excused' \in SUBSET Feeds
      BY <1>1, <1>todo, <2>1, ExcuseType, FeedTypes DEF SetTypes
    <2>4. QED
      BY <1>7, <1>kept, <2>2, <2>3 DEF PutFails, service
  <1>8. CASE ToldProvider(t)
    <2>1. TaskTypes' /\ got' \in [Feeds -> 0..MaxVersion]
      BY <1>1, <1>8, <1>same, <1>todo, FinishType, AfterProvidersType DEF ToldProvider
    <2>2. QED
      BY <1>1, <1>8, <1>kept, <2>1 DEF ToldProvider, service, SetTypes
  <1>9. CASE TellConfig(t)
    BY <1>1, <1>9, TellType, FeedTypes DEF TellConfig, TaskTypes
  <1>10. CASE EndHook(t)
    <2>1. excused' \in SUBSET Feeds
      BY <1>1, <1>10, ExcuseType, FeedTypes DEF EndHook, SetTypes
    <2>2. TaskTypes' /\ got' \in [Feeds -> 0..MaxVersion]
      BY <1>1, <1>10, <1>same, FinishType DEF EndHook
    <2>3. QED
      BY <1>10, <1>kept, <2>1, <2>2 DEF EndHook, service
  <1>11. CASE ToldConfig(t)
    <2>1. TaskTypes' /\ got' \in [Feeds -> 0..MaxVersion]
      BY <1>1, <1>11, <1>same, FinishType DEF ToldConfig
    <2>2. QED
      BY <1>1, <1>11, <1>kept, <2>1 DEF ToldConfig, service, SetTypes
  <1>12. QED
    BY <1>2, <1>3, <1>4, <1>5, <1>6, <1>7, <1>8, <1>9, <1>10, <1>11 DEF Continue

LEMMA TypingStep == TypeOK /\ [Next]_vars => TypeOK'
  <1> SUFFICES ASSUME TypeOK, [Next]_vars PROVE TypeOK'
    OBVIOUS
  <1>typed. VersionTypes /\ TaskTypes /\ SetTypes
    BY TypeParts
  <1>job. [kind |-> "push", todo |-> {}] \in Jobs
    BY DEF Jobs
  <1>none. NoJob \in Jobs
    BY DEF NoJob, Jobs
  <1>1. ASSUME NEW t \in Tasks, Granted(t) PROVE TypeOK'
    <2>1. due' \in BOOLEAN /\ lock' \in Tasks \cup {None}
      BY <1>1 DEF Granted, TypeOK
    <2>2. CASE t \in Callers \/ due
      <3>1. pc' \in [Tasks -> Steps]
        BY <1>1, <1>typed, <2>2 DEF Granted, Goto, TaskTypes, Steps
      <3>2. QED
        BY <1>1, <1>typed, <2>1, <2>2, <3>1
           DEF Granted, TypeOK, VersionTypes, TaskTypes, SetTypes, Steps, Jobs
    <2>3. CASE ~(t \in Callers \/ due)
      <3>1. TaskTypes' /\ got' \in [Feeds -> 0..MaxVersion]
        BY <1>1, <1>typed, <2>3, FinishType DEF Granted, VersionTypes
      <3>2. QED
        BY <1>1, <1>typed, <2>1, <3>1
           DEF Granted, TypeOK, VersionTypes, TaskTypes, SetTypes, Steps, Jobs
    <2>4. QED
      BY <2>2, <2>3
  <1>2. ASSUME NEW t \in Tasks, Continue(t) PROVE TypeOK'
    BY <1>2, TypingContinue
  <1>3. ASSUME NEW t \in Callers, CallRefresh(t) PROVE TypeOK'
    <2>1. pc' \in [Tasks -> Steps]
      BY <1>3, <1>typed DEF CallRefresh, Goto, TaskTypes, Steps
    <2>2. QED
      BY <1>3, <1>typed, <2>1, TypingByParts
         DEF CallRefresh, VersionTypes, TaskTypes, SetTypes, service, router
  <1>4. ASSUME NEW t \in Callers, SaveBackupNodes(t) PROVE TypeOK'
    <2>1. t \in Tasks
      BY DEF Tasks
    <2>2. TaskTypes' /\ excused' \in SUBSET Feeds
      BY <1>4, <1>typed, <2>1, BeginHookType DEF SaveBackupNodes
    <2>3. served' \in 0..MaxVersion
      BY <1>4, <1>typed, DeliveryAssumption DEF SaveBackupNodes, VersionTypes
    <2>4. QED
      BY <1>4, <1>typed, <2>2, <2>3, TypingByParts
         DEF SaveBackupNodes, VersionTypes, SetTypes, router
  <1>5. ASSUME NEW t \in Callers, CallPush(t) PROVE TypeOK'
    <2>1. pc' \in [Tasks -> Steps]
      BY <1>5, <1>typed DEF CallPush, Goto, TaskTypes, Steps
    <2>2. job' \in [Tasks -> Jobs]
      BY <1>5, <1>typed, <1>job DEF CallPush, TaskTypes
    <2>3. QED
      BY <1>5, <1>typed, <2>1, <2>2, TypingByParts
         DEF CallPush, VersionTypes, TaskTypes, SetTypes, service, router
  <1>6. ASSUME NEW f \in Feeds, StartDownload(f) PROVE TypeOK'
    <2> DEFINE begun == IF due /\ lock = None THEN "waiting" ELSE "answering"
    <2>1. pc' = [t \in Tasks |->
                   IF t = f THEN begun
                   ELSE IF pc[t] = "told" /\ feed[t] = f THEN "served" ELSE pc[t]]
      BY <1>6 DEF StartDownload
    <2>2. pc' \in [Tasks -> Steps]
      BY <1>typed, <2>1 DEF TaskTypes, Steps
    <2>3. got' \in [Feeds -> 0..MaxVersion]
      BY <1>6, <1>typed DEF StartDownload, VersionTypes
    <2>4. QED
      BY <1>6, <1>typed, <2>2, <2>3, TypingByParts
         DEF StartDownload, VersionTypes, TaskTypes, SetTypes, service
  <1>7. ASSUME NEW f \in Feeds, Answer(f) PROVE TypeOK'
    <2>1. CASE Store(f)
      <3>1. held' \in [Feeds -> 0..MaxVersion] /\ excused' \in SUBSET Feeds
        BY <1>typed, <2>1 DEF Store, VersionTypes, SetTypes
      <3>2. QED
        BY <2>1, <3>1, EndDownloadType DEF Store
    <2>2. CASE Lose(f)
      <3>1. held' \in [Feeds -> 0..MaxVersion] /\ excused' \in SUBSET Feeds
        BY <1>typed, <2>2, ExcuseType DEF Lose, VersionTypes, SetTypes
      <3>2. QED
        BY <2>2, <3>1, EndDownloadType DEF Lose
    <2>3. QED
      BY <1>7, <2>1, <2>2 DEF Answer
  <1>8. CASE ChangeQuietly
    <2>1. excused' \in SUBSET Feeds
      BY <1>8, <1>typed, ExcuseType DEF ChangeQuietly
    <2>2. served' \in 0..MaxVersion
      BY <1>8, <1>typed, DeliveryAssumption DEF ChangeQuietly, VersionTypes
    <2>3. QED
      BY <1>8, <1>typed, <2>1, <2>2, TypingByParts
         DEF ChangeQuietly, VersionTypes, TaskTypes, SetTypes, router
  <1>9. CASE BecomeDue
    <2>1. due' \in BOOLEAN
      BY <1>9 DEF BecomeDue
    <2>2. QED
      BY <1>9, <2>1 DEF BecomeDue, TypeOK, router
  <1>10. CASE Restart
    <2>1. TaskTypes'
      BY <1>10, <1>none DEF Restart, TaskTypes, Steps
    <2>2. excused' \in SUBSET Feeds
      <3> DEFINE lost == {f \in Feeds : pc[f] # "idle"} \cup UNION {Pending(t) : t \in Tasks}
      <3>1. \A t \in Tasks : Pending(t) \in SUBSET Feeds
        BY <1>typed, FeedTypes DEF Pending, TaskTypes, Jobs
      <3>2. lost \in SUBSET Feeds
        BY <3>1
      <3>3. QED
        BY <1>10, <1>typed, <3>2, ExcuseType DEF Restart
    <2>3. got' \in [Feeds -> 0..MaxVersion] /\ UNCHANGED <<served, held>>
      BY <1>10, DeliveryAssumption DEF Restart
    <2>4. due' \in BOOLEAN /\ lock' \in Tasks \cup {None} /\ wanted' = wanted
      BY <1>10 DEF Restart, TypeOK
    <2>5. VersionTypes' /\ SetTypes'
      BY <1>typed, <2>2, <2>3, <2>4 DEF VersionTypes, SetTypes
    <2>6. QED
      BY <2>1, <2>4, <2>5 DEF TypeOK, VersionTypes, TaskTypes, SetTypes, Steps, Jobs
  <1>11. CASE UNCHANGED vars
    BY <1>11 DEF vars, service, router, TypeOK
  <1>12. QED
    BY <1>1, <1>2, <1>3, <1>4, <1>5, <1>6, <1>7, <1>8, <1>9, <1>10, <1>11 DEF Next

-----------------------------------------------------------------------------
\* What a step may do to a feed.

\* OpenClash keeps what it holds, no download of the feed ends, and one that has
\* its answer got it before, or gets what is served.
AnswerKept(f) ==
    /\ held'[f] = held[f]
    /\ pc'[f] = "idle" => pc[f] = "idle"
    /\ pc'[f] = "answering" =>
        got'[f] = served' \/ (pc[f] = "answering" /\ got'[f] = got[f])

\* A step that keeps the answers and owes what was owed keeps the invariant; with
\* another version served it has to owe everything.
LEMMA OwedStays ==
  ASSUME Inv, TypeOK', served <= served',
         \A f \in Feeds : AnswerKept(f),
         \A f \in Pushed :
            Lags(f)' /\ held[f] # served' /\ (served' = served => Owed(f)) => Owed(f)'
  PROVE  Inv'
  <1>typed. VersionTypes /\ VersionTypes' /\ TaskTypes
    BY TypeParts DEF Inv, TypeOK, VersionTypes
  <1>1. VersionsInOrder'
    BY <1>typed, DeliveryAssumption DEF Inv, VersionsInOrder, AnswerKept, VersionTypes
  <1>2. ASSUME NEW f \in Pushed, Lags(f)' PROVE Owed(f)'
    <2>1. f \in Feeds
      BY FeedTypes
    <2>2. CASE pc'[f] = "idle" /\ held'[f] # served'
      BY <1>2, <2>1, <2>2 DEF AnswerKept, Inv, NothingForgotten, Lags
    <2>3. CASE pc'[f] = "answering" /\ got'[f] # served'
      <3>1. pc[f] = "answering" /\ got'[f] = got[f]
        BY <2>1, <2>3 DEF AnswerKept
      <3>2. held[f] <= got[f] /\ got[f] <= served
        BY <2>1, <3>1 DEF Inv, VersionsInOrder
      <3>3. held[f] # served'
        BY <1>typed, <2>1, <2>3, <3>1, <3>2, DeliveryAssumption DEF VersionTypes
      <3>4. served' = served => Owed(f)
        BY <2>3, <3>1 DEF Inv, NothingForgotten, Lags
      <3>5. QED
        BY <1>2, <3>3, <3>4
    <2>4. QED
      BY <1>2, <2>2, <2>3 DEF Lags
  <1>3. Pushed' = Pushed
    BY DEF Pushed, Named
  <1>4. QED
    BY <1>1, <1>2 DEF Inv, NothingForgotten

\* What a task has to tell does not change while the task stands still.
LEMMA PendingStays ==
  ASSUME NEW u \in Tasks, pc'[u] = pc[u], job'[u] = job[u], feed'[u] = feed[u]
  PROVE  Pending(u)' = Pending(u)
  BY DEF Pending, AwaitsAnswer, Pushed, Named

\* One task moves, and passes on what it had to tell.
LEMMA OneTaskMoves ==
  ASSUME Inv, TypeOK', NEW t \in Tasks, UNCHANGED <<served, held>>,
         \A u \in Tasks \ {t} : pc'[u] = pc[u] /\ job'[u] = job[u] /\ feed'[u] = feed[u],
         \A f \in Feeds \ {t} : got'[f] = got[f],
         t \in Feeds => pc'[t] # "idle" /\ (pc'[t] = "answering" => got'[t] = served'),
         wanted \subseteq wanted', excused \subseteq excused',
         \A f \in Pending(t) : held[f] # served =>
            f \in Pending(t)' \/ f \in wanted' \/ f \in excused'
  PROVE  Inv'
  <1>1. ASSUME NEW f \in Feeds PROVE AnswerKept(f)
    <2>1. f \in Tasks
      BY DEF Tasks
    <2>2. QED
      BY <2>1 DEF AnswerKept
  <1>2. ASSUME NEW f \in Pushed, held[f] # served', Owed(f) PROVE Owed(f)'
    <2>1. ASSUME NEW u \in Tasks, f \in Pending(u) PROVE Owed(f)'
      <3>1. CASE u = t
        BY <1>2, <2>1, <3>1 DEF Owed
      <3>2. CASE u # t
        BY <2>1, <3>2, PendingStays DEF Owed
      <3>3. QED
        BY <3>1, <3>2
    <2>2. QED
      BY <1>2, <2>1 DEF Owed
  <1>3. served <= served'
    BY DeliveryAssumption DEF Inv, TypeOK
  <1>4. QED
    BY <1>1, <1>2, <1>3, OwedStays

\* Whatever lags is excused.
LEMMA ExcuseOwes ==
  ASSUME NEW feeds, Excuse(feeds), NEW f \in feeds, held[f] # served'
  PROVE  f \in excused'
  BY DEF Excuse

\* A hook that begins with another version being served.
LEMMA BeginHookKeeps ==
  ASSUME Inv, TypeOK', NEW t \in Tasks, pc[t] \in {"idle", "fetching"},
         t \in Feeds => pc[t] # "idle",
         served <= served', BeginHook(t), UNCHANGED <<feed, router>>
  PROVE  Inv'
  <1>typed. TaskTypes /\ SetTypes
    BY TypeParts DEF Inv
  <1>1. ASSUME NEW f \in Feeds PROVE AnswerKept(f)
    <2>1. f \in Tasks
      BY DEF Tasks
    <2>2. held'[f] = held[f] /\ got'[f] = got[f]
      BY DEF router
    <2>3. f # t => pc'[f] = pc[f]
      BY <1>typed, <2>1 DEF BeginHook, Goto, TaskTypes
    <2>4. pc'[t] \in {"list", "health"}
      BY <1>typed DEF BeginHook, Goto, TaskTypes
    <2>5. QED
      BY <2>2, <2>3, <2>4 DEF AnswerKept
  <1>2. ASSUME NEW f \in Pushed, held[f] # served' PROVE Owed(f)'
    <2>1. CASE Goto(t, "list") /\ job' = [job EXCEPT ![t].kind = "hook"]
      <3>1. pc'[t] = "list" /\ job'[t].kind = "hook"
        BY <1>typed, <2>1 DEF Goto, TaskTypes, Jobs
      <3>2. Pending(t)' = Pushed
        BY <3>1, Zenon DEF Pending, AwaitsAnswer, Pushed, Named
      <3>3. QED
        BY <3>2 DEF Owed
    <2>2. CASE Excuse(Pushed)
      BY <1>2, <2>2, ExcuseOwes DEF Owed
    <2>3. QED
      BY <2>1, <2>2 DEF BeginHook
  <1>3. QED
    BY <1>1, <1>2, OwedStays

-----------------------------------------------------------------------------
\* The steps.

LEMMA FinishKeeps ==
  ASSUME Inv, TypeOK', NEW t \in Tasks, pc[t] # "idle", Finish(t), UNCHANGED <<served, held>>,
         wanted \subseteq wanted', excused \subseteq excused',
         \A f \in Pending(t) : held[f] # served => f \in wanted' \/ f \in excused'
  PROVE  Inv'
  <1>typed. TaskTypes /\ VersionTypes
    BY TypeParts DEF Inv
  <1>1. \A u \in Tasks \ {t} : pc'[u] = pc[u] /\ job'[u] = job[u] /\ feed'[u] = feed[u]
    BY <1>typed DEF Finish, Goto, TaskTypes
  <1>2. \A f \in Feeds \ {t} : got'[f] = got[f]
    BY <1>typed DEF Finish, VersionTypes
  <1>3. t \in Feeds => pc'[t] = "answering" /\ got'[t] = served'
    BY <1>typed DEF Finish, Goto, TaskTypes, VersionTypes
  <1>4. QED
    BY <1>1, <1>2, <1>3, OneTaskMoves

\* The hook goes on: what is left of its providers, and the configuration, stays
\* with it.
LEMMA AfterProvidersKeeps ==
  ASSUME Inv, TypeOK', NEW t \in Tasks, pc[t] # "idle", NEW todo, AfterProviders(t, todo),
         UNCHANGED <<served, held>>,
         wanted \subseteq wanted', excused \subseteq excused',
         \A f \in Pending(t) \ (todo \cup {Config}) :
            held[f] # served => f \in wanted' \/ f \in excused'
  PROVE  Inv'
  <1>typed. TaskTypes
    BY TypeParts DEF Inv
  <1>push. job[t].kind # "hook" => Pending(t) = {}
    BY DEF Pending
  <1>others. CASE pc' = [pc EXCEPT ![t] = pc'[t]] /\ pc'[t] \in {"put", "health"}
                  /\ job' = [job EXCEPT ![t] = job'[t]]
                  /\ feed' = [feed EXCEPT ![t] = None] /\ UNCHANGED got
                  /\ (job[t].kind = "hook" =>
                        Pending(t)' = IF todo # {} THEN todo \cup {Config} ELSE {Config})
    <2>1. \A u \in Tasks \ {t} : pc'[u] = pc[u] /\ job'[u] = job[u] /\ feed'[u] = feed[u]
      BY <1>typed, <1>others DEF TaskTypes
    <2>2. \A f \in Pending(t) : held[f] # served =>
            f \in Pending(t)' \/ f \in wanted' \/ f \in excused'
      BY <1>others, <1>push
    <2>3. QED
      BY <1>others, <2>1, <2>2, OneTaskMoves
  <1>1. CASE todo # {}
    <2>1. /\ pc' = [pc EXCEPT ![t] = "put"]
          /\ job' = [job EXCEPT ![t] = [job[t] EXCEPT !.todo = todo]]
          /\ feed' = [feed EXCEPT ![t] = None] /\ UNCHANGED got
      BY <1>1 DEF AfterProviders, Goto
    <2>2. pc'[t] = "put" /\ job'[t] = [job[t] EXCEPT !.todo = todo] /\ job[t] \in Jobs
      BY <1>typed, <2>1 DEF TaskTypes
    <2>3. job'[t].kind = job[t].kind /\ job'[t].todo = todo
      BY <2>2 DEF Jobs
    <2>4. job[t].kind = "hook" => Pending(t)' = todo \cup {Config}
      BY <2>2, <2>3 DEF Pending
    <2>5. QED
      BY <1>1, <1>others, <2>1, <2>2, <2>4
  <1>2. CASE todo = {} /\ job[t].kind = "push"
    BY <1>2, <1>push, FinishKeeps DEF AfterProviders
  <1>3. CASE todo = {} /\ job[t].kind # "push"
    <2>1. /\ pc' = [pc EXCEPT ![t] = "health"]
          /\ job' = [job EXCEPT ![t] = [job[t] EXCEPT !.todo = {}]]
          /\ feed' = [feed EXCEPT ![t] = None] /\ UNCHANGED got
      BY <1>3 DEF AfterProviders, Goto
    <2>2. pc'[t] = "health" /\ job'[t] = [job[t] EXCEPT !.todo = {}] /\ job[t] \in Jobs
      BY <1>typed, <2>1 DEF TaskTypes
    <2>3. job'[t].kind = job[t].kind
      BY <2>2 DEF Jobs
    <2>4. job[t].kind = "hook" => Pending(t)' = {Config}
      BY <2>2, <2>3 DEF Pending, AwaitsAnswer
    <2>5. QED
      BY <1>3, <1>others, <2>1, <2>2, <2>4
  <1>4. QED
    BY <1>1, <1>2, <1>3

\* A feed that OpenClash has been told of is OpenClash's to download.
LEMMA TellKeeps ==
  ASSUME Inv, TypeOK', NEW t \in Tasks, pc[t] # "idle", NEW f \in Feeds, Tell(t, f),
         NEW job1 \in Jobs, job' = [job EXCEPT ![t] = job1], job1.kind = job[t].kind,
         \A g \in Pending(t) \ {f} : f # Config /\ g \in job1.todo \cup {Config}
  PROVE  Inv'
  <1>typed. TaskTypes
    BY TypeParts DEF Inv
  <1>1. pc'[t] = "told" /\ feed'[t] = f /\ job'[t] = job1
    BY <1>typed DEF Tell, Goto, TaskTypes
  <1>2. \A u \in Tasks \ {t} : pc'[u] = pc[u] /\ job'[u] = job[u] /\ feed'[u] = feed[u]
    BY <1>typed DEF Tell, Goto, TaskTypes
  <1>3. ASSUME NEW g \in Pending(t) PROVE g \in Pending(t)' \/ g \in wanted'
    <2>1. CASE g = f
      BY <2>1 DEF Tell
    <2>2. CASE g # f
      <3>1. job[t].kind = "hook"
        BY <1>3 DEF Pending
      <3>2. Pending(t)' = job1.todo \cup {Config}
        BY <1>1, <1>3, <2>2, <3>1 DEF Pending, AwaitsAnswer
      <3>3. QED
        BY <1>3, <2>2, <3>2
    <2>3. QED
      BY <2>1, <2>2
  <1>4. QED
    BY <1>1, <1>2, <1>3, OneTaskMoves DEF Tell

LEMMA PendingValues ==
  ASSUME NEW t \in Tasks
  PROVE  /\ pc[t] \in {"idle", "waiting", "fetching", "answering"} => Pending(t) = {}
         /\ job[t].kind # "hook" => Pending(t) = {}
         /\ pc[t] = "list" => Pending(t) \subseteq Pushed
         /\ pc[t] = "put" => Pending(t) \subseteq job[t].todo \cup {Config}
         /\ AwaitsAnswer(t) /\ feed[t] # Config => Pending(t) \subseteq job[t].todo \cup {Config}
         /\ AwaitsAnswer(t) /\ feed[t] = Config => Pending(t) = {}
         /\ pc[t] = "health" => Pending(t) \subseteq {Config}
  <1>1. pc[t] \in {"idle", "waiting", "fetching", "answering"} => Pending(t) = {}
    BY Zenon DEF Pending, AwaitsAnswer
  <1>2. job[t].kind # "hook" => Pending(t) = {}
    BY DEF Pending
  <1>3. pc[t] = "list" => Pending(t) \subseteq Pushed
    BY Zenon DEF Pending, AwaitsAnswer
  <1>4. pc[t] = "put" => Pending(t) \subseteq job[t].todo \cup {Config}
    BY Zenon DEF Pending, AwaitsAnswer
  <1>5. AwaitsAnswer(t) /\ feed[t] # Config => Pending(t) \subseteq job[t].todo \cup {Config}
    BY Zenon DEF Pending, AwaitsAnswer
  <1>6. AwaitsAnswer(t) /\ feed[t] = Config => Pending(t) = {}
    BY Zenon DEF Pending, AwaitsAnswer
  <1>7. pc[t] = "health" => Pending(t) \subseteq {Config}
    BY Zenon DEF Pending, AwaitsAnswer
  <1>8. QED
    BY <1>1, <1>2, <1>3, <1>4, <1>5, <1>6, <1>7

LEMMA ContinueKeeps ==
  ASSUME Inv, TypeOK', NEW t \in Tasks, Continue(t)
  PROVE  Inv'
  <1>typed. TaskTypes /\ VersionTypes /\ SetTypes
    BY TypeParts DEF Inv
  <1>todo. job[t].todo \in SUBSET Providers /\ job[t] \in Jobs
    BY <1>typed DEF TaskTypes, Jobs
  <1>1. CASE Refreshed(t)
    <2>1. served <= served'
      BY <1>1, <1>typed, DeliveryAssumption DEF Refreshed, VersionTypes
    <2>2. QED
      BY <1>1, <2>1, BeginHookKeeps DEF Refreshed
  <1>2. CASE RefreshFails(t)
    BY <1>2, PendingValues, FinishKeeps DEF RefreshFails
  <1>3. CASE ListProviders(t)
    <2>1. Pending(t) \ (Named \cup {Config}) = {}
      BY <1>3, PendingValues, FeedTypes DEF ListProviders
    <2>2. QED
      BY <1>3, <2>1, AfterProvidersKeeps DEF ListProviders
  <1>4. CASE ListFails(t)
    <2> DEFINE known == IF Preferred # None THEN {Preferred} ELSE {}
    <2>1. excused \subseteq excused'
      BY <1>4 DEF ListFails, Excuse
    <2>2. ASSUME NEW f \in Pending(t) \ (known \cup {Config}), held[f] # served
          PROVE  f \in excused'
      <3>1. job[t].kind = "hook" /\ f \in Named
        BY <1>4, <2>2, PendingValues, FeedTypes DEF ListFails
      <3>2. Preferred = None /\ f \in Providers
        BY <2>2, <3>1 DEF Named
      <3>3. Excuse(Providers) /\ served' = served
        BY <1>4, <3>1, <3>2 DEF ListFails
      <3>4. QED
        BY <2>2, <3>2, <3>3, ExcuseOwes
    <2>3. QED
      BY <1>4, <2>1, <2>2, AfterProvidersKeeps DEF ListFails
  <1>5. CASE PutProvider(t)
    <2>1. PICK p \in job[t].todo : /\ Tell(t, p)
                                   /\ job' = [job EXCEPT ![t].todo = @ \ {p}]
      BY <1>5 DEF PutProvider
    <2> DEFINE job1 == [job[t] EXCEPT !.todo = job[t].todo \ {p}]
    <2>2. job1 \in Jobs /\ job1.kind = job[t].kind /\ job1.todo = job[t].todo \ {p}
      BY <1>todo DEF Jobs
    <2>3. job' = [job EXCEPT ![t] = job1]
      BY <2>1
    <2>4. p \in Feeds /\ p # Config
      BY <1>todo, FeedTypes
    <2>5. \A g \in Pending(t) \ {p} : p # Config /\ g \in job1.todo \cup {Config}
      BY <1>5, <2>2, <2>4, PendingValues DEF PutProvider
    <2>6. pc[t] # "idle"
      BY <1>5 DEF PutProvider
    <2> HIDE DEF job1
    <2>7. QED
      BY <2>1, <2>2, <2>3, <2>4, <2>5, <2>6, TellKeeps
  <1>6. CASE PutFails(t)
    <2>1. PICK p \in job[t].todo :
            IF job[t].kind = "push"
            THEN Finish(t) /\ UNCHANGED excused
            ELSE AfterProviders(t, job[t].todo \ {p}) /\ Excuse({p})
      BY <1>6 DEF PutFails
    <2>2. CASE job[t].kind = "push"
      BY <1>6, <2>1, <2>2, PendingValues, FinishKeeps DEF PutFails
    <2>3. CASE job[t].kind # "push"
      <3>1. Pending(t) \ ((job[t].todo \ {p}) \cup {Config}) \subseteq {p}
        BY <1>6, PendingValues DEF PutFails
      <3>2. held[p] # served => p \in excused'
        BY <1>6, <2>1, <2>3, ExcuseOwes DEF PutFails
      <3>3. excused \subseteq excused'
        BY <2>1, <2>3 DEF Excuse
      <3>4. QED
        BY <1>6, <2>1, <2>3, <3>1, <3>2, <3>3, AfterProvidersKeeps DEF PutFails
    <2>4. QED
      BY <2>2, <2>3
  <1>7. CASE ToldProvider(t)
    <2>1. pc[t] # "idle"
      BY <1>7 DEF ToldProvider, AwaitsAnswer
    <2>2. CASE AfterProviders(t, job[t].todo)
      BY <1>7, <2>1, <2>2, PendingValues, AfterProvidersKeeps DEF ToldProvider
    <2>3. CASE job[t].kind = "push" /\ Finish(t)
      BY <1>7, <2>1, <2>3, PendingValues, FinishKeeps DEF ToldProvider
    <2>4. QED
      BY <1>7, <2>2, <2>3 DEF ToldProvider
  <1>8. CASE TellConfig(t)
    <2>1. job' = [job EXCEPT ![t] = job[t]]
      BY <1>8, <1>typed DEF TellConfig, TaskTypes
    <2>2. Pending(t) \ {Config} = {}
      BY <1>8, PendingValues DEF TellConfig
    <2>3. QED
      BY <1>8, <1>todo, <2>1, <2>2, FeedTypes, TellKeeps DEF TellConfig
  <1>9. CASE EndHook(t)
    <2>1. excused \subseteq excused'
      BY <1>9 DEF EndHook, Excuse
    <2>2. \A f \in Pending(t) : held[f] # served => f \in excused'
      BY <1>9, PendingValues, ExcuseOwes DEF EndHook
    <2>3. QED
      BY <1>9, <2>1, <2>2, FinishKeeps DEF EndHook
  <1>10. CASE ToldConfig(t)
    <2>1. pc[t] # "idle" /\ Pending(t) = {}
      BY <1>10, PendingValues DEF ToldConfig, AwaitsAnswer
    <2>2. QED
      BY <1>10, <2>1, FinishKeeps DEF ToldConfig
  <1>11. QED
    BY <1>1, <1>2, <1>3, <1>4, <1>5, <1>6, <1>7, <1>8, <1>9, <1>10 DEF Continue

LEMMA GrantedKeeps ==
  ASSUME Inv, TypeOK', NEW t \in Tasks, Granted(t)
  PROVE  Inv'
  <1>typed. TaskTypes
    BY TypeParts DEF Inv
  <1>1. Pending(t) = {}
    BY PendingValues DEF Granted
  <1>2. CASE t \in Callers \/ due
    <2>1. /\ \A u \in Tasks \ {t} : pc'[u] = pc[u] /\ job'[u] = job[u] /\ feed'[u] = feed[u]
          /\ pc'[t] = "fetching"
      BY <1>typed, <1>2 DEF Granted, Goto, TaskTypes
    <2>2. QED
      BY <1>1, <1>2, <2>1, OneTaskMoves DEF Granted
  <1>3. CASE ~(t \in Callers \/ due)
    BY <1>1, <1>3, FinishKeeps DEF Granted
  <1>4. QED
    BY <1>2, <1>3

\* The administrator and the watcher begin: they have nothing to tell yet.
LEMMA CallKeeps ==
  ASSUME Inv, TypeOK', NEW t \in Callers, CallRefresh(t) \/ CallPush(t)
  PROVE  Inv'
  <1>typed. TaskTypes
    BY TypeParts DEF Inv
  <1>1. t \in Tasks /\ t \notin Feeds
    BY DeliveryAssumption DEF Tasks
  <1>2. Pending(t) = {}
    BY <1>1, PendingValues DEF CallRefresh, CallPush
  <1>3. \A u \in Tasks \ {t} : pc'[u] = pc[u] /\ job'[u] = job[u] /\ feed'[u] = feed[u]
    BY <1>typed DEF CallRefresh, CallPush, Goto, TaskTypes
  <1>4. QED
    BY <1>1, <1>2, <1>3, OneTaskMoves DEF CallRefresh, CallPush, router

\* An answer that is under way does not change what others have to tell.
LEMMA PendingWhileAwaiting ==
  ASSUME NEW u \in Tasks, AwaitsAnswer(u), pc'[u] \in {"told", "served", "answered"},
         job'[u] = job[u], feed'[u] = feed[u]
  PROVE  Pending(u)' = Pending(u)
  <1>1. AwaitsAnswer(u)' /\ AwaitsAnswer(u)
    BY DEF AwaitsAnswer
  <1>2. CASE job[u].kind # "hook"
    BY <1>2 DEF Pending
  <1>3. CASE job[u].kind = "hook" /\ feed[u] # Config
    <2>1. Pending(u) = job[u].todo \cup {Config} /\ Pending(u)' = job[u].todo \cup {Config}
      BY <1>1, <1>3, Zenon DEF Pending, AwaitsAnswer
    <2>2. QED
      BY <2>1
  <1>4. CASE job[u].kind = "hook" /\ feed[u] = Config
    <2>1. Pending(u) = {} /\ Pending(u)' = {}
      BY <1>1, <1>4, Zenon DEF Pending, AwaitsAnswer
    <2>2. QED
      BY <2>1
  <1>5. QED
    BY <1>2, <1>3, <1>4

LEMMA StartDownloadKeeps ==
  ASSUME Inv, TypeOK', NEW f \in Feeds, StartDownload(f)
  PROVE  Inv'
  <1>typed. TaskTypes /\ VersionTypes
    BY TypeParts DEF Inv
  <1> DEFINE begun == IF due /\ lock = None THEN "waiting" ELSE "answering"
  <1>1. /\ pc' = [u \in Tasks |->
                    IF u = f THEN begun
                    ELSE IF pc[u] = "told" /\ feed[u] = f THEN "served" ELSE pc[u]]
        /\ got' = IF begun = "answering" THEN [got EXCEPT ![f] = served] ELSE got
    BY DEF StartDownload
  <1>2. f \in Tasks /\ Pending(f) = {}
    BY FeedTypes, PendingValues DEF StartDownload
  <1>3. ASSUME NEW g \in Feeds PROVE AnswerKept(g)
    <2>1. g \in Tasks
      BY FeedTypes
    <2>2. CASE g = f
      BY <1>typed, <1>1, <2>1, <2>2 DEF StartDownload, AnswerKept, VersionTypes
    <2>3. CASE g # f
      BY <1>typed, <1>1, <2>1, <2>3 DEF StartDownload, AnswerKept, VersionTypes
    <2>4. QED
      BY <2>2, <2>3
  <1>4. ASSUME NEW u \in Tasks, u # f PROVE Pending(u)' = Pending(u)
    <2>1. CASE pc[u] = "told" /\ feed[u] = f
      BY <1>1, <1>4, <2>1, PendingWhileAwaiting DEF StartDownload, AwaitsAnswer
    <2>2. CASE ~(pc[u] = "told" /\ feed[u] = f)
      BY <1>1, <1>4, <2>2, PendingStays DEF StartDownload
    <2>3. QED
      BY <2>1, <2>2
  <1>5. ~Lags(f)'
    BY <1>typed, <1>1, <1>2 DEF Lags, StartDownload, VersionTypes
  <1>6. ASSUME NEW g \in Pushed, Lags(g)', Owed(g) PROVE Owed(g)'
    BY <1>2, <1>4, <1>5, <1>6 DEF Owed, StartDownload
  <1>7. served <= served' /\ served' = served
    BY <1>typed, DeliveryAssumption DEF StartDownload, VersionTypes
  <1>8. QED
    BY <1>3, <1>6, <1>7, OwedStays

LEMMA EndDownloadKeepsPending ==
  ASSUME Inv, NEW f \in Feeds, EndDownload(f), NEW u \in Tasks
  PROVE  Pending(u) \subseteq Pending(u)'
  <1>1. pc' = [t \in Tasks |->
                 IF t = f THEN "idle"
                 ELSE IF pc[t] = "served" /\ feed[t] = f THEN "answered" ELSE pc[t]]
    BY DEF EndDownload
  <1>2. CASE u = f
    BY <1>2, PendingValues DEF EndDownload
  <1>3. CASE u # f /\ pc[u] = "served" /\ feed[u] = f
    BY <1>1, <1>3, PendingWhileAwaiting DEF EndDownload, AwaitsAnswer
  <1>4. CASE u # f /\ ~(pc[u] = "served" /\ feed[u] = f)
    BY <1>1, <1>4, PendingStays DEF EndDownload
  <1>5. QED
    BY <1>2, <1>3, <1>4

LEMMA AnswerKeeps ==
  ASSUME Inv, TypeOK', NEW f \in Feeds, Answer(f)
  PROVE  Inv'
  <1>typed. TaskTypes /\ VersionTypes
    BY TypeParts DEF Inv
  <1>1. EndDownload(f)
    BY DEF Answer, Store, Lose
  <1>2. /\ pc[f] = "answering" /\ pc'[f] = "idle"
        /\ served' = served /\ wanted' = wanted
    BY <1>1, FeedTypes DEF EndDownload
  <1>3. ASSUME NEW g \in Feeds, g # f
        PROVE  /\ got'[g] = got[g] /\ held'[g] = held[g]
               /\ pc'[g] = "idle" <=> pc[g] = "idle"
               /\ pc'[g] = "answering" <=> pc[g] = "answering"
    <2>1. got'[g] = got[g] /\ held'[g] = held[g]
      BY <1>typed, <1>1, <1>3 DEF EndDownload, Answer, Store, Lose, VersionTypes
    <2>2. pc'[g] = IF pc[g] = "served" /\ feed[g] = f THEN "answered" ELSE pc[g]
      BY <1>1, <1>3, FeedTypes DEF EndDownload
    <2>3. QED
      BY <2>1, <2>2
  <1>4. held[f] <= got[f] /\ got[f] <= served
    BY <1>2 DEF Inv, VersionsInOrder
  <1>5. held'[f] \in {held[f], got[f]}
    BY <1>typed DEF Answer, Store, Lose, VersionTypes
  <1>6. VersionsInOrder'
    BY <1>2, <1>3, <1>4, <1>5 DEF Inv, VersionsInOrder
  <1>7. ASSUME NEW g \in Pushed, Owed(g), g \in excused => g \in excused' PROVE Owed(g)'
    BY <1>1, <1>2, <1>7, EndDownloadKeepsPending DEF Owed
  <1>8. ASSUME NEW g \in Pushed, Lags(g)' PROVE Owed(g)'
    <2>1. g \in Feeds
      BY FeedTypes
    <2>2. CASE g # f
      <3>1. Lags(g)
        BY <1>2, <1>3, <1>8, <2>1, <2>2 DEF Lags
      <3>2. g \in excused => g \in excused'
        BY <2>2 DEF Answer, Store, Lose, Excuse
      <3>3. QED
        BY <1>7, <3>1, <3>2 DEF Inv, NothingForgotten
    <2>3. CASE g = f /\ Store(f)
      <3>1. got[f] # served
        BY <1>typed, <1>2, <1>8, <2>3 DEF Lags, Store, VersionTypes
      <3>2. Lags(f) /\ excused' = excused
        BY <1>2, <2>3, <3>1 DEF Lags, Store
      <3>3. QED
        BY <1>7, <2>3, <3>2 DEF Inv, NothingForgotten
    <2>4. CASE g = f /\ Lose(f)
      <3>1. held[f] # served'
        BY <1>2, <1>8, <2>4 DEF Lags, Lose
      <3>2. QED
        BY <2>4, <3>1, ExcuseOwes DEF Lose, Owed
    <2>5. QED
      BY <2>2, <2>3, <2>4 DEF Answer
  <1>9. Pushed' = Pushed
    BY DEF Pushed, Named
  <1>10. QED
    BY <1>6, <1>8 DEF Inv, NothingForgotten

\* Nothing of the process is left, and what it was about to do is excused.
LEMMA RestartKeeps ==
  ASSUME Inv, TypeOK', Restart
  PROVE  Inv'
  <1>typed. TaskTypes /\ VersionTypes
    BY TypeParts DEF Inv
  <1> DEFINE lost == {f \in Feeds : pc[f] # "idle"} \cup UNION {Pending(t) : t \in Tasks}
  <1>1. /\ \A f \in Feeds : pc'[f] = "idle"
        /\ UNCHANGED <<served, held, wanted>> /\ Excuse(lost)
    BY FeedTypes DEF Restart
  <1>2. VersionsInOrder'
    BY <1>1 DEF Inv, VersionsInOrder
  <1>3. ASSUME NEW f \in Pushed, Lags(f)' PROVE Owed(f)'
    <2>1. f \in Feeds /\ held[f] # served'
      BY <1>1, <1>3, FeedTypes DEF Lags
    <2>2. f \in lost \cup excused => f \in excused'
      BY <1>1, <2>1 DEF Excuse
    <2>3. CASE pc[f] # "idle"
      BY <2>1, <2>2, <2>3 DEF Owed
    <2>4. CASE pc[f] = "idle"
      <3>1. Owed(f)
        BY <1>1, <2>1, <2>4 DEF Inv, NothingForgotten, Lags
      <3>2. f \in lost \/ f \in wanted \/ f \in excused
        BY <3>1 DEF Owed
      <3>3. QED
        BY <1>1, <2>2, <3>2 DEF Owed
    <2>5. QED
      BY <2>3, <2>4
  <1>4. QED
    BY <1>2, <1>3 DEF Inv, NothingForgotten

LEMMA Initially == Init => Inv
  <1> SUFFICES ASSUME Init PROVE Inv
    OBVIOUS
  <1>1. TypeOK
    BY TypingInit
  <1>2. \A f \in Feeds : pc[f] = "idle" /\ held[f] = served /\ served = 0
    BY FeedTypes DEF Init
  <1>3. QED
    BY <1>1, <1>2, FeedTypes DEF Inv, VersionsInOrder, NothingForgotten, Lags

LEMMA StepKeepsInv == Inv /\ [Next]_vars => Inv'
  <1> SUFFICES ASSUME Inv, [Next]_vars PROVE Inv'
    OBVIOUS
  <1>typed. TypeOK' /\ TaskTypes /\ VersionTypes
    BY TypingStep, TypeParts DEF Inv
  <1>1. ASSUME NEW t \in Tasks, Granted(t) PROVE Inv'
    BY <1>1, <1>typed, GrantedKeeps
  <1>2. ASSUME NEW t \in Tasks, Continue(t) PROVE Inv'
    BY <1>2, <1>typed, ContinueKeeps
  <1>3. ASSUME NEW t \in Callers, CallRefresh(t) \/ CallPush(t) PROVE Inv'
    BY <1>3, <1>typed, CallKeeps
  <1>4. ASSUME NEW t \in Callers, SaveBackupNodes(t) PROVE Inv'
    <2>1. t \in Tasks /\ t \notin Feeds
      BY DeliveryAssumption DEF Tasks
    <2>2. served <= served'
      BY <1>4, <1>typed, DeliveryAssumption DEF SaveBackupNodes, VersionTypes
    <2>3. QED
      BY <1>4, <1>typed, <2>1, <2>2, BeginHookKeeps DEF SaveBackupNodes
  <1>5. ASSUME NEW f \in Feeds, StartDownload(f) PROVE Inv'
    BY <1>5, <1>typed, StartDownloadKeeps
  <1>6. ASSUME NEW f \in Feeds, Answer(f) PROVE Inv'
    BY <1>6, <1>typed, AnswerKeeps
  <1>7. CASE ChangeQuietly
    <2>1. served <= served'
      BY <1>7, <1>typed, DeliveryAssumption DEF ChangeQuietly, VersionTypes
    <2>2. \A f \in Feeds : AnswerKept(f)
      BY <1>7 DEF ChangeQuietly, AnswerKept, router
    <2>3. \A f \in Pushed : held[f] # served' => Owed(f)'
      BY <1>7, ExcuseOwes, FeedTypes DEF ChangeQuietly, Owed
    <2>4. QED
      BY <1>typed, <2>1, <2>2, <2>3, OwedStays
  <1>same. ASSUME UNCHANGED <<served, pc, job, feed, wanted, got, held, excused>> PROVE Inv'
    <2>1. served <= served'
      BY <1>same, <1>typed, DeliveryAssumption DEF VersionTypes
    <2>2. \A f \in Feeds : AnswerKept(f)
      BY <1>same DEF AnswerKept
    <2>3. \A t \in Tasks : Pending(t)' = Pending(t)
      BY <1>same, PendingStays
    <2>4. \A f \in Pushed : Owed(f) => Owed(f)'
      BY <1>same, <2>3 DEF Owed
    <2>5. QED
      BY <1>same, <1>typed, <2>1, <2>2, <2>4, OwedStays
  <1>8. CASE BecomeDue
    BY <1>8, <1>same DEF BecomeDue, router
  <1>9. CASE Restart
    BY <1>9, <1>typed, RestartKeeps
  <1>10. CASE UNCHANGED vars
    BY <1>10, <1>same DEF vars, router
  <1>11. QED
    BY <1>1, <1>2, <1>3, <1>4, <1>5, <1>6, <1>7, <1>8, <1>9, <1>10 DEF Next

THEOREM Invariance == Spec => []Inv
  BY Initially, StepKeepsInv, PTL DEF Spec

-----------------------------------------------------------------------------
\* Its consequences.

\* Every variable has its type.
THEOREM TypeCorrect == Spec => []TypeOK
  <1>1. Inv => TypeOK
    BY DEF Inv
  <1>2. QED
    BY <1>1, Invariance, PTL

\* sync_after_refresh and push_now leave no feed behind, however their requests,
\* the downloads by OpenClash and further changes are interleaved.
THEOREM RouterIsCurrent == Spec => []RouterCurrent
  <1>1. Inv => RouterCurrent
    BY DEF Inv, NothingForgotten, Lags, Owed, RouterCurrent
  <1>2. QED
    BY <1>1, Invariance, PTL

\* OpenClash never goes back to an earlier version: the answer to the download of a
\* feed is at least as new as what it has, for only one is under way at a time.
THEOREM RouterNeverGoesBack == Spec => RouterGoesForward
  <1>1. Inv /\ [Next]_vars => [\A f \in Feeds : held'[f] >= held[f]]_vars
    <2> SUFFICES ASSUME Inv, Next, NEW f \in Feeds PROVE held'[f] >= held[f]
      OBVIOUS
    <2>typed. VersionTypes
      BY TypeParts DEF Inv
    <2>1. CASE held' = held
      BY <2>typed, <2>1, DeliveryAssumption DEF VersionTypes
    <2>2. CASE \E g \in Feeds : Store(g)
      <3>1. PICK g \in Feeds : Store(g)
        BY <2>2
      <3>2. held[g] <= got[g]
        BY <3>1 DEF Inv, VersionsInOrder, Store, EndDownload
      <3>3. QED
        BY <2>typed, <3>1, <3>2, DeliveryAssumption DEF Store, VersionTypes
    <2>3. held' = held \/ \E g \in Feeds : Store(g)
      BY DEF Next, Granted, Continue, Refreshed, RefreshFails, ListProviders, ListFails,
             PutProvider, PutFails, ToldProvider, TellConfig, Tell, EndHook, ToldConfig,
             CallRefresh, SaveBackupNodes, CallPush, StartDownload, Answer, Lose,
             ChangeQuietly, BecomeDue, Restart, router
    <2>4. QED
      BY <2>1, <2>2, <2>3
  <1>2. QED
    BY <1>1, Invariance, PTL DEF Spec, RouterGoesForward
=============================================================================
