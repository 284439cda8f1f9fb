------------------------------ MODULE Delivery ------------------------------
(* How OpenClash on the router comes to hold what the service serves:        *)
(* sync_after_refresh and push_now (integration.py), the client they use     *)
(* (openclash_client.py), and the downloads by which OpenClash answers       *)
(* (public.py), which may refresh on demand and so run the same hook.        *)
(*                                                                           *)
(* OpenClash is not part of the program.  Told to update a feed, or by its   *)
(* own schedule, it downloads that feed from the service and then answers    *)
(* whoever told it; it downloads a feed once at a time.  A feed is a         *)
(* provider (told with PUT) or the configuration subscription (over SSH).    *)
(* So a refresh waits for a push, the push for a download, and the download  *)
(* may wait for a refresh.                                                   *)
(*                                                                           *)
(* What is served is a version: Refresher says what changes it.              *)
EXTENDS Integers, FiniteSets

CONSTANTS
    Callers,        \* coroutines of the admin API, the scheduler, the watcher
    Providers,      \* HTTP providers that OpenClash lists
    Preferred,      \* openclash_provider, or None
    Config,         \* openclash_subscribe_name
    None,           \* no task, no provider
    MaxVersion      \* bound: changes of what is served

\* A download in progress is a task of its own, named by its feed.
Feeds == Providers \cup {Config}
Tasks == Callers \cup Feeds

ASSUME DeliveryAssumption ==
    /\ Callers \cap Feeds = {} /\ Config \notin Providers
    /\ None \notin Tasks
    /\ Preferred \in Providers \cup {None}
    /\ MaxVersion \in Nat

VARIABLES
    served,     \* the version downloads are answered with
    due,        \* refresh_if_stale would refresh
    lock,       \* the holder of UpstreamRefresher._lock
    pc,         \* where each task is
    job,        \* "hook", "push", or a hook without a client ("mute"), and the
                \* providers it has not told yet
    feed,       \* the feed a task has just told OpenClash to update
    wanted,     \* OpenClash: feeds it was told to download and has not begun
    got,        \* the version in the answer to that download, once there is one
    held,       \* OpenClash: the version it has of each feed
    excused     \* history: feeds that may lag, because something failed

service == <<due, lock>>
router == <<wanted, got, held>>
vars == <<served, service, pc, job, feed, router, excused>>

NoJob == [kind |-> "none", todo |-> {}]

TypeOK ==
    /\ served \in 0..MaxVersion
    /\ due \in BOOLEAN
    /\ lock \in Tasks \cup {None}
    /\ pc \in [Tasks -> {"idle", "waiting", "fetching", "list", "put", "told", "served",
                         "answered", "health", "answering"}]
    /\ job \in [Tasks -> [kind: {"none", "hook", "mute", "push"}, todo: SUBSET Providers]]
    /\ feed \in [Tasks -> Feeds \cup {None}]
    /\ wanted \in SUBSET Feeds
    /\ got \in [Feeds -> 0..MaxVersion] /\ held \in [Feeds -> 0..MaxVersion]
    /\ excused \in SUBSET Feeds

Init ==
    /\ served = 0 /\ due \in BOOLEAN
    /\ lock = None
    /\ pc = [t \in Tasks |-> "idle"]
    /\ job = [t \in Tasks |-> NoJob]
    /\ feed = [t \in Tasks |-> None]
    /\ wanted = {}
    /\ got = [f \in Feeds |-> 0] /\ held = [f \in Feeds |-> 0]
    /\ excused = {}

-----------------------------------------------------------------------------
Goto(t, step) == pc' = [pc EXCEPT ![t] = step]

\* Feeds the next push of which is nobody's job any more may lag from now on.
Excuse(feeds) == excused' = excused \cup {f \in feeds : held[f] # served'}

\* The providers http_provider_names gives: the preferred one if there is one.
Named == IF Preferred # None THEN {Preferred} ELSE Providers
Pushed == Named \cup {Config}

\* OpenClash has been told; it downloads; it has answered.
AwaitsAnswer(t) == pc[t] \in {"told", "served", "answered"}

\* The feeds that a hook still has to tell OpenClash about.
Pending(t) ==
    IF job[t].kind # "hook" THEN {}
    ELSE CASE pc[t] = "list" -> Pushed
           [] pc[t] = "put" \/ (AwaitsAnswer(t) /\ feed[t] # Config) ->
                job[t].todo \cup {Config}
           [] pc[t] = "health" -> {Config}
           [] OTHER -> {}

\* The hook is over: a call returns, a download is answered.
Finish(t) ==
    /\ Goto(t, IF t \in Feeds THEN "answering" ELSE "idle")
    /\ job' = [job EXCEPT ![t] = NoJob]
    /\ feed' = [feed EXCEPT ![t] = None]
    /\ got' = IF t \in Feeds THEN [got EXCEPT ![t] = served'] ELSE got

\* sync_after_refresh begins.  Once and for all, it reads whether the push is
\* switched on and its secret is stored.
BeginHook(t) ==
    \/ /\ Goto(t, "list")
       /\ job' = [job EXCEPT ![t].kind = "hook"]
       /\ UNCHANGED excused
    \/ /\ Goto(t, "health")
       /\ job' = [job EXCEPT ![t].kind = "mute"]
       /\ Excuse(Pushed)

-----------------------------------------------------------------------------
\* Refreshes.  The lock is granted to one of its waiters.

\* refresh(), by the admin or the mail watcher.
CallRefresh(t) ==
    /\ t \in Callers /\ pc[t] = "idle"
    /\ Goto(t, "waiting")
    /\ UNCHANGED <<served, service, job, feed, router, excused>>

Granted(t) ==
    /\ pc[t] = "waiting" /\ lock = None
    /\ UNCHANGED served
    /\ IF t \in Callers \/ due
       THEN lock' = t /\ Goto(t, "fetching") /\ UNCHANGED <<job, feed, got>>
       ELSE UNCHANGED lock /\ Finish(t)
    /\ UNCHANGED <<due, wanted, held, excused>>

\* The refresh commits, or its failure activates the backup nodes: what is
\* served may be another version, and the hook is told, the lock being free.
Refreshed(t) ==
    /\ pc[t] = "fetching"
    /\ served' \in {served, served + 1} /\ served' <= MaxVersion
    /\ due' = FALSE
    /\ lock' = None
    /\ BeginHook(t)
    /\ UNCHANGED <<feed, router>>

\* Every source failed, and that changes nothing: no attempt for a while.
RefreshFails(t) ==
    /\ pc[t] = "fetching"
    /\ due' = FALSE
    /\ lock' = None
    /\ UNCHANGED served
    /\ Finish(t)
    /\ UNCHANGED <<wanted, held, excused>>

\* PUT /backup-nodes with a change of the activation.
SaveBackupNodes(t) ==
    /\ t \in Callers /\ pc[t] = "idle"
    /\ served' = served + 1 /\ served' <= MaxVersion
    /\ BeginHook(t)
    /\ UNCHANGED <<due, lock, feed, router>>

\* POST /openclash/refresh: push_now, which raises at once if the push is
\* switched off or has no secret.
CallPush(t) ==
    /\ t \in Callers /\ pc[t] = "idle"
    /\ Goto(t, "list")
    /\ job' = [job EXCEPT ![t] = [kind |-> "push", todo |-> {}]]
    /\ UNCHANGED <<served, service, feed, router, excused>>

\* What changes without anybody being told: another backup_fail_threshold, other
\* backup nodes while the activation stays, a committed update of the
\* credentials whose storing failed.
ChangeQuietly ==
    /\ served' = served + 1 /\ served' <= MaxVersion
    /\ Excuse(Feeds)
    /\ UNCHANGED <<due, lock, pc, job, feed, router>>

\* The interval has passed.
BecomeDue ==
    /\ ~due /\ due' = TRUE
    /\ UNCHANGED <<served, lock, pc, job, feed, router, excused>>

-----------------------------------------------------------------------------
\* The hook, step by step.

\* After the last provider: push_now returns; the hook checks the nodes.
AfterProviders(t, todo) ==
    IF todo # {}
    THEN /\ Goto(t, "put")
         /\ job' = [job EXCEPT ![t].todo = todo]
         /\ feed' = [feed EXCEPT ![t] = None]
         /\ UNCHANGED got
    ELSE IF job[t].kind = "push" THEN Finish(t)
    ELSE /\ Goto(t, "health")
         /\ job' = [job EXCEPT ![t].todo = {}]
         /\ feed' = [feed EXCEPT ![t] = None]
         /\ UNCHANGED got

\* GET /providers/proxies.
ListProviders(t) ==
    /\ pc[t] = "list"
    /\ UNCHANGED served
    /\ AfterProviders(t, Named)
    /\ UNCHANGED <<service, wanted, held, excused>>

\* It fails: the configured name is all there is to go by.
ListFails(t) ==
    /\ pc[t] = "list"
    /\ UNCHANGED served
    /\ AfterProviders(t, IF Preferred # None THEN {Preferred} ELSE {})
    /\ IF job[t].kind = "hook" /\ Preferred = None THEN Excuse(Providers) ELSE UNCHANGED excused
    /\ UNCHANGED <<service, wanted, held>>

\* PUT /providers/proxies/<name> arrives, or update_config_subscribe does.
Tell(t, f) ==
    /\ Goto(t, "told")
    /\ feed' = [feed EXCEPT ![t] = f]
    /\ wanted' = wanted \cup {f}
    /\ UNCHANGED <<served, service, got, held, excused>>

PutProvider(t) ==
    /\ pc[t] = "put"
    /\ \E p \in job[t].todo :
        /\ Tell(t, p)
        /\ job' = [job EXCEPT ![t].todo = @ \ {p}]

\* Deviation: like push_now, the hook gives up at the first error.
PutFailsStopping(t) ==
    /\ pc[t] = "put"
    /\ UNCHANGED served
    /\ \E p \in job[t].todo :
        /\ IF job[t].kind = "push" THEN UNCHANGED excused ELSE Excuse({p})
        /\ Finish(t)
    /\ UNCHANGED <<service, wanted, held>>

\* It does not arrive, or is refused.  The hook goes on with the next provider,
\* push_now does not.
PutFails(t) ==
    /\ pc[t] = "put"
    /\ UNCHANGED served
    /\ \E p \in job[t].todo :
        IF job[t].kind = "push"
        THEN Finish(t) /\ UNCHANGED excused
        ELSE AfterProviders(t, job[t].todo \ {p}) /\ Excuse({p})
    /\ UNCHANGED <<service, wanted, held>>

\* Deviation: the request waits for its answer for ever.
ToldProviderPatient(t) ==
    /\ pc[t] = "answered" /\ feed[t] # Config
    /\ UNCHANGED served
    /\ AfterProviders(t, job[t].todo)
    /\ UNCHANGED <<service, wanted, held, excused>>

\* The answer, or an error: the client waits for a limited time, OpenClash goes
\* on.
ToldProvider(t) ==
    /\ AwaitsAnswer(t) /\ feed[t] # Config
    /\ UNCHANGED served
    /\ \/ AfterProviders(t, job[t].todo)
       \/ job[t].kind = "push" /\ pc[t] # "answered" /\ Finish(t)
    /\ UNCHANGED <<service, wanted, held, excused>>

\* run_health, which Integration has in detail; then, if there was a client when
\* the hook began, the script that updates the configuration starts on the
\* router.
TellConfig(t) ==
    /\ pc[t] = "health" /\ job[t].kind = "hook"
    /\ Tell(t, Config)
    /\ UNCHANGED job

\* There is no client, no subscribe name, or the health check fails with an error
\* that is not one of OpenClash, or ssh fails: no usable key, no connection.
EndHook(t) ==
    /\ pc[t] = "health"
    /\ UNCHANGED served
    /\ Finish(t)
    /\ IF job[t].kind = "hook" THEN Excuse({Config}) ELSE UNCHANGED excused
    /\ UNCHANGED <<service, wanted, held>>

\* It exits, or the timeout kills the ssh that waits for it.
ToldConfig(t) ==
    /\ AwaitsAnswer(t) /\ feed[t] = Config
    /\ UNCHANGED served
    /\ Finish(t)
    /\ UNCHANGED <<service, wanted, held, excused>>

-----------------------------------------------------------------------------
\* OpenClash, as far as the program sees it.

\* Because it was told to, or because the feed's own interval has passed.  The
\* service resolves the share and calls refresh_if_stale, which returns at once
\* if the cache is fresh or somebody refreshes.
StartDownload(f) ==
    /\ pc[f] = "idle"
    /\ wanted' = wanted \ {f}
    /\ LET begun == IF due /\ lock = None THEN "waiting" ELSE "answering"
       IN /\ pc' = [t \in Tasks |->
                        IF t = f THEN begun
                        ELSE IF pc[t] = "told" /\ feed[t] = f THEN "served"
                        ELSE pc[t]]
          /\ got' = IF begun = "answering" THEN [got EXCEPT ![f] = served] ELSE got
    /\ UNCHANGED <<served, service, job, feed, held, excused>>

EndDownload(f) ==
    /\ pc[f] = "answering"
    /\ pc' = [t \in Tasks |->
                  IF t = f THEN "idle"
                  ELSE IF pc[t] = "served" /\ feed[t] = f THEN "answered"
                  ELSE pc[t]]
    /\ got' = [got EXCEPT ![f] = 0]
    /\ UNCHANGED <<served, service, job, feed, wanted>>

\* The answer arrives.
Store(f) ==
    /\ EndDownload(f)
    /\ held' = [held EXCEPT ![f] = got[f]]
    /\ excused' = IF got[f] = served THEN excused \ {f} ELSE excused

\* It does not, or it is an error (no cache, a converter that fails).
Lose(f) ==
    /\ EndDownload(f)
    /\ Excuse({f})
    /\ UNCHANGED held

\* The service crashes and starts again: nobody pushes what had not been pushed,
\* and the downloads in progress fail.
Restart ==
    /\ lock' = None
    /\ pc' = [t \in Tasks |-> "idle"]
    /\ job' = [t \in Tasks |-> NoJob]
    /\ feed' = [t \in Tasks |-> None]
    /\ got' = [f \in Feeds |-> 0]
    /\ UNCHANGED <<served, due, wanted, held>>
    /\ Excuse({f \in Feeds : pc[f] # "idle"} \cup UNION {Pending(t) : t \in Tasks})

-----------------------------------------------------------------------------
Continue(t) ==
    \/ Refreshed(t) \/ RefreshFails(t)
    \/ ListProviders(t) \/ ListFails(t)
    \/ PutProvider(t) \/ PutFails(t) \/ ToldProvider(t)
    \/ TellConfig(t) \/ EndHook(t) \/ ToldConfig(t)

Answer(f) == Store(f) \/ Lose(f)

Next ==
    \/ \E t \in Tasks : Granted(t) \/ Continue(t)
    \/ \E t \in Callers : CallRefresh(t) \/ SaveBackupNodes(t) \/ CallPush(t)
    \/ \E f \in Feeds : StartDownload(f) \/ Answer(f)
    \/ ChangeQuietly \/ BecomeDue
    \/ Restart

Spec == Init /\ [][Next]_vars

\* asyncio.Lock hands itself on in the order of the waiters; every other wait has
\* a timeout; a connection to OpenClash ends.  Nobody has to call anything, and
\* OpenClash need not download what it was told to.
LiveSpec ==
    /\ Spec
    /\ \A t \in Tasks : SF_vars(Granted(t)) /\ WF_vars(Continue(t))
    /\ \A f \in Feeds : WF_vars(Answer(f))

-----------------------------------------------------------------------------
(* When no hook has a feed left to tell OpenClash about and OpenClash has no *)
(* download of it to make or to finish, OpenClash holds what is served,      *)
(* unless something failed for that feed.  One provider's failure does not   *)
(* keep the next ones or the configuration from being updated                *)
(* (integration.py, sync_after_refresh), and a download answered before a    *)
(* change is followed by another one.                                        *)
RouterCurrent ==
    \A f \in Pushed :
        \/ \E t \in Tasks : f \in Pending(t)
        \/ f \in wanted \/ pc[f] # "idle"
        \/ held[f] = served
        \/ f \in excused

(* Pushes, schedules, timeouts and restarts may have OpenClash download a    *)
(* feed at any moment, before, during and after changes of what is served:   *)
(* what it has is never replaced by something older.                         *)
RouterGoesForward == [][\A f \in Feeds : held'[f] >= held[f]]_vars

(* Every request, hook and download ends, although a refresh waits for the   *)
(* push of its hook, the push for a download by OpenClash, and the download  *)
(* for a refresh of its own whose hook pushes the very same feed: the        *)
(* timeouts of the client break the circle (openclash_client.py, _request    *)
(* and update_config_subscribe).                                             *)
EverythingSettles == \A t \in Tasks : pc[t] # "idle" ~> pc[t] = "idle"
=============================================================================
