# clashsub in TLA+

clashsub keeps a copy of an airport's proxy subscription and serves it to
clients: it downloads the subscription on a schedule, on demand and on request,
keeps the last good payload, converts it for each client, falls back to backup
nodes when the upstream fails for long, and tells OpenClash of changes. This
directory holds TLA+ modules of that program, TLC configurations that check them
on small instances, and theorems about them checked by TLAPS.

Paths below are relative to `src/src/clashsub/` unless they start with `README`,
`docs/` or `tests/`, which are those of the repository.

## Components

| component | state | operations | calls | what is hard | what makes it correct |
|---|---|---|---|---|---|
| Upstream refresher, `subscription.py` | `_lock`, `_refreshing`; per call: activation before, source, attempt, payload | `refresh`, `refresh_if_stale`, `test_protocol`, `update_protocol_credentials` | sources, cache files, state row, secret store, hook | many callers wait for one lock; errors leave it in many ways; the process may die in a commit; the hook calls `refresh` again | the last good payload is always served; lock and flag always released; credentials belong to the payload; every update is announced |
| State row, `db.py` | `runtime_state`: digest, failures, ages | four `record_*` transactions | | one transaction each, several per call | the digest in it has a file |
| Cache files, `cache_files.py` | raw payloads by digest, converted files | `publish_raw`, `prune_raw`, `write_converter_template`, `clear_converted` | | atomic one by one only; unlink errors are swallowed | never without the current payload; bounded |
| Backup nodes, `backup_nodes.py` | stored nodes | `save`, `is_active`, `served_snapshot` | cache files, row, settings | activation follows the failure count, which others change without a lock | what is served and what is cached agree |
| Converter service, `converter.py` | converted files | `render` | converter process, which calls back `/raw` | three awaits between reading and writing | no stale template stays fresh |
| Refresh scheduler, `scheduler.py` | `_stop`, `_wake` | `run`, `reschedule`, `stop` | any coroutine: refresh, health, mail | an event set from another thread; a signal during a refresh | no lost signal, no lost stop, rounds go on |
| Integration, `integration.py` | `_auto_refresh_in_flight`, `_last_auto_refresh` | `run_health`, `sync_after_refresh` | refresher, OpenClash, health | refresh from inside a refresh's hook | no recursion, no deadlock, a cool-down |
| Mail watcher, `mail_refresh.py` | last UID, last refresh | `poll` | IMAP on a thread, refresher | UID stored before the refresh it asks for; polls, fetches and refreshes fail | no mail answered twice, none lost |
| Node health, `health.py` | `node_health` rows, `_run_lock` | `run_once`, `record_outbound_delays`, `probe_proxies` | sockets, DNS | runs overlap; a lock held across awaits | the rows are those of one run, and lock and refresh never wait for each other |
| HA selection, `api/public.py` | none | `ha_subscription` | settings, `node_health` rows | the window depends on this hour, the sleep between checks on an earlier one | what failed the last check is left out, and not for ever |
| Sessions, `auth.py`, `api/auth.py` | sessions, admin password, attempts | login, logout, change of password and of access mode | | threads; verified, then stored | no session outlives the credentials it was made with |
| Shares, `shares.py` | shares and their tokens | create, rotate, revoke, restore, delete, expire | secret store | threads; two stores | a revoked token stays revoked |
| Access and rate limit, `access.py` | hits per key | `allow` | | eviction at the limit | never more than the limit in a window |
| Sources and downloads, `sources.py`, `v2board_client.py`, `_download` | none between calls | `fetch`, `fetch_subscription`, the hops of a download | airport panel, name servers, download servers | retry after a refused login, redirects, several addresses, one deadline for all of it | sources and logins in order; only checked addresses are contacted; bounded time |
| OpenClash client, `openclash_client.py` | none | `http_provider_names`, `refresh_provider`, `update_config_subscribe` | router, which downloads from the service | a push waits for a download that may wait for a refresh that pushes | OpenClash ends up with what is served; nobody waits for ever |
| Settings, `settings.py` | settings rows | read, store, `is_night`, `effective_health_interval` | | a night over midnight; a change between two uses | |
| Configuration, events, Tailscale | | read at start; a log | | | |

`app.py` wires them: one event loop, three schedulers on it (subscription,
health, mail), and FastAPI endpoints. `async def` endpoints run on the loop,
plain `def` endpoints on worker threads; `PUT /settings`, logins and share
endpoints are plain.

The hazards at each line are listed in `PROJECT.json`; each names the property
that would catch it, or says why none does yet.

## Modules

| module | models |
|---|---|
| `LastGoodCache` | abstract: what a downloader is promised |
| `Refresher` | the refresher with row, files, credentials and backup nodes |
| `RefresherProofs` | theorems about `Refresher` and `ConvertedCache` |
| `ConvertedCache` | `Refresher` composed with renders |
| `RefreshScheduler` | the scheduler loop as used for the subscription |
| `SlidingWindow` | the limiter as operators on its entries |
| `Sessions` | logins, sessions and what ends them, with `SlidingWindow` |
| `Links` | abstract: the life of a share link |
| `Shares` | share links, their rows, downloads and converted files |
| `Integration` | health checks and the refreshes they ask for |
| `MailWatcher` | the poll that refreshes when a mail says so |
| `RefreshTriggers` | `Integration` and `MailWatcher` in one process |
| `FetchOrder` | abstract: which source and which login a call of the refresher uses next |
| `Upstream` | such a call at its requests: login, subscription URL, hops of the download |
| `Delivery` | pushes to OpenClash, its downloads, and the refreshes they ask for |
| `HealthySelection` | the health scheduler, its rows, and the nodes `/clash-ha` leaves out |
| `UpstreamProofs`, `DeliveryProofs`, `SharesProofs`, `HealthySelectionProofs`, `RefreshSchedulerProofs`, `SessionsProofs`, `RefreshTriggersProofs` | theorems about the module that is named; those about `Integration` and `MailWatcher` are proved of the two together |
| `MC...` | small instances of the module that is named |

### Refresher

A task is a coroutine that may call the refresher. `pc[t]` says where it is:

| `pc` | code |
|---|---|
| `waiting` | `async with self._lock` |
| `resolving`, `downloading` | the awaits of `_download`: login at the airport, HTTP hops |
| `publish`, `record`, `prune`, `clear` | `publish_raw`, `record_refresh_success`, `prune_raw`, `clear_converted` in `_commit_success` |
| `put` | `credential_store.put` of a credential update |
| `fail` | `record_refresh_failure` |
| `settle` | the end of `_refresh_locked`: `finally`, the comparison of the activation, the release of the lock |
| `hook`, `hooked` | `_notify_refreshed`, before and after a refresh made inside it |

Between two awaits coroutines run alone. The steps from `publish` to `settle`
have no await between them, and `loop = t` keeps everybody else on the loop
out; they are separate because the process may die between them and because a
settings thread (`SetThreshold`) is not on the loop.

A payload is its digest. Ages stand for `last_attempt_at` and `last_success_at`,
and saturate at `AgeCap`. A validated body or a failure (retryable or not) is all
that is left of a download: `_validate_download_url`, `_fetch_download_hop` and
`validate_subscription` decide which. `Faults` says which faults an instance has:
`disk` (publishing, listing and unlinking may fail, the latter for some of the files),
`database` (a statement on the row or the secrets raises `sqlite3.Error`), `crash`.

Backup nodes are present or not, and one set of them is not told from another.

### ConvertedCache

All (share, format, parameters) have a file of their own, and all are cleared
together, so one file stands for any of them, with the tag of the contents it was
built from: a payload, with the backup nodes merged or not, or the backup nodes
alone. `render[r]` is a request: it found no fresh file, asked the converter
process (`requested`), which fetched `/raw` (`converting`, with what it got), and
is about to write. Everything of `Refresher` may happen in between. Whether a file
is young enough, readable and, for Loon, valid is left open: a request may go to the
converter with any file there.

### RefreshScheduler

`run()` with its two events, and a cache that ages. `PUT /settings` runs on worker
threads, any number of them at once (`Threads`), each in three moments:

| `thread[t]` | code |
|---|---|
| `read` | `current` was read; the new settings are about to be stored |
| `stored` | they are, and differ from `current`: `reschedule()` is next |
| `waking` | `set()` has stored the value of the event and not yet woken the waiters |

`asyncio.Event` is not made for threads, so its moments count: `wait()` looks at the
value (`LookAtEvent`) and registers a waiter (`RegisterWaiter`); `set()` stores the
value (`SetEvent`) and wakes the waiters registered by then (`WakeWaiters`).

A round is a call of `refresh_if_stale`:

| `pc` | code |
|---|---|
| `top` | `while not self._stop.is_set()`, `_wake.clear()`, the two looks before the lock |
| `queued` | `async with self._lock`; the cache is looked at again with the lock |
| `refreshing`, `hook` | `_refresh_locked`; `_notify_refreshed` |
| `refreshed`, `delay` | the looks at both events; the delay |
| `arming`, `registering`, `sleeping` | `wait_for(self._wake.wait(), timeout)` |

The call returns at once while somebody else refreshes (`busy` is `_refreshing`, set by
`BeginElsewhere`), or when the cache is fresh. A refresh succeeds, fails and is counted
(`FailRefresh`), or raises and is not (`RaiseRefresh`); refreshes elsewhere and updates
of the credentials come while `run()` awaits. A delay that cannot be computed is
`FallbackDelay`. Each wait for the lock and each refresh with its hook takes at most
`MaxRefresh`.

### Sessions and SlidingWindow

Logins, changes of the account and `PUT /settings` run on worker threads, and every
database call is a transaction of its own; `pc[t]` is the call that comes next:

| `pc` | code |
|---|---|
| `stamped` | `login` has read the clock, and asks the limiter |
| `reading`, `verifying` | `get_admin...`, then the argon2 verification and the write that follows it |
| `clearing` | `login_limiter.clear` |
| `comparing`, `storing`, `ending` | `update_settings`: the current settings, `update`, `delete_all_sessions` |

An account is a name with its password, so a login succeeds if what was given is
what was read. A session remembers, as history, the account and the access mode it
was made in, and whether it was late, stored after that account had changed.

`SlidingWindow` works on ages: a stamp ages with the clock, `now` is the age of the
moment at which the caller read it. Threads read it before they get the limiter's
lock, so stamps may be out of order. `recent` is history: what really was admitted for
a key, oldest admission first; ages saturate at `Memory`, past any window, and those
at the head that have reached it are forgotten.

### Shares

A row has the token whose hash it stores, the token that is sealed for the list of
shares, and whether it is revoked or expired. The administrator's operations check
the row in one step (`Check`) and change it in another (`Rotate`, `Revoke`, `Renew`,
`Delete`); unlinking the files of a deleted share may fail. A download resolves its token, waits for `refresh_if_stale`, and renders;
the converter resolves the token again when it fetches `/raw`.

`Links` is what a link's owner is promised, and `LinkState` the mapping: a token that was
never made is unknown, one that a rotation made and has not written is promised, one that
resolves is working, one in a row that does not (its time is over) has expired, and all
others are dead. A rotation hands over the state of the old link with the token: an
expired link is rotated to one that has expired too.

### Integration, MailWatcher and RefreshTriggers

`stack[t]` is what task `t` is in, outermost first: `health` (`run_health`),
`refresh` (a call of `refresh()`), `auto` (one made by `_maybe_auto_refresh`). A
refresh with something to announce runs a health check in its hook, a health check
that finds too few nodes online refreshes. The lock of the refresher is not part of
this module: the hook runs without it, which `Refresher` shows. `runLock` is
`_run_lock` with its waiters. `begun` and `beginner` are history: how long ago an auto
refresh last began, and whether the process in which it did still runs.

`MailWatcher` numbers mails by their UID. A poll reads the stored UID, fetches newer
mails (the search, or single headers, may fail), and handles them in order; `answered`
and `excused` are history. In `RefreshTriggers` the poll is one of the tasks, and its
`await self.refresh()` is a call on that task's stack.

### FetchOrder and Upstream

`Refresher` takes everything between the lock and a body as two steps, `resolving`
and `downloading`. `Upstream` opens them, for one call at a time, since the lock is
held. `at` is the request the call waits for:

| `at` | code |
|---|---|
| `login`, `subscribe` | the two requests of `V2BoardClient.fetch_subscription` |
| `resolve` | `_validate_download_url`: the host of the current URL is resolved |
| `connect` | `_fetch_download_hop`: one of the addresses that passed |
| `body` | `_read_body` |
| `storing` | `_commit_success`, and the credentials; `Refresher` has its steps |

Each answer is left open: a login may be refused, a name may resolve to any set of
addresses, any response may be a redirect, break off, or be refused. `AttemptFails`
is the `except` clause of `_refresh_from_source` with what its loop and that of
`_refresh_locked` do next. `DatabaseRaises` is `sqlite3.Error`, which that clause does
not have: it ends a refresh at once, with the outcome `raised`, no failure recorded and
no other source tried (an update of the credentials does catch it: `StoreFails`). `timer` is the clock of `asyncio.timeout`; `spent`, as
history, is the time the download really took. A tick cannot pass a timer that is
due.

`FetchOrder` is what the rest may rely on: sources in order, a second login only of
a refresh and only after something the first login had given was refused, and an
outcome in the end. `ImplementsFetchOrder` maps the requests to its stages.

### Delivery

`served` is the version of what downloads are answered with. A task is a caller (the
administrator, the scheduler, the mail watcher), or a download by OpenClash, which is
named by the feed it is of: a provider, or the configuration (`Config`, over SSH).

| `pc` | code |
|---|---|
| `waiting`, `fetching` | for the refresher's lock; holding it |
| `list`, `put` | `_provider_names`; `refresh_provider` of one in `job.todo` |
| `told`, `served`, `answered` | the request that told OpenClash of `feed` waits: the download has not begun, goes on, or has ended |
| `health` | `run_health`, before the configuration |
| `answering` | a download has its answer, and sends it |

`job` says on whose behalf: the hook, a hook without a client (`mute`: the switch is
off, the secret is missing), or the administrator's push. `wanted`, `got`, `held` are
OpenClash's. It is not part of the program, and the model assumes of it what the
timeouts in `openclash_client.py` are there for: told to update a feed it downloads
it and answers after that; it downloads a feed once at a time; it may also download
on its own, at any time, and may never do what it was told. `excused` is history: the
feeds for which a request, a download or the process failed since, or whose change
the code announces to nobody (`ChangeQuietly`).

### HealthySelection

The health scheduler of `app.py` computes its delay when it lies down; `/clash-ha`
computes the window in which a failed check counts when it is asked. Between the two
the night may begin or end and the settings may change. A tick is half a minute, and
the day is scaled down; `IsNight`, `Effective` and `Window` are the functions of
`settings.py` and `freshness_window`, the rest are `run()` and `run_once` at the grain
of rounds. `age` is the time since `checked_at`, which a check by OpenClash takes when
it has the delays and one by handshake before it starts. `flapped` are nodes that
changed during a check, of which it may find either.

A round checks (`checking`, at most `MaxCheck`: OpenClash is waited for first, and if it
was of no use the handshakes follow), stores its rows, and judges them (`judging`): too
few nodes online, and an auto refresh of at most `MaxRefresh` follows before the next
sleep. Neither bound is tied to the window, since intervals may be 30 s while OpenClash
alone may be waited for from 60 s to 600 s per provider. `awake` is history: how much of
the time since `checked_at` the scheduler did not sleep. `Allowance` is what the window
leaves to that.

## Runs

| run | shows | instance and why it is enough |
|---|---|---|
| `refresher_faults` | `CommitInOrder`, `CurrentReadable`, `FlagTracksLock`, `LockMovesOn`, `ImplementsLastGood` and `CredentialsFollowCommit` under all faults | two tasks (one holds the lock, one waits), two payloads (current, new), both sources, two accounts; no ages |
| `refresher_timing` | `OnDemandOnlyWhenDue`, `RawFilesBounded` | two tasks; ages to 3 and a back-off that doubles twice and hits its cap; three payloads against one kept file: current, kept, pruned |
| `refresher_live` | `EveryCallReturns`, `ImplementsLiveLastGood`, `UpdateAnnounced`, `FailoverAnnounced` | two tasks with hooks that refresh again, backup nodes saved and the threshold set to 1 or 2 at any time, failures counted to 2; on-demand calls are left out here, since with no age they return at once or take the steps of `refresh`; no faults, because a crash ends calls and an error in the database is reported instead of announced |
| `converted` | `StaleOnlyIfOvertaken`, `ImplementsRefresher` | two renders of the same file, two tasks, two payloads, crashes and database errors; failure threshold 1 |
| `scheduler` | `RescheduleTakesEffect`, `AgeBounded`, `StopEndsRun`, `RoundsGoOn` | two threads in `PUT /settings` (an overlap is a pair), intervals 1 and 2, a fallback of 2 for the hour, refreshes of up to 1 tick, which is as long as an interval, a back-off capped at 3; ages to 4, where `AgeBounded` would fail |
| `sessions` | `SessionsAreCurrent`, `ModeChangeEndsSessions`, `AttemptsBounded`, `RefusedOnlyAtLimit` | two requests (every hazard here is a pair), two sessions, two accounts and modes; a limit of 2 in a window of 2 with requests that take up to 1, and two clients for one entry, so that one evicts the other |
| `shares` | `ImplementsLinks`, `ShownLinkWorks`, `FilesHaveShares` | two requests and a download, two shares, three tokens (two shares and one rotation, or one share rotated twice) |
| `triggers` | six properties of who refreshes | the mail watcher and one other task, so that both may be in a health check of their own; two mails, cool-downs of 2, ages to 2 |
| `upstream` | `ImplementsFetchOrder`, `HopsAreChecked`, `DownloadBounded`, `StatusTellsOutcome` | both sources, every kind of call, two hosts (a redirect from one to the other and back), three addresses of which one is not allowed (a hop with two, one broken), three redirects, a deadline longer than that; a database that may raise |
| `delivery` | `RouterCurrent`, `EverythingSettles` | one caller and two feeds, whose downloads are tasks that refresh and push too: three tasks at one lock, with the circle of waits; one change of version, which every interleaving of push and download falls before, between or after |
| `healthy` | `LastCheckHonoured`, `WorkingNodeServed` | two nodes, one that handshakes skip; two plans with intervals of 1 and 3, a night over midnight of the longer one and a night of the shorter; days of 2 hours, so that sleeps cross both ends of a night; checks of up to 2 ticks and auto refreshes of up to 1, so that a round may take what the window leaves it and more; windows given by the interval (6) and by the minimum (4) |
| `converted_credentials` | a disagreement, below | the smallest instance that has the case |

Every module has a type invariant (`TypeOK`, `CTypeOK`, `STypeOK`, ...), proved for
every instance (below) and therefore in no run; nor are five properties that are proved
and say more of what the runs check (`UpdateGoesThroughHook`, `DeadLinksStayDead`,
`RouterGoesForward`, `HandshakesMoveOn`, `PollAwaitsRefresh`). TLC found no state or step
against any of them on the instances of the runs.

Each property of a passing run has a deviation beside the definition it deviates
from (comment "Deviation:"), a plausible mistake in that code, under which TLC finds
the property violated.

### What the code does otherwise than its tests and comments say

* `converted_credentials`: a credential update that succeeds resets the failure
  count, which ends the use of the backup nodes, but only `refresh()` compares the
  activation before and after. With an unchanged payload the converted files
  built from backup nodes stay.

The following are real too, and are exceptions that a property names:

* a render in flight during a refresh writes the template of the previous payload
  after the refresh cleared it, fresh for `cache_ttl`; so does a process that dies
  between recording the digest and clearing the files, a refresh that cannot read the
  row to compare the activation (`StaleOnlyIfOvertaken`), and backup nodes saved during
  a refresh that ends their use, which `refresh()` does not see (the run `converted`
  saves none);
* a login that verified the password before the account was changed stores its
  session after the others were deleted; it lives on for `SESSION_SECONDS`
  (`SessionsAreCurrent`);
* `reschedule()` from a worker thread may fall between the two moments of
  `Event.wait()`; the loop then sleeps the old interval. So it does when two
  `PUT /settings` overlap: each compares what it stores with what it read, and the one
  that stores last may put back the interval that it read, over one that the loop has
  been told of, without telling it. And when the delay cannot be computed it is an hour
  (all three in `RescheduleTakesEffect`);
* a round that comes while somebody else refreshes returns at once
  (`subscription.py:206`) and sleeps a whole interval, over which the cache ages until
  that refresh ends; so it does after a refresh that raised, which no failure and no
  back-off tells of (`AgeBounded`);
* `refresh()` reads whether the backup nodes are in use when it starts. If they are, and
  the threshold is raised during the download and reached by this very failure, they
  take over once more without being announced (`FailoverAnnounced`);
* `sqlite3.Error` of `record_refresh_success` escapes `refresh()` after the success of the
  protocol source was recorded: the status then says success for a call that failed, and
  the fallback is not tried (`StatusTellsOutcome`);
* an auto refresh that failed takes up the cool-down, where the comment at
  `integration.py:132` says that it does not; and the cool-down does not outlast the process:
  the first auto refresh after a restart may follow at once (`AutoRefreshesSpaced`);
* a sleep of the health scheduler that began in a night of longer intervals, or
  before the settings made them shorter, outlasts the window of `/clash-ha` once the
  interval is the short one; and a check that waits for OpenClash, or an auto refresh
  after it, may take longer than the window leaves to it. Until the next check nodes that
  failed the last one are then served, where README.md:116 says only nodes that passed
  the latest check are (`LastCheckHonoured`);
* a change that is committed and then not announced, because the process died, the
  push failed, or nobody announces such a change, reaches OpenClash with its own next
  update (`excused` in `RouterCurrent`).

Not excepted by a property: a credential update whose last write fails is answered with an
error although the cache was replaced and nobody was told (`PutCredentials`,
`DatabaseError` in `Refresher`).

## Fairness

`LiveSpec` of `Refresher` has strong fairness of each task's own steps. Every await
in the critical section has a deadline (HTTP timeouts, `DOWNLOAD_TOTAL_DEADLINE`),
so a login or a download ends; asyncio resumes ready tasks in turn, so one that is
ready again and again between other tasks' synchronous sections gets its turn;
`asyncio.Lock` is first come, first served, which `queue` models. Nobody has to call,
to change a setting or to crash.

`LiveSpec` of `RefreshScheduler` has weak fairness of the loop's steps, of the end of a
refresh by somebody else, and of time, and strong fairness of the lock, which is first
come, first served. Nothing is asked of the threads in `PUT /settings`: `stop()` and the
timeout of the sleep do without them.

`LiveSpec` of `Upstream` has weak fairness of the answers: every request has a timeout
and no body is read without a bound.

`LiveSpec` of `Delivery` has strong fairness of each task's turn at the lock, and weak
fairness of its other steps and of the end of a download by OpenClash: asyncio.Lock is
first come, first served, and every wait in the client has a timeout. OpenClash need
not start a download, and nobody has to call.

`LiveSpec` of `HealthySelection` has weak fairness of the scheduler's steps and strong
fairness of time, which is kept from passing only while a check is at its bound or a
wake-up waits; checks may go wrong for ever.

## Proofs

`RefresherProofs` proves for every instance of `Refresher` (any tasks, payloads,
accounts, bounds, sources and faults that satisfy the assumptions):

| theorem | |
|---|---|
| `TypeCorrect` | `Spec => []TypeOK` |
| `CommitsInOrder` | `Spec => []CommitInOrder` |
| `LockDiscipline` | `Spec => []FlagTracksLock` |
| `RecordedIsReadable` | `Spec => []CurrentReadable` |
| `RefinesLastGood` | `Spec => ImplementsLastGood` |
| `CredentialsCommitted` | `Spec => CredentialsFollowCommit` |
| `LockIsPassedOn` | `Spec => []LockMovesOn` |
| `UpdatesReachHook` | `Spec => UpdateGoesThroughHook` |
| `OnDemandIsDue` | `Spec => OnDemandOnlyWhenDue` |
| `RawFilesStayFew` | `Spec => []RawFilesBounded`, if `Faults = {}` |
| `RendersRefineRefresher` | `CSpec => ImplementsRefresher`, of `ConvertedCache` |
| `RendersKeepThePromise` | `CSpec => ImplementsLastGood`: renders keep it too |
| `RendersTypeCorrect` | `CSpec => []CTypeOK` |
| `TemplatesAreFresh` | `CSpec => []StaleOnlyIfOvertaken`, if `RefreshesOnly` |

The inductive invariant is
`Inv == TypeOK /\ CommitInOrder /\ FlagTracksLock /\ CurrentReadable`.
`CurrentReadable` alone is not inductive: `Record` puts a digest in the row and
keeps it true only because the file is there by then, and `Prune` because what it
keeps is the digest in the row; both are conjuncts of `CommitInOrder`. That in turn
needs that one task commits at a time (`loop`), and that no other task is in the
critical section, which is `FlagTracksLock`. One lemma per group of actions shows
that the step preserves each conjunct. `RefinesLastGood` then maps every step: a
download that passed is `Validate`, `Record` is `Publish`, an error or a crash in a
commit is `Discard`, everything else stutters, pruning included because of
`CurrentReadable`.

`LockMovesOn` needs to know who is in `queue`: exactly the tasks that wait, each once
(`InLine`). Joining and leaving keep that (`JoinLine`, `LeaveLine`), also for a refresh
that a hook makes while others wait. The lock is then free only with somebody at work or
a first in line that may begin.

`UpdateGoesThroughHook` is the safety half of `UpdateAnnounced`, and unlike it holds
under all faults: `UpdatesOnTheirWay` says that a call with a new payload is on its way
from the row to the hook, and each step but four (the end of the hook, an error when the
accepted credentials are stored, one when the row is read after the commit, the death of
the process) leaves it there.

`RawFilesBounded` is proved with the bound holding outside of the steps between the new
file and pruning; a fault in these leaves a file more, hence the premise.
`RendersRefineRefresher` needs to know that a converter at work was given something that
was served (`InputsServed`); with it the invariant of `Refresher` holds beside renders.
`TemplatesAreFresh` rests on it and on `BuiltFrom`, which says at each step of a commit
what a template that is not late was built from: what is served, until the row is
written, and what was served before, until the files are cleared. `ActivationKnown` is
why `refresh()` may compare the activation of its start with that of its end: nobody
else changes it, under the premise `RefreshesOnly` (no change of account, backup nodes or
threshold, and no unlink errors; those break the property, as the list above says). An
error of the database is allowed: a refresh that cannot compare the activation leaves what
the property calls late (`Unsettled`).

The assumptions are those of the module: names are distinct, bounds are naturals,
payloads are finite in number (each run evaluates them).

`UpstreamProofs`, of a call at its requests:

| theorem | |
|---|---|
| `TypeCorrect` | `Spec => []TypeOK` |
| `HopsChecked` | `Spec => []HopsAreChecked` |
| `DownloadEnds` | `Spec => []DownloadBounded` |
| `StatusTrue` | `Spec => []StatusTellsOutcome` |
| `RefinesFetchOrder` | `Spec => Order!Order`, the safety part of `ImplementsFetchOrder` |

That a contacted address was allowed needs to be known before: `LeftIsChecked` says it
of all that are left to try, through every broken connection. `TimerIsTime` is why the
deadline bounds a download: the timer is set once, not per hop. The status is true
because of `ErrorTracksSource`: in the fallback source an error of the protocol source
is recorded already, and in a download of the protocol source none is. A call that raises
keeps both (`RaisedKeepsInv`), and maps to `Raised` of `FetchOrder` (`RaisedRefines`).

`DeliveryProofs`:

| theorem | |
|---|---|
| `TypeCorrect` | `Spec => []TypeOK` |
| `RouterIsCurrent` | `Spec => []RouterCurrent` |
| `RouterNeverGoesBack` | `Spec => RouterGoesForward` |

`RouterCurrent` says nothing of a feed while it is downloaded. `NothingForgotten` does: as
long as OpenClash lags behind in a feed, or will with what it is downloading, a task has
the feed ahead of it, OpenClash was told and has not downloaded, or something failed. Each step
passes the duty on: a change to the hook, the hook to the request, the request to the
download. A download may carry an older version than what is served when it ends;
`VersionsInOrder` says that one that carries the current version is not undone by it;
nor is any other, which is `RouterGoesForward`.

`SharesProofs`:

| theorem | |
|---|---|
| `TypeCorrect` | `Spec => []ShTypeOK` |
| `ShownLinksWork` | `Spec => []ShownLinkWorks` |
| `NoFilesWithoutShare` | `Spec => []FilesHaveShares` |
| `DeadLinksAreDead` | `Spec => DeadLinksStayDead` |
| `RefinesLinks` | `Spec => ImplementsLinks` |

`TokensAreFresh`: the token that a rotation has made and not yet written is in no row
and is nobody else's, so that writing it neither revives a link nor gives two shares
the same one. It is also what `RefinesLinks` rests on: no token is promised and in a row,
and none is in two rows, so that every write changes the state of one link, or of the two
that a rotation names. A write that finds its row gone maps to `GiveUp`, as does a
restart, of all that was promised; checks, downloads and renders stutter.

`HealthySelectionProofs`:

| theorem | |
|---|---|
| `TypeCorrect` | `Spec => []TypeOK` |
| `WindowIsLongEnough` | `Spec => []LastCheckHonoured` |

`RowsAgeWithRounds` splits the age of the rows in the time that the scheduler slept, one
sleep at most, and `awake`. A sleep that is no longer than the interval of the window and
an `awake` within the `Allowance` add up to no more than the window. Nothing is assumed of
how long checks and refreshes take.

`RefreshSchedulerProofs`:

| theorem | |
|---|---|
| `TypeCorrect` | `Spec => []TypeOK` |
| `RescheduleIsHeard` | `Spec => []RescheduleTakesEffect` |
| `CacheStaysYoung` | `Spec => []AgeBounded` |

`DelayIsCurrent` goes through the moments of `asyncio.Event` and of the requests: a delay
that is not that of the stored interval has the event set, a thread about to set it, or
nobody who would. `AgeByStage` bounds the age of the cache at each stage of a round, for as
long as nobody else refreshes: it needs that the call that returned found the cache
younger than one interval (`StaleAfterOneInterval`), which does not hold of a call that
returned for `busy`. `FailureCap` must be at least 1: if failures were not counted, no
back-off would show in the state. That no refresh starts after `stop()` is the guard of the
loop itself and is not stated; `StopEndsRun` says what is not so plain.

`SessionsProofs`:

| theorem | |
|---|---|
| `OnlyLateSessions` | `Spec => []SessionsAreCurrent` |
| `NoSessionOfAnotherMode` | `Spec => []ModeChangeEndsSessions` |
| `TypeCorrect` | `Spec => []STypeOK` |
| `AttemptsStayBounded` | `Spec => []AttemptsBounded` |
| `RefusalsAreDue` | `Spec => RefusedOnlyAtLimit` |

The first two hold whatever the limiter lets through: besides the two properties their
invariant (`Inv`) has the types of what they speak of, and that a change of the mode has
one to change it to.

The others are about the limiter (`LimiterInv`), which is proved beside. Keys have one
entry each (`OnePerKey`), and its stamps are the end of what was really admitted for the
key (`Tracks`): what is missing before them has left the window for good, whatever was
trimmed, and never are there more than `Limit`. So no more than that are in a window.
Threads get the limiter's lock in another order than they read the clock, but an attempt
is at most `MaxDelay` older than those admitted before it; that is why the `Limit`
attempts on which a refusal rests are younger than `Memory`, the window and the time that
requests take. (`DropOld` gives the dropped prefix by the set of its places, so its lemmas
need no induction.)

`RefreshTriggersProofs`, of `Integration` and `MailWatcher` in one process:

| theorem | |
|---|---|
| `AutoRefreshesAreAlone` | `TSpec => []AutoRefreshAlone` |
| `RunLockIsFree` | `TSpec => []RunLockFreeOutside` |
| `HandshakesArePassedOn` | `TSpec => []HandshakesMoveOn` |
| `AutoRefreshesKeepApart` | `TSpec => AutoRefreshesSpaced` |
| `RowsStayInOrder` | `TSpec => RowsInOrder` |
| `AnsweredOnce` | `TSpec => []MailAnsweredOnce` |
| `NoMailForgotten` | `TSpec => []MailNotForgotten` |
| `PollIsResumed` | `TSpec => []PollAwaitsRefresh` |
| `TypeCorrect` | `TSpec => []TTypeOK` |

Each half has an invariant of its own, and `StepOfEach` says that a step of the whole
is a step of each half or leaves it alone. Of the calls (`Calls`): frames alternate, at
most one is an auto refresh, a task's place fits what is on top of its stack, and the
flag is set exactly while an auto refresh is on some stack; those queued for the
handshakes are in line once each (`QueuedInLine`). `PollIsResumed` joins the two halves:
a call returns to the frame below it (`CallReturns`), so that the poll's stack is empty
again only with the end of the refresh it asked for. Of the times: the end of
the last auto refresh is not older than its beginning unless that was in a process
that is gone (`EndsAfterBeginning`), and
handshakes under way began after the last ones ended (`ProbesAreNewer`), which the lock
sees to. Of the mails: what was fetched is newer than the stored UID (`BatchIsAhead`),
what was answered is not (`AnsweredBehind`), and what was passed over is accounted for
(`MailsAccounted`).

The assumptions are those of the modules, and every run evaluates those of its own:
constants are distinct, bounds are naturals, and ages saturate no sooner than what they
are compared with. Two say more: `FailureCap` of `SchedulerAssumption`, as above; and in
`Sessions` a request takes less time than a session lives. An interval may be longer than
the cap of the back-off (24 hours against 12): the theorems have that case, the run
`scheduler` does not.

Model-checked only:

* liveness and the liveness parts of the refinements (fairness is out of the prover's
  reach): `EveryCallReturns`, `UpdateAnnounced`, `FailoverAnnounced`, `StopEndsRun`,
  `RoundsGoOn`, `EverythingSettles`, `WorkingNodeServed`.

## Not modelled, and why

* the text of subscriptions, its conversion and its checks: pure functions of
  strings;
* the bytes of HTTP and SSH: what a request may come to is modelled, not how;
* the text of a URL (scheme, port, user): one outcome, `ResolveFails`;
* in `/clash-ha`, the groups a node is taken out of, Tailscale nodes, and that settings,
  snapshot and rows are read at three moments of a request (`HealthySelection` reads
  them at one; see the hazard at `api/public.py:190`);
* a single handshake, DNS for it, and which delay OpenClash measured: what a check finds
  is an input;
* addresses: which clients are trusted, in the LAN, or behind a proxy;
* `allow_clash`, labels, URLs and access counters of shares;
* two database faults in a row within one call;
* cryptography of the secret store: `available` and `put` only;
* the frontend, scripts and deployment.

## Plan

1. Done: the core above, with its proofs.
2. Done: `Sessions` with `SlidingWindow`, `Shares`, `Integration` with `MailWatcher`.
3. Done: proofs about all modules, of every safety property that a passing run checks.
4. Done: `Upstream` with `FetchOrder`, `Delivery`.
5. Done: links that work until they are ended (`Links`). Left: sessions that belong to the
   current credentials, which `SessionsAreCurrent` says without a module of its own.
6. Liveness of `RefreshTriggers`: every health check and every poll ends.
7. Done: `HealthySelection`, with `is_night` of `settings.py`.
