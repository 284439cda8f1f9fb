---------------------------- MODULE Integration ----------------------------
(* IntegrationService (integration.py) and NodeHealthChecker (health.py).    *)
(* A health check measures the nodes, through OpenClash if it can, else by   *)
(* handshakes, and calls refresh() when too few are online.  A refresh that  *)
(* changed something runs a health check in its hook.  So the two call each  *)
(* other, within one task and beside other tasks; `stack` is the task's      *)
(* stack of such calls:                                                      *)
(*     "health"   run_health                                                 *)
(*     "refresh"  refresh() called by the scheduler, the admin or a mail     *)
(*     "auto"     refresh() called by _maybe_auto_refresh                    *)
(* All of it runs on the event loop.                                         *)
EXTENDS Integers, Sequences, FiniteSets

CONSTANTS
    Tasks,      \* coroutines
    None,       \* no task
    Cooldown,   \* health_refresh_cooldown_minutes, in ticks
    AgeCap      \* bound: ages saturate here

ASSUME IntegrationAssumption ==
    /\ None \notin Tasks
    /\ Cooldown \in Nat \ {0}
    /\ AgeCap \in Nat
    /\ Cooldown <= AgeCap

VARIABLES
    stack,      \* what each task is in
    pc,         \* where it is in the top of its stack
    stamp,      \* the age of checked_at of its handshakes
    runLock,    \* the holder of _run_lock
    runQueue,   \* its waiters
    inFlight,   \* _auto_refresh_in_flight
    lastAuto,   \* the age of _last_auto_refresh
    rows,       \* the rows of node_health: their age, and who wrote them
    begun,      \* history: the time since an auto refresh last began
    beginner    \* history: whether the process that began it still runs

spacing == <<begun, beginner>>
ivars == <<stack, pc, stamp, runLock, runQueue, inFlight, lastAuto, rows, spacing>>

ITypeOK ==
    /\ \A t \in Tasks :
        /\ stack[t] \in Seq({"health", "refresh", "auto"})
        /\ pc[t] = "idle" <=> stack[t] = <<>>
    /\ pc \in [Tasks -> {"idle", "refreshing", "outbound", "queued", "probing",
                         "returning", "raising"}]
    /\ stamp \in [Tasks -> 0..AgeCap]
    /\ runLock \in Tasks \cup {None}
    /\ runQueue \in Seq(Tasks)
    /\ inFlight \in BOOLEAN
    /\ lastAuto \in 0..AgeCap /\ begun \in 0..AgeCap
    /\ beginner \in {"running", "gone"}
    /\ rows \in [age: 0..AgeCap, by: {"nobody", "outbound", "handshake"}]

\* The clock that _last_auto_refresh = 0.0 is compared with counts from the boot
\* of the host.
IInit ==
    /\ stack = [t \in Tasks |-> <<>>]
    /\ pc = [t \in Tasks |-> "idle"]
    /\ stamp = [t \in Tasks |-> 0]
    /\ runLock = None /\ runQueue = <<>>
    /\ inFlight = FALSE
    /\ lastAuto \in 0..AgeCap
    /\ begun = AgeCap /\ beginner = "running"
    /\ rows = [age |-> AgeCap, by |-> "nobody"]

-----------------------------------------------------------------------------
Top(t) == stack[t][Len(stack[t])]

Enter(t, frame, step) ==
    /\ stack' = [stack EXCEPT ![t] = Append(@, frame)]
    /\ pc' = [pc EXCEPT ![t] = step]

Goto(t, step) == pc' = [pc EXCEPT ![t] = step] /\ UNCHANGED stack

Older(age) == IF age < AgeCap THEN age + 1 ELSE age

\* The scheduler of health checks, or the admin.
CallHealth(t) ==
    /\ pc[t] = "idle"
    /\ Enter(t, "health", "outbound")
    /\ UNCHANGED <<stamp, runLock, runQueue, inFlight, lastAuto, rows, spacing>>

\* Anybody who refreshes; the refresher's own lock is not modelled here.
CallRefresh(t) ==
    /\ pc[t] = "idle"
    /\ Enter(t, "refresh", "refreshing")
    /\ UNCHANGED <<stamp, runLock, runQueue, inFlight, lastAuto, rows, spacing>>

BeginAutoRefresh(t) ==
    /\ Enter(t, "auto", "refreshing")
    /\ inFlight' = TRUE
    /\ begun' = 0 /\ beginner' = "running"

\* Deviation: nothing tells a health check that it runs inside an auto refresh.
JudgeReentrant(t, degraded) ==
    IF degraded /\ lastAuto >= Cooldown
    THEN BeginAutoRefresh(t)
    ELSE Goto(t, "returning") /\ UNCHANGED <<inFlight, spacing>>

\* Deviation: the cool-down is not looked at.
JudgeImpatiently(t, degraded) ==
    IF degraded /\ ~inFlight
    THEN BeginAutoRefresh(t)
    ELSE Goto(t, "returning") /\ UNCHANGED <<inFlight, spacing>>

\* _maybe_auto_refresh, up to its call of refresh().
Judge(t, degraded) ==
    IF degraded /\ ~inFlight /\ lastAuto >= Cooldown
    THEN BeginAutoRefresh(t)
    ELSE Goto(t, "returning") /\ UNCHANGED <<inFlight, spacing>>

\* OpenClash measured nodes of the current subscription.
OutboundDone(t, degraded) ==
    /\ pc[t] = "outbound"
    /\ rows' = [age |-> 0, by |-> "outbound"]
    /\ Judge(t, degraded)
    /\ UNCHANGED <<stamp, runLock, runQueue, lastAuto>>

\* It is not configured, did not answer, or knows other nodes: handshakes.
OutboundFailed(t) ==
    /\ pc[t] = "outbound"
    /\ Goto(t, "queued")
    /\ runQueue' = Append(runQueue, t)
    /\ UNCHANGED <<stamp, runLock, inFlight, lastAuto, rows, spacing>>

\* Deviation: handshakes of several runs overlap.
StartProbesUnlocked(t) ==
    /\ pc[t] = "queued"
    /\ runQueue' = SelectSeq(runQueue, LAMBDA u : u # t)
    /\ stamp' = [stamp EXCEPT ![t] = 0]
    /\ Goto(t, "probing")
    /\ UNCHANGED <<runLock, inFlight, lastAuto, rows, spacing>>

\* run_once takes its lock, and then the time.
StartProbes(t) ==
    /\ pc[t] = "queued"
    /\ runLock = None /\ Head(runQueue) = t
    /\ runLock' = t
    /\ runQueue' = Tail(runQueue)
    /\ stamp' = [stamp EXCEPT ![t] = 0]
    /\ Goto(t, "probing")
    /\ UNCHANGED <<inFlight, lastAuto, rows, spacing>>

\* Deviation: the verdict is reached with the lock still held.
EndProbesHoldingLock(t, degraded) ==
    /\ pc[t] = "probing"
    /\ rows' = [age |-> stamp[t], by |-> "handshake"]
    /\ Judge(t, degraded)
    /\ UNCHANGED <<stamp, runLock, runQueue, lastAuto>>

EndProbes(t, degraded) ==
    /\ pc[t] = "probing"
    /\ rows' = [age |-> stamp[t], by |-> "handshake"]
    /\ runLock' = None
    /\ Judge(t, degraded)
    /\ UNCHANGED <<stamp, runQueue, lastAuto>>

\* No cached subscription to probe, or an error, which a caller further down
\* swallows.
ProbesFailed(t) ==
    /\ pc[t] = "probing"
    /\ runLock' = None
    /\ Goto(t, "returning")
    /\ UNCHANGED <<stamp, runQueue, inFlight, lastAuto, rows, spacing>>

\* refresh() has something to tell its hook, which checks the nodes; or it has
\* not; or it raises, which _maybe_auto_refresh logs.
RefreshDone(t, outcome) ==
    /\ pc[t] = "refreshing"
    /\ CASE outcome = "announced" -> Enter(t, "health", "outbound")
         [] outcome = "raised" /\ Top(t) = "refresh" -> Goto(t, "raising")
         [] OTHER -> Goto(t, "returning")
    /\ UNCHANGED <<stamp, runLock, runQueue, inFlight, lastAuto, rows, spacing>>

\* The call on top of the stack returns.  An auto refresh, failed or not, starts
\* the cool-down when it ends.
Return(t) ==
    /\ pc[t] \in {"returning", "raising"}
    /\ LET rest == SubSeq(stack[t], 1, Len(stack[t]) - 1)
       IN  /\ stack' = [stack EXCEPT ![t] = rest]
           /\ pc' = [pc EXCEPT ![t] = IF rest = <<>> THEN "idle" ELSE "returning"]
    /\ IF Top(t) = "auto"
       THEN inFlight' = FALSE /\ lastAuto' = 0
       ELSE UNCHANGED <<inFlight, lastAuto>>
    /\ UNCHANGED <<stamp, runLock, runQueue, rows, spacing>>

ITick ==
    /\ stamp' = [t \in Tasks |-> IF pc[t] = "probing" THEN Older(stamp[t]) ELSE stamp[t]]
    /\ lastAuto' = Older(lastAuto)
    /\ begun' = Older(begun)
    /\ rows' = [rows EXCEPT !.age = Older(@)]
    /\ UNCHANGED <<stack, pc, runLock, runQueue, inFlight, beginner>>

\* A restart; the rows stay, and _last_auto_refresh is 0.0 again.
IRestart ==
    /\ stack' = [t \in Tasks |-> <<>>]
    /\ pc' = [t \in Tasks |-> "idle"]
    /\ stamp' = [t \in Tasks |-> 0]
    /\ runLock' = None /\ runQueue' = <<>>
    /\ inFlight' = FALSE
    /\ lastAuto' \in 0..AgeCap
    /\ beginner' = "gone"
    /\ UNCHANGED <<rows, begun>>

\* What a task does by itself.
Proceed(t) ==
    \/ \E degraded \in BOOLEAN : OutboundDone(t, degraded) \/ EndProbes(t, degraded)
    \/ OutboundFailed(t) \/ StartProbes(t) \/ ProbesFailed(t)
    \/ \E outcome \in {"announced", "quiet", "raised"} : RefreshDone(t, outcome)

-----------------------------------------------------------------------------
\* One auto refresh at a time, in all tasks and inside itself: the flag is set
\* exactly while one is on a stack, and so calls nest at most four deep.
AutoRefreshAlone ==
    LET autos == {c \in Tasks \X (1..5) :
                    c[2] \in DOMAIN stack[c[1]] /\ stack[c[1]][c[2]] = "auto"}
    IN  /\ Cardinality(autos) = IF inFlight THEN 1 ELSE 0
        /\ \A t \in Tasks : Len(stack[t]) <= 4

\* The lock of the handshakes is held during handshakes only, and so never while
\* a refresh is called, whose hook waits for it.
RunLockFreeOutside == \A t \in Tasks : runLock = t <=> pc[t] = "probing"

\* Nobody is forgotten at that lock: while a run of handshakes is queued, another
\* is under way or the first in line may begin, whatever failed before.
HandshakesMoveOn ==
    (\E t \in Tasks : pc[t] = "queued") =>
        \E u \in Tasks :
            \/ runLock = u /\ pc[u] = "probing"
            \/ runLock = None /\ pc[u] = "queued" /\ Head(runQueue) = u

\* README.md:159: the airport is spared; two auto refreshes begin at least a
\* cool-down apart, whichever tasks' health checks ask for them, and also when the
\* first one failed: the finally clause sets _last_auto_refresh in any case, where
\* the comment on it (integration.py:132) says that a failed attempt does not take
\* up the cool-down.  Except across a restart: _last_auto_refresh is not stored, and
\* the clock it is compared with counts from the boot of the host, so the first auto
\* refresh of a process may follow the last one of the process before at once.
AutoRefreshesSpaced ==
    [][~inFlight /\ inFlight' => begun >= Cooldown \/ beginner = "gone"]_ivars

\* The rows of node_health go back in time only when handshakes end that began
\* before OpenClash's measurement was stored.
RowsInOrder ==
    [][\A t \in Tasks :
        pc[t] = "probing" /\ pc'[t] # "probing" /\ rows' # rows /\ stamp[t] > rows.age
            => rows.by = "outbound"]_ivars
=============================================================================
