-------------------------- MODULE RefreshTriggers --------------------------
(* Who makes the service refresh besides its schedule, together: the mail    *)
(* watcher waits in poll() for a refresh whose hook checks the nodes, which  *)
(* may refresh again, beside the health checks of other tasks.               *)
EXTENDS Integration, MailWatcher

CONSTANT MailTask   \* the task that polls

ASSUME MailTaskAssumption == MailTask \in Tasks

tvars == <<ivars, mvars>>

TInit == IInit /\ MInit

\* The poll's await of refresh() begins and ends with the call on its stack.
MailAsks == Ask /\ CallRefresh(MailTask)

MailReturns ==
    /\ Return(MailTask)
    /\ IF Len(stack[MailTask]) = 1 THEN Answered(pc[MailTask] = "raising") ELSE UNCHANGED mvars

Others == Tasks \ {MailTask}

TNext ==
    \/ \E t \in Others : (CallHealth(t) \/ CallRefresh(t) \/ Return(t)) /\ UNCHANGED mvars
    \/ \E t \in Tasks : Proceed(t) /\ UNCHANGED mvars
    \/ PollStep /\ UNCHANGED ivars
    \/ MailAsks
    \/ MailReturns
    \/ ITick /\ MTick
    \/ IRestart /\ MRestart

TSpec == TInit /\ [][TNext]_tvars

TTypeOK == ITypeOK /\ MTypeOK

\* The watcher waits in its poll exactly while the refresh it asked for, or what
\* that calls, is on its task's stack: it is resumed once, by that refresh.
PollAwaitsRefresh ==
    /\ mpc = "refreshing" <=> stack[MailTask] # <<>>
    /\ mpc = "refreshing" => stack[MailTask][1] = "refresh"
=============================================================================
