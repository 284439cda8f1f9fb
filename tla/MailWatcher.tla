---------------------------- MODULE MailWatcher ----------------------------
(* MailRefreshWatcher.poll (mail_refresh.py): a mail that says the account   *)
(* is restricted makes the service refresh.  The UID up to which mails were  *)
(* looked at is stored; the time of the last refresh is not.                 *)
(* A mail is its UID, which counts from 1.                                   *)
EXTENDS Integers, Sequences, FiniteSets

CONSTANTS
    NoUid,          \* no stored UID
    MaxUid,         \* bound of the mails that arrive
    MailCooldown,   \* COOLDOWN_SECONDS, in ticks
    MailAgeCap      \* bound: ages saturate here

ASSUME MailAssumption ==
    /\ MaxUid \in Nat
    /\ NoUid \notin 0..MaxUid
    /\ MailCooldown \in Nat /\ MailAgeCap \in Nat /\ MailCooldown <= MailAgeCap

VARIABLES
    mailbox,    \* whether each mail is_risk_mail
    stored,     \* the UID in app_settings, or NoUid
    mpc,        \* where poll() is
    batch,      \* the fetched mails that are still to be looked at
    asked,      \* the mail it stands at
    lastMail,   \* the age of _last_refresh_at; MailAgeCap if there is none
    mstamp,     \* the age of `now`
    answered,   \* history: how often each mail made it refresh
    excused     \* history: mails that need not be answered

mvars == <<mailbox, stored, mpc, batch, asked, lastMail, mstamp, answered, excused>>

Uids == 1..MaxUid

MTypeOK ==
    /\ mailbox \in Seq(BOOLEAN) /\ Len(mailbox) <= MaxUid
    /\ stored \in 0..MaxUid \cup {NoUid}
    /\ mpc \in {"idle", "fetching", "handling", "asking", "refreshing"}
    /\ batch \subseteq Uids
    /\ asked \in 0..MaxUid
    /\ lastMail \in 0..MailAgeCap
    /\ mstamp \in 0..MailAgeCap
    /\ answered \in [Uids -> Nat]
    /\ excused \subseteq Uids

MInit ==
    /\ mailbox = <<>>
    /\ stored = NoUid
    /\ mpc = "idle"
    /\ batch = {} /\ asked = 0
    /\ lastMail = MailAgeCap /\ mstamp = 0
    /\ answered = [u \in Uids |-> 0]
    /\ excused = {}

-----------------------------------------------------------------------------
\* A mail arrives.
Arrive(risk) ==
    /\ Len(mailbox) < MaxUid
    /\ mailbox' = Append(mailbox, risk)
    /\ UNCHANGED <<stored, mpc, batch, asked, lastMail, mstamp, answered, excused>>

\* A poll begins, with the UID that is stored; the mails are fetched on a thread.
Poll ==
    /\ mpc = "idle"
    /\ mpc' = "fetching"
    /\ UNCHANGED <<mailbox, stored, batch, asked, lastMail, mstamp, answered, excused>>

\* The first poll of all only takes note of where the mailbox stands: at its
\* newest mail, or at 0 if it is empty or the search is refused.
FirstFetch(newest) ==
    /\ mpc = "fetching" /\ stored = NoUid
    /\ newest \in {0, Len(mailbox)}
    /\ stored' = newest
    /\ excused' = 1..newest
    /\ mpc' = "idle"
    /\ UNCHANGED <<mailbox, batch, asked, lastMail, mstamp, answered>>

\* Deviation: the newest UID is stored as soon as the mails are fetched.
FetchStoringNewest(failed) ==
    /\ mpc = "fetching" /\ stored # NoUid
    /\ batch' = (stored + 1)..Len(mailbox) \ failed
    /\ excused' = (excused \ batch') \cup ((stored + 1)..Len(mailbox) \cap failed)
    /\ stored' = Len(mailbox)
    /\ mpc' = "handling"
    /\ UNCHANGED <<mailbox, asked, lastMail, mstamp, answered>>

\* The newer mails, without those whose headers the server did not give; all of
\* them, if it refuses the search.
Fetch(failed) ==
    /\ mpc = "fetching" /\ stored # NoUid
    /\ batch' = (stored + 1)..Len(mailbox) \ failed
    /\ excused' = (excused \ batch') \cup ((stored + 1)..Len(mailbox) \cap failed)
    /\ mpc' = "handling"
    /\ UNCHANGED <<mailbox, stored, asked, lastMail, mstamp, answered>>

\* The mail server cannot be reached, or the UID cannot be stored: the poll is
\* over, and the next one begins where this one stood.
PollFails ==
    /\ mpc \in {"fetching", "handling"}
    /\ mpc' = "idle"
    /\ batch' = {}
    /\ UNCHANGED <<mailbox, stored, asked, lastMail, mstamp, answered, excused>>

CoolingDown == lastMail < MailCooldown

\* Deviation: the UID is stored when the mail has been answered.
HandleFirst(u) ==
    /\ mpc = "handling"
    /\ u \in batch /\ \A v \in batch : u <= v
    /\ batch' = batch \ {u}
    /\ asked' = u
    /\ IF mailbox[u] /\ ~CoolingDown
       THEN mpc' = "asking" /\ mstamp' = 0 /\ UNCHANGED <<stored, excused>>
       ELSE stored' = u /\ excused' = excused \cup {u} /\ UNCHANGED <<mpc, mstamp>>
    /\ UNCHANGED <<mailbox, lastMail, answered>>

\* The next mail: its UID is stored, whatever becomes of it.
Handle(u) ==
    /\ mpc = "handling"
    /\ u \in batch /\ \A v \in batch : u <= v
    /\ batch' = batch \ {u}
    /\ stored' = u
    /\ asked' = u
    /\ IF mailbox[u] /\ ~CoolingDown
       THEN mpc' = "asking" /\ mstamp' = 0 /\ UNCHANGED excused
       ELSE excused' = excused \cup {u} /\ UNCHANGED <<mpc, mstamp>>
    /\ UNCHANGED <<mailbox, lastMail, answered>>

\* await self.refresh()
Ask ==
    /\ mpc = "asking"
    /\ answered' = [answered EXCEPT ![asked] = @ + 1]
    /\ mpc' = "refreshing"
    /\ UNCHANGED <<mailbox, stored, batch, asked, lastMail, mstamp, excused>>

\* refresh() returns, or raises, which ends the poll.
Answered(raised) ==
    /\ mpc = "refreshing"
    /\ IF raised
       THEN mpc' = "idle" /\ batch' = {} /\ UNCHANGED lastMail
       ELSE mpc' = "handling" /\ lastMail' = mstamp /\ UNCHANGED batch
    /\ UNCHANGED <<mailbox, stored, asked, mstamp, answered, excused>>

PollEnds ==
    /\ mpc = "handling" /\ batch = {}
    /\ mpc' = "idle"
    /\ UNCHANGED <<mailbox, stored, batch, asked, lastMail, mstamp, answered, excused>>

MailOlder(age) == IF age < MailAgeCap THEN age + 1 ELSE age

MTick ==
    /\ lastMail' = MailOlder(lastMail)
    /\ mstamp' = IF mpc = "refreshing" THEN MailOlder(mstamp) ELSE mstamp
    /\ UNCHANGED <<mailbox, stored, mpc, batch, asked, answered, excused>>

\* A restart forgets the last refresh, and a mail whose UID was just stored.
MRestart ==
    /\ mpc' = "idle" /\ batch' = {}
    /\ lastMail' = MailAgeCap
    /\ excused' = IF mpc = "asking" THEN excused \cup {asked} ELSE excused
    /\ UNCHANGED <<mailbox, stored, asked, mstamp, answered>>

\* The steps of a poll that call nobody.
PollStep ==
    \/ \E risk \in BOOLEAN : Arrive(risk)
    \/ \E newest \in 0..MaxUid : FirstFetch(newest)
    \/ Poll \/ PollFails \/ PollEnds
    \/ \E failed \in SUBSET Uids : Fetch(failed)
    \/ \E u \in Uids : Handle(u)

-----------------------------------------------------------------------------
\* No mail is answered twice, over failing refreshes, failing polls and restarts.
MailAnsweredOnce == \A u \in Uids : answered[u] <= 1

\* Every restriction mail up to the stored UID is answered, but for those that
\* came before the first poll, whose headers could not be fetched, that fell into
\* the cool-down, or whose UID was stored when the process died.
MailNotForgotten ==
    \A u \in Uids :
        stored # NoUid /\ u <= stored /\ mailbox[u] =>
            answered[u] > 0 \/ u \in excused \/ (mpc = "asking" /\ asked = u)
=============================================================================
