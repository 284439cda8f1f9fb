------------------------------ MODULE Sessions ------------------------------
(* Logins, sessions and what ends them: AuthService (auth.py), its endpoints *)
(* (api/auth.py), the limiter of logins (access.py), and PUT /settings       *)
(* (api/admin.py), which ends all sessions when the access mode changes.     *)
(*                                                                           *)
(* These endpoints are plain functions, so each request runs on a worker     *)
(* thread, and every call of the database is a transaction of its own: other *)
(* requests come between any two of them.  Verifying a password takes long.  *)
(*                                                                           *)
(* An account is a name with its password.  Times are ages.                  *)
EXTENDS SlidingWindow

CONSTANTS
    Threads,        \* worker threads
    Accounts,       \* names with their passwords; FirstAccount is the initial one
    FirstAccount,
    Tokens,         \* session tokens
    Keys,           \* client addresses
    Modes,          \* access modes
    None,           \* no session, no key, no mode
    Lifetime,       \* SESSION_SECONDS, in ticks
    MaxDelay        \* bound of the time a login takes, in ticks

ASSUME SessionsAssumption ==
    /\ FirstAccount \in Accounts
    /\ Modes # {} /\ None \notin Modes \cup Keys
    /\ Lifetime \in Nat \ {0}
    /\ MaxDelay \in Nat
    /\ MaxDelay < Lifetime

VARIABLES
    account,    \* the row of admins
    mode,       \* the stored access mode
    sessions,   \* the rows of sessions, by token
    entries,    \* the login limiter
    pc,         \* where each thread is
    work,       \* its local variables
    recent,     \* history: ages of the attempts admitted per key since it was
                \* last cleared, in that order
    torn        \* history: a mode was stored over another than the one that was
                \* read before, or the process died before it ended the sessions

auth == <<account, mode, sessions>>
vars == <<auth, entries, pc, work, recent, torn>>

\* Ages of attempts are told apart up to this one.
Memory == Window + 2 * MaxDelay

Older(ages) == [j \in DOMAIN ages |-> IF ages[j] < Memory THEN ages[j] + 1 ELSE ages[j]]

Session == [account: Accounts, mode: Modes, age: 0..Lifetime, late: BOOLEAN]

Row(who, m, age, late) == [account |-> who, mode |-> m, age |-> age, late |-> late]

Locals == [kind: {"none", "login", "change", "settings"}, key: Keys \cup {None},
           given: Accounts, seen: Accounts, new: Accounts, stamp: 0..MaxDelay,
           before: Modes \cup {None}, target: Modes \cup {None}]

Blank == [kind |-> "none", key |-> None, given |-> FirstAccount, seen |-> FirstAccount,
          new |-> FirstAccount, stamp |-> 0, before |-> None, target |-> None]

STypeOK ==
    /\ account \in Accounts
    /\ mode \in Modes
    /\ sessions \in [Tokens -> Session \cup {None}]
    /\ Len(entries) <= MaxKeys
    /\ \A i \in DOMAIN entries :
        /\ entries[i].key \in Keys
        /\ Len(entries[i].stamps) <= Limit
        /\ entries[i].stamps \in Seq(0..Memory)
    /\ pc \in [Threads -> {"idle", "stamped", "reading", "verifying", "clearing",
                           "comparing", "storing", "ending"}]
    /\ work \in [Threads -> Locals]
    /\ recent \in [Keys -> Seq(0..Memory)]
    /\ torn \in BOOLEAN

Init ==
    /\ account = FirstAccount
    /\ mode \in Modes
    /\ sessions = [tok \in Tokens |-> None]
    /\ entries = <<>>
    /\ pc = [t \in Threads |-> "idle"]
    /\ work = [t \in Threads |-> Blank]
    /\ recent = [k \in Keys |-> <<>>]
    /\ torn = FALSE

-----------------------------------------------------------------------------
NoSessions == [tok \in Tokens |-> None]

\* A row that has not expired.
Authenticated(tok) == sessions[tok] # None /\ sessions[tok].age < Lifetime

Goto(t, step) == pc' = [pc EXCEPT ![t] = step]

\* The request is answered.
Answer(t) ==
    /\ Goto(t, "idle")
    /\ work' = [work EXCEPT ![t] = Blank]

\* The limiter has forgotten the attempts of these keys.
Forgotten(keys) == [k \in Keys |-> IF k \in keys THEN <<>> ELSE recent[k]]

-----------------------------------------------------------------------------
\* POST /login

CallLogin(t, key, given) ==
    /\ pc[t] = "idle"
    /\ Goto(t, "stamped")
    /\ work' = [work EXCEPT ![t] = [Blank EXCEPT !.kind = "login", !.key = key, !.given = given]]
    /\ UNCHANGED <<auth, entries, recent, torn>>

\* The limiter counts the attempt, or refuses it (429).
Allow(t) ==
    /\ pc[t] = "stamped"
    /\ LET key == work[t].key
           pushedOut == KeysOf(entries) \ KeysOf(entries')
       IN  /\ entries' = AfterAllow(entries, key, work[t].stamp)
           /\ IF Admits(entries, key, work[t].stamp)
              THEN /\ Goto(t, "reading")
                   /\ recent' = [Forgotten(pushedOut) EXCEPT ![key] =
                                    Append(DropOld(@, Memory), work[t].stamp)]
                   /\ UNCHANGED work
              ELSE Answer(t) /\ recent' = Forgotten(pushedOut)
    /\ UNCHANGED <<auth, torn>>

\* get_admin_by_username, or get_admin in change_credentials.
ReadAdmin(t) ==
    /\ pc[t] = "reading"
    /\ work' = [work EXCEPT ![t].seen = account]
    /\ Goto(t, "verifying")
    /\ UNCHANGED <<auth, entries, recent, torn>>

\* The password was verified against the row that was read: a session with a
\* fresh token, or 401.
InsertSession(t) ==
    /\ pc[t] = "verifying" /\ work[t].kind = "login"
    /\ IF work[t].given = work[t].seen
       THEN /\ \E tok \in Tokens :
                /\ sessions[tok] = None
                /\ sessions' = [sessions EXCEPT ![tok] =
                       Row(work[t].seen, mode, work[t].stamp, work[t].seen # account)]
            /\ Goto(t, "clearing")
            /\ UNCHANGED work
       ELSE Answer(t) /\ UNCHANGED sessions
    /\ UNCHANGED <<account, mode, entries, recent, torn>>

\* login_limiter.clear, after a success.
ClearKey(t) ==
    /\ pc[t] = "clearing"
    /\ entries' = AfterClear(entries, work[t].key)
    /\ recent' = Forgotten({work[t].key})
    /\ Answer(t)
    /\ UNCHANGED <<auth, torn>>

-----------------------------------------------------------------------------
\* PUT /credentials

CallChange(t, tok, given, new) ==
    /\ pc[t] = "idle" /\ Authenticated(tok)
    /\ Goto(t, "reading")
    /\ work' = [work EXCEPT ![t] = [Blank EXCEPT !.kind = "change", !.given = given, !.new = new]]
    /\ UNCHANGED <<auth, entries, recent, torn>>

\* Deviation: the account changes, and nobody is logged out.
ReplaceKeepingSessions(t) ==
    /\ pc[t] = "verifying" /\ work[t].kind = "change"
    /\ account' = IF work[t].given = work[t].seen THEN work[t].new ELSE account
    /\ Answer(t)
    /\ UNCHANGED <<mode, sessions, entries, recent, torn>>

\* update_admin_and_delete_sessions, one transaction; or 403.
Replace(t) ==
    /\ pc[t] = "verifying" /\ work[t].kind = "change"
    /\ IF work[t].given = work[t].seen
       THEN account' = work[t].new /\ sessions' = NoSessions /\ torn' = FALSE
       ELSE UNCHANGED <<account, sessions, torn>>
    /\ Answer(t)
    /\ UNCHANGED <<mode, entries, recent>>

-----------------------------------------------------------------------------
\* PUT /settings

CallSettings(t, tok, target) ==
    /\ pc[t] = "idle" /\ Authenticated(tok)
    /\ Goto(t, "comparing")
    /\ work' = [work EXCEPT ![t] = [Blank EXCEPT !.kind = "settings", !.target = target]]
    /\ UNCHANGED <<auth, entries, recent, torn>>

\* The current settings are read, to compare with later.
ReadMode(t) ==
    /\ pc[t] = "comparing"
    /\ work' = [work EXCEPT ![t].before = mode]
    /\ Goto(t, "storing")
    /\ UNCHANGED <<auth, entries, recent, torn>>

\* Deviation: the comparison comes after the update.
StoreModeFirst(t) ==
    /\ pc[t] = "storing"
    /\ mode' = work[t].target
    /\ IF mode' # work[t].target THEN Goto(t, "ending") /\ UNCHANGED work ELSE Answer(t)
    /\ UNCHANGED <<account, sessions, entries, recent, torn>>

StoreMode(t) ==
    /\ pc[t] = "storing"
    /\ mode' = work[t].target
    /\ torn' = (torn \/ mode # work[t].before)
    /\ IF work[t].before # work[t].target
       THEN Goto(t, "ending") /\ UNCHANGED work
       ELSE Answer(t)
    /\ UNCHANGED <<account, sessions, entries, recent>>

\* delete_all_sessions
EndSessions(t) ==
    /\ pc[t] = "ending"
    /\ sessions' = NoSessions
    /\ torn' = FALSE
    /\ Answer(t)
    /\ UNCHANGED <<account, mode, entries, recent>>

-----------------------------------------------------------------------------
\* POST /logout: of its two statements only the second changes a row.
Logout(tok) ==
    /\ Authenticated(tok)
    /\ sessions' = [sessions EXCEPT ![tok] = None]
    /\ UNCHANGED <<account, mode, entries, pc, work, recent, torn>>

\* Any request with an expired session removes it.
RefuseExpired(tok) ==
    /\ sessions[tok] # None /\ ~Authenticated(tok)
    /\ sessions' = [sessions EXCEPT ![tok] = None]
    /\ UNCHANGED <<account, mode, entries, pc, work, recent, torn>>

\* Time passes; a login takes at most MaxDelay.
Tick ==
    /\ \A t \in Threads : work[t].kind = "login" => work[t].stamp < MaxDelay
    /\ work' = [t \in Threads |-> IF work[t].kind = "login"
                                  THEN [work[t] EXCEPT !.stamp = @ + 1] ELSE work[t]]
    /\ sessions' = [tok \in Tokens |->
                        IF Authenticated(tok)
                        THEN [sessions[tok] EXCEPT !.age = @ + 1] ELSE sessions[tok]]
    /\ entries' = [i \in DOMAIN entries |-> [entries[i] EXCEPT !.stamps = Older(@)]]
    /\ recent' = [k \in Keys |-> Older(recent[k])]
    /\ UNCHANGED <<account, mode, pc, torn>>

\* The process is started again: the limiter is empty, and expired rows go.
Restart ==
    /\ sessions' = [tok \in Tokens |-> IF Authenticated(tok) THEN sessions[tok] ELSE None]
    /\ entries' = <<>>
    /\ recent' = [k \in Keys |-> <<>>]
    /\ torn' = (torn \/ \E t \in Threads : pc[t] = "ending")
    /\ pc' = [t \in Threads |-> "idle"]
    /\ work' = [t \in Threads |-> Blank]
    /\ UNCHANGED <<account, mode>>

Next ==
    \/ \E t \in Threads :
        \/ \E key \in Keys, given \in Accounts : CallLogin(t, key, given)
        \/ Allow(t) \/ ReadAdmin(t) \/ InsertSession(t) \/ ClearKey(t)
        \/ \E tok \in Tokens, given, new \in Accounts : CallChange(t, tok, given, new)
        \/ Replace(t)
        \/ \E tok \in Tokens, target \in Modes : CallSettings(t, tok, target)
        \/ ReadMode(t) \/ StoreMode(t) \/ EndSessions(t)
    \/ \E tok \in Tokens : Logout(tok) \/ RefuseExpired(tok)
    \/ Tick
    \/ Restart

Spec == Init /\ [][Next]_vars

-----------------------------------------------------------------------------
\* A change of the account ends all sessions of the previous one (README.md:189).
\* One case is excepted, and real: a login whose password was verified before the
\* change stores its session after it.
SessionsAreCurrent ==
    \A tok \in Tokens :
        sessions[tok] # None => sessions[tok].account = account \/ sessions[tok].late

\* A change of the access mode leaves no session made in another mode, but for
\* two changes that overlap and for a crash in the middle of one.
ModeChangeEndsSessions ==
    (\A t \in Threads : pc[t] # "ending") /\ ~torn =>
        \A tok \in Tokens : sessions[tok] # None => sessions[tok].mode = mode

\* Attempts admitted for a key less than some time ago.
Younger(k, age) == {j \in DOMAIN recent[k] : recent[k][j] < age}

\* Since its last success or its eviction, no client had more than Limit
\* passwords verified within one window, however its requests overlap.
AttemptsBounded == \A k \in Keys : Cardinality(Younger(k, Window)) <= Limit

\* Refused attempts do not count: a client is refused only if Limit attempts were
\* admitted within the window, and the time its overlapping requests took.
RefusedOnlyAtLimit ==
    [][\A t \in Threads : Allow(t) /\ pc'[t] = "idle" =>
        Cardinality(Younger(work[t].key, Memory)) >= Limit]_vars
=============================================================================
