--------------------------- MODULE SessionsProofs ---------------------------
(* Proofs about Sessions and its SlidingWindow, for any threads, accounts,   *)
(* tokens, clients and modes.  The first half is about what ends sessions,   *)
(* and holds whatever the limiter lets through; the second about the limiter.*)
EXTENDS Sessions, FiniteSetTheorems, SequenceTheorems, TLAPS

-----------------------------------------------------------------------------
\* The invariant.

Steps == {"idle", "stamped", "reading", "verifying", "clearing", "comparing",
          "storing", "ending"}

Types ==
    /\ account \in Accounts
    /\ mode \in Modes
    /\ sessions \in [Tokens -> Session \cup {None}]
    /\ pc \in [Threads -> Steps]
    /\ work \in [Threads -> Locals]
    /\ torn \in BOOLEAN

\* Who changes the mode has one to change it to.
HasTarget(t) == pc[t] \in {"comparing", "storing"} => work[t].target \in Modes

Inv ==
    /\ Types
    /\ \A t \in Threads : HasTarget(t)
    /\ SessionsAreCurrent
    /\ ModeChangeEndsSessions

LEMMA BlankType == Blank \in Locals
  BY SessionsAssumption DEF Blank, Locals

LEMMA Initially == Init => Inv
  <1> SUFFICES ASSUME Init PROVE Inv
    OBVIOUS
  <1>1. torn \in BOOLEAN
    BY Zenon DEF Init
  <1>2. Types
    BY <1>1, BlankType, SessionsAssumption DEF Init, Types, Steps
  <1>3. /\ SessionsAreCurrent /\ ModeChangeEndsSessions
        /\ \A t \in Threads : HasTarget(t)
    BY DEF Init, SessionsAreCurrent, ModeChangeEndsSessions, HasTarget
  <1>4. QED
    BY <1>2, <1>3 DEF Inv

-----------------------------------------------------------------------------
\* What steps have in common.

\* Thread t goes on, and no other.
Alone(t) ==
    /\ pc' \in [Threads -> Steps] /\ work' \in [Threads -> Locals]
    /\ \A u \in Threads \ {t} : pc'[u] = pc[u] /\ work'[u] = work[u]
    /\ HasTarget(t)'

LEMMA AnswerAlone ==
  ASSUME Types, NEW t \in Threads, Answer(t)
  PROVE  Alone(t)
  BY BlankType DEF Types, Steps, Answer, Goto, Alone, HasTarget

LEMMA GotoAlone ==
  ASSUME Types, NEW t \in Threads, NEW step \in Steps, Goto(t, step),
         NEW locals \in Locals, work' = [work EXCEPT ![t] = locals],
         step \in {"comparing", "storing"} => locals.target \in Modes
  PROVE  Alone(t) /\ pc'[t] = step
  BY DEF Types, Goto, Alone, HasTarget

LEMMA GotoOnlyAlone ==
  ASSUME Types, NEW t \in Threads, NEW step \in Steps, Goto(t, step), work' = work,
         step \notin {"comparing", "storing"}
  PROVE  Alone(t) /\ pc'[t] = step
  BY DEF Types, Goto, Alone, HasTarget

LEMMA TargetsKept ==
  ASSUME Inv, NEW t \in Threads, Alone(t)
  PROVE  \A u \in Threads : HasTarget(u)'
  BY DEF Inv, Alone, HasTarget

\* A step that changes neither the account nor the mode, and adds no session,
\* keeps what the sessions are.
LEMMA SessionsKept ==
  ASSUME Inv, Types', \A t \in Threads : HasTarget(t)', UNCHANGED <<account, mode>>,
         \A tok \in Tokens : sessions'[tok] # None =>
            /\ sessions[tok] # None
            /\ sessions'[tok].account = sessions[tok].account
            /\ sessions'[tok].mode = sessions[tok].mode
            /\ sessions'[tok].late = sessions[tok].late,
         \A t \in Threads : pc[t] = "ending" => pc'[t] = "ending" \/ torn',
         torn => torn'
  PROVE  Inv'
  <1>1. SessionsAreCurrent'
    BY DEF Inv, SessionsAreCurrent
  <1>2. ModeChangeEndsSessions'
    <2> SUFFICES ASSUME \A t \in Threads : pc'[t] # "ending", ~torn',
                        NEW tok \in Tokens, sessions'[tok] # None
                 PROVE  sessions'[tok].mode = mode'
      BY Zenon DEF ModeChangeEndsSessions
    <2>1. (\A t \in Threads : pc[t] # "ending") /\ ~torn
      BY Zenon
    <2>2. sessions[tok].mode = mode
      BY <2>1, Zenon DEF Inv, ModeChangeEndsSessions
    <2>3. QED
      BY <2>2
  <1>3. QED
    BY <1>1, <1>2 DEF Inv

\* Without sessions nothing is to be said of them.
LEMMA NoneLeft ==
  ASSUME Types', \A t \in Threads : HasTarget(t)', sessions' = NoSessions
  PROVE  Inv'
  BY DEF Inv, NoSessions, SessionsAreCurrent, ModeChangeEndsSessions

\* A step of one thread that leaves account, mode and sessions alone.
LEMMA QuietStep ==
  ASSUME Inv, NEW t \in Threads, Alone(t), pc[t] # "ending", UNCHANGED <<auth, torn>>
  PROVE  Inv'
  <1>1. sessions' = sessions /\ account' = account /\ mode' = mode /\ torn' = torn
    BY Zenon DEF auth
  <1>2. Types'
    BY <1>1, Zenon DEF Inv, Types, Alone
  <1>3. \A u \in Threads : pc[u] = "ending" => pc'[u] = "ending"
    BY DEF Alone
  <1>4. QED
    BY <1>1, <1>2, <1>3, TargetsKept, SessionsKept

-----------------------------------------------------------------------------
\* The steps.

LEMMA LoginKeeps ==
  ASSUME Inv, NEW t \in Threads,
         \/ \E key \in Keys, given \in Accounts : CallLogin(t, key, given)
         \/ Allow(t) \/ ReadAdmin(t) \/ InsertSession(t) \/ ClearKey(t)
  PROVE  Inv'
  <1> Types /\ "stamped" \in Steps /\ "reading" \in Steps /\ "verifying" \in Steps
      /\ "clearing" \in Steps
    BY DEF Inv, Steps
  <1>1. ASSUME NEW key \in Keys, NEW given \in Accounts, CallLogin(t, key, given) PROVE Inv'
    <2>1. [Blank EXCEPT !.kind = "login", !.key = key, !.given = given] \in Locals
      BY BlankType DEF Locals
    <2>2. QED
      BY <1>1, <2>1, GotoAlone, QuietStep DEF CallLogin
  <1>2. CASE Allow(t)
    <2>1. /\ pc[t] = "stamped" /\ UNCHANGED <<auth, torn>>
          /\ \/ Goto(t, "reading") /\ work' = work
             \/ Answer(t)
      BY <1>2 DEF Allow
    <2>2. QED
      BY <2>1, AnswerAlone, GotoOnlyAlone, QuietStep
  <1>3. CASE ReadAdmin(t)
    <2>1. [work[t] EXCEPT !.seen = account] \in Locals
      BY DEF Types, Locals
    <2>2. QED
      BY <1>3, <2>1, GotoAlone, QuietStep DEF ReadAdmin
  <1>4. CASE InsertSession(t)
    <2>1. CASE work[t].given # work[t].seen
      <3>1. Answer(t) /\ UNCHANGED <<auth, torn>> /\ pc[t] = "verifying"
        BY <1>4, <2>1 DEF InsertSession, auth
      <3>2. QED
        BY <3>1, AnswerAlone, QuietStep
    <2>2. CASE work[t].given = work[t].seen
      <3>1. PICK tok \in Tokens :
              sessions' = [sessions EXCEPT ![tok] =
                  Row(work[t].seen, mode, work[t].stamp, work[t].seen # account)]
        BY <1>4, <2>2 DEF InsertSession
      <3>2. /\ Goto(t, "clearing") /\ work' = work /\ pc[t] = "verifying"
            /\ account' = account /\ mode' = mode /\ torn' = torn
        BY <1>4, <2>2 DEF InsertSession
      <3> DEFINE row == Row(work[t].seen, mode, work[t].stamp, work[t].seen # account)
      <3>3. row \in Session
        <4>1. (work[t].seen # account) \in BOOLEAN
          BY Zenon
        <4>2. /\ work[t].seen \in Accounts /\ work[t].stamp \in 0..Lifetime
              /\ mode \in Modes
          BY SessionsAssumption DEF Types, Locals
        <4>3. QED
          BY <4>1, <4>2, Zenon DEF Row, Session
      <3>4. row.account = work[t].seen /\ row.mode = mode
        BY DEF Row
      <3>5. row.account = account \/ row.late
        BY Zenon DEF Row
      <3>6. sessions' = [sessions EXCEPT ![tok] = row]
        BY <3>1
      <3> HIDE DEF row
      <3>7. /\ sessions' \in [Tokens -> Session \cup {None}] /\ sessions'[tok] = row
            /\ \A other \in Tokens \ {tok} : sessions'[other] = sessions[other]
        BY <3>3, <3>6 DEF Types
      <3>8. Alone(t) /\ pc'[t] = "clearing"
        BY <3>2, GotoOnlyAlone
      <3>9. Types'
        BY <3>2, <3>7, <3>8, Zenon DEF Types, Alone
      <3>10. SessionsAreCurrent'
        BY <3>2, <3>5, <3>7, Zenon DEF Inv, SessionsAreCurrent
      <3>11. \A u \in Threads : pc[u] = "ending" => pc'[u] = "ending"
        BY <3>2, <3>8 DEF Alone
      <3>12. ModeChangeEndsSessions'
        BY <3>2, <3>4, <3>7, <3>11, Zenon DEF Inv, ModeChangeEndsSessions
      <3>13. QED
        BY <3>8, <3>9, <3>10, <3>12, TargetsKept DEF Inv
    <2>3. QED
      BY <2>1, <2>2
  <1>5. CASE ClearKey(t)
    BY <1>5, AnswerAlone, QuietStep DEF ClearKey
  <1>6. QED
    BY <1>1, <1>2, <1>3, <1>4, <1>5

LEMMA ChangeKeeps ==
  ASSUME Inv, NEW t \in Threads,
         \/ \E tok \in Tokens, given, new \in Accounts : CallChange(t, tok, given, new)
         \/ Replace(t)
  PROVE  Inv'
  <1> Types /\ "reading" \in Steps
    BY DEF Inv, Steps
  <1>1. ASSUME NEW tok \in Tokens, NEW given \in Accounts, NEW new \in Accounts,
               CallChange(t, tok, given, new)
        PROVE  Inv'
    <2>1. [Blank EXCEPT !.kind = "change", !.given = given, !.new = new] \in Locals
      BY BlankType DEF Locals
    <2>2. QED
      BY <1>1, <2>1, GotoAlone, QuietStep DEF CallChange
  <1>2. CASE Replace(t)
    <2>1. Answer(t) /\ mode' = mode /\ pc[t] = "verifying"
      BY <1>2 DEF Replace
    <2>2. CASE work[t].given # work[t].seen
      <3>1. UNCHANGED <<auth, torn>>
        BY <1>2, <2>2 DEF Replace, auth
      <3>2. QED
        BY <2>1, <3>1, AnswerAlone, QuietStep
    <2>3. CASE work[t].given = work[t].seen
      <3>1. account' = work[t].new /\ sessions' = NoSessions
        BY <1>2, <2>3 DEF Replace
      <3>2. torn' \in BOOLEAN
        BY <1>2, <2>3, Zenon DEF Replace
      <3>3. account' \in Accounts
        BY <3>1 DEF Types, Locals
      <3>4. sessions' \in [Tokens -> Session \cup {None}]
        BY <3>1 DEF NoSessions
      <3>5. Types'
        BY <2>1, <3>2, <3>3, <3>4, AnswerAlone, Zenon DEF Types, Alone
      <3>6. QED
        BY <2>1, <3>1, <3>5, AnswerAlone, TargetsKept, NoneLeft
    <2>4. QED
      BY <2>2, <2>3
  <1>3. QED
    BY <1>1, <1>2

LEMMA SettingsKeep ==
  ASSUME Inv, NEW t \in Threads,
         \/ \E tok \in Tokens, target \in Modes : CallSettings(t, tok, target)
         \/ ReadMode(t) \/ StoreMode(t) \/ EndSessions(t)
  PROVE  Inv'
  <1> Types /\ "comparing" \in Steps /\ "storing" \in Steps /\ "ending" \in Steps
    BY DEF Inv, Steps
  <1>1. ASSUME NEW tok \in Tokens, NEW target \in Modes, CallSettings(t, tok, target)
        PROVE  Inv'
    <2> DEFINE locals == [Blank EXCEPT !.kind = "settings", !.target = target]
    <2>1. locals \in Locals /\ locals.target = target
      BY BlankType DEF Locals
    <2>2. work' = [work EXCEPT ![t] = locals]
      BY <1>1 DEF CallSettings
    <2> HIDE DEF locals
    <2>3. QED
      BY <1>1, <2>1, <2>2, GotoAlone, QuietStep DEF CallSettings
  <1>2. CASE ReadMode(t)
    <2> DEFINE locals == [work[t] EXCEPT !.before = mode]
    <2>1. locals \in Locals /\ locals.target = work[t].target
      BY DEF Types, Locals
    <2>2. work' = [work EXCEPT ![t] = locals]
      BY <1>2 DEF ReadMode, Types
    <2>3. work[t].target \in Modes
      BY <1>2 DEF ReadMode, Inv, HasTarget
    <2> HIDE DEF locals
    <2>4. QED
      BY <1>2, <2>1, <2>2, <2>3, GotoAlone, QuietStep DEF ReadMode
  <1>3. CASE StoreMode(t)
    <2>1. /\ pc[t] = "storing" /\ mode' = work[t].target
          /\ account' = account /\ sessions' = sessions
      BY <1>3 DEF StoreMode
    <2>2. torn' \in BOOLEAN /\ (~torn' => ~torn /\ mode = work[t].before)
      BY <1>3, Zenon DEF StoreMode
    <2>3. mode' \in Modes
      BY <2>1 DEF Inv, HasTarget
    <2>4. CASE work[t].before # work[t].target
      <3>1. Alone(t) /\ pc'[t] = "ending"
        BY <1>3, <2>4, GotoOnlyAlone DEF StoreMode
      <3>2. Types'
        BY <2>1, <2>2, <2>3, <3>1, Zenon DEF Types, Alone
      <3>3. SessionsAreCurrent' /\ ModeChangeEndsSessions'
        BY <2>1, <3>1, Zenon DEF Inv, SessionsAreCurrent, ModeChangeEndsSessions
      <3>4. QED
        BY <3>1, <3>2, <3>3, TargetsKept DEF Inv
    <2>5. CASE work[t].before = work[t].target
      <3>1. Alone(t)
        BY <1>3, <2>5, AnswerAlone DEF StoreMode
      <3>2. Types'
        BY <2>1, <2>2, <2>3, <3>1, Zenon DEF Types, Alone
      <3>3. SessionsAreCurrent'
        BY <2>1, Zenon DEF Inv, SessionsAreCurrent
      <3>4. \A u \in Threads : pc[u] = "ending" => pc'[u] = "ending"
        BY <2>1, <3>1 DEF Alone
      <3>5. ~torn' => ~torn /\ mode' = mode
        BY <2>1, <2>2, <2>5, Zenon
      <3>6. ModeChangeEndsSessions'
        BY <2>1, <3>4, <3>5, Zenon DEF Inv, ModeChangeEndsSessions
      <3>7. QED
        BY <3>1, <3>2, <3>3, <3>6, TargetsKept DEF Inv
    <2>6. QED
      BY <2>4, <2>5
  <1>4. CASE EndSessions(t)
    <2>1. Answer(t) /\ sessions' = NoSessions /\ account' = account /\ mode' = mode
      BY <1>4 DEF EndSessions
    <2>2. torn' \in BOOLEAN
      BY <1>4, Zenon DEF EndSessions
    <2>3. sessions' \in [Tokens -> Session \cup {None}]
      BY <2>1 DEF NoSessions
    <2>4. Types'
      BY <2>1, <2>2, <2>3, AnswerAlone, Zenon DEF Types, Alone
    <2>5. QED
      BY <2>1, <2>4, AnswerAlone, TargetsKept, NoneLeft
  <1>5. QED
    BY <1>1, <1>2, <1>3, <1>4

\* A session ends by itself.
LEMMA EndingKeeps ==
  ASSUME Inv, NEW tok \in Tokens, Logout(tok) \/ RefuseExpired(tok)
  PROVE  Inv'
  <1>1. /\ sessions' = [sessions EXCEPT ![tok] = None]
        /\ account' = account /\ mode' = mode /\ pc' = pc /\ work' = work
    BY DEF Logout, RefuseExpired
  <1>2. torn' = torn
    BY Zenon DEF Logout, RefuseExpired
  <1>3. sessions' \in [Tokens -> Session \cup {None}]
    BY <1>1 DEF Inv, Types
  <1>4. Types'
    BY <1>1, <1>2, <1>3, Zenon DEF Inv, Types
  <1>5. \A u \in Threads : HasTarget(u)'
    BY <1>1 DEF Inv, HasTarget
  <1>6. \A other \in Tokens : sessions'[other] # None => sessions'[other] = sessions[other]
    BY <1>1 DEF Inv, Types
  <1>7. QED
    BY <1>1, <1>2, <1>4, <1>5, <1>6, SessionsKept, Zenon

LEMMA TickKeeps ==
  ASSUME Inv, Tick
  PROVE  Inv'
  <1>1. account' = account /\ mode' = mode /\ pc' = pc
    BY DEF Tick
  <1>2. torn' = torn
    BY Zenon DEF Tick
  <1>3. work' \in [Threads -> Locals] /\ \A u \in Threads : work'[u].target = work[u].target
    <2>1. work' = [t \in Threads |-> IF work[t].kind = "login"
                                     THEN [work[t] EXCEPT !.stamp = @ + 1] ELSE work[t]]
      BY DEF Tick
    <2>2. ASSUME NEW t \in Threads
          PROVE  work'[t] \in Locals /\ work'[t].target = work[t].target
      <3>1. CASE work[t].kind = "login"
        <4>1. work[t] \in Locals /\ work[t].stamp < MaxDelay
          BY <3>1 DEF Tick, Inv, Types
        <4>2. work[t].stamp + 1 \in 0..MaxDelay
          BY <4>1, SessionsAssumption DEF Locals
        <4>3. work'[t] = [work[t] EXCEPT !.stamp = work[t].stamp + 1]
          BY <2>1, <3>1
        <4>4. QED
          BY <4>1, <4>2, <4>3 DEF Locals
      <3>2. CASE work[t].kind # "login"
        BY <2>1, <3>2 DEF Inv, Types
      <3>3. QED
        BY <3>1, <3>2
    <2>3. QED
      BY <2>1, <2>2
  <1>4. /\ sessions' \in [Tokens -> Session \cup {None}]
        /\ \A tok \in Tokens : sessions'[tok] # None =>
              /\ sessions[tok] # None
              /\ sessions'[tok].account = sessions[tok].account
              /\ sessions'[tok].mode = sessions[tok].mode
              /\ sessions'[tok].late = sessions[tok].late
    <2>1. sessions' = [tok \in Tokens |->
                          IF Authenticated(tok)
                          THEN [sessions[tok] EXCEPT !.age = @ + 1] ELSE sessions[tok]]
      BY DEF Tick
    <2>2. ASSUME NEW tok \in Tokens, Authenticated(tok)
          PROVE  /\ sessions'[tok] \in Session
                 /\ sessions[tok] # None
                 /\ sessions'[tok].account = sessions[tok].account
                 /\ sessions'[tok].mode = sessions[tok].mode
                 /\ sessions'[tok].late = sessions[tok].late
      <3>1. sessions[tok] # None /\ sessions[tok] \in Session /\ sessions[tok].age < Lifetime
        BY <2>2 DEF Authenticated, Inv, Types
      <3>2. sessions[tok].age + 1 \in 0..Lifetime
        BY <3>1, SessionsAssumption DEF Session
      <3>3. sessions'[tok] = [sessions[tok] EXCEPT !.age = sessions[tok].age + 1]
        BY <2>1, <2>2
      <3>4. QED
        BY <3>1, <3>2, <3>3 DEF Session
    <2>3. ASSUME NEW tok \in Tokens, ~Authenticated(tok)
          PROVE  sessions'[tok] = sessions[tok] /\ sessions[tok] \in Session \cup {None}
      BY <2>1, <2>3 DEF Inv, Types
    <2>4. QED
      BY <2>1, <2>2, <2>3
  <1>5. Types'
    BY <1>1, <1>2, <1>3, <1>4, Zenon DEF Inv, Types
  <1>6. \A u \in Threads : HasTarget(u)'
    BY <1>1, <1>3 DEF Inv, HasTarget
  <1>7. QED
    BY <1>1, <1>2, <1>4, <1>5, <1>6, SessionsKept, Zenon

LEMMA RestartKeeps ==
  ASSUME Inv, Restart
  PROVE  Inv'
  <1>1. account' = account /\ mode' = mode /\ pc' = [t \in Threads |-> "idle"]
    BY DEF Restart
  <1>2. /\ torn' \in BOOLEAN /\ (torn => torn')
        /\ \A t \in Threads : pc[t] = "ending" => torn'
    BY Zenon DEF Restart
  <1>3. /\ sessions' \in [Tokens -> Session \cup {None}]
        /\ \A tok \in Tokens : sessions'[tok] # None => sessions'[tok] = sessions[tok]
    BY DEF Restart, Inv, Types
  <1>4. pc' \in [Threads -> Steps] /\ work' \in [Threads -> Locals]
    BY BlankType DEF Restart, Steps
  <1>5. Types'
    BY <1>1, <1>2, <1>3, <1>4, Zenon DEF Inv, Types
  <1>6. \A u \in Threads : HasTarget(u)'
    BY <1>1 DEF HasTarget
  <1>7. QED
    BY <1>1, <1>2, <1>3, <1>5, <1>6, SessionsKept, Zenon

LEMMA StepKeepsInv == Inv /\ [Next]_vars => Inv'
  <1> SUFFICES ASSUME Inv, [Next]_vars PROVE Inv'
    OBVIOUS
  <1>1. CASE UNCHANGED vars
    BY <1>1, Zenon DEF vars, auth, Inv, Types, HasTarget, SessionsAreCurrent,
                       ModeChangeEndsSessions
  <1>2. QED
    BY <1>1, LoginKeeps, ChangeKeeps, SettingsKeep, EndingKeeps, TickKeeps, RestartKeeps
       DEF Next

THEOREM Invariance == Spec => []Inv
  BY Initially, StepKeepsInv, PTL DEF Spec

-----------------------------------------------------------------------------
\* Its consequences.

\* However logins and changes of the account overlap, the only session of a
\* previous account is one whose login was overtaken by the change.
THEOREM OnlyLateSessions == Spec => []SessionsAreCurrent
  <1>1. Inv => SessionsAreCurrent
    BY DEF Inv
  <1>2. QED
    BY <1>1, Invariance, PTL

\* A change of the access mode ends the sessions of the previous one, but for
\* overlapping changes and a crash between storing and ending.
THEOREM NoSessionOfAnotherMode == Spec => []ModeChangeEndsSessions
  <1>1. Inv => ModeChangeEndsSessions
    BY DEF Inv
  <1>2. QED
    BY <1>1, Invariance, PTL

-----------------------------------------------------------------------------
\* Ages of attempts, and what DropOld makes of them.

Ages == Seq(0..Memory)

LEMMA MemoryType == Memory \in Nat /\ Memory >= Window + MaxDelay + MaxDelay
  BY SessionsAssumption, LimiterAssumption DEF Memory

\* What DropOld drops: a prefix of ages that have reached the bound.
LEMMA DropOldPrefix ==
  ASSUME NEW S \in SUBSET Nat, NEW ages \in Seq(S), NEW bound \in Nat
  PROVE  \E m \in 0..Len(ages) :
            /\ DropOld(ages, bound) \in Seq(S)
            /\ Len(DropOld(ages, bound)) = Len(ages) - m
            /\ \A j \in 1..(Len(ages) - m) : DropOld(ages, bound)[j] = ages[m + j]
            /\ \A j \in 1..m : ages[j] >= bound
            /\ m < Len(ages) => ages[m + 1] < bound
  <1> DEFINE old == {i \in DOMAIN ages : \A j \in 1..i : ages[j] >= bound}
  <1>1. /\ DOMAIN ages = 1..Len(ages) /\ Len(ages) \in Nat
        /\ \A i \in 1..Len(ages) : ages[i] \in S /\ ages[i] \in Nat
    BY LenProperties, ElementOfSeq
  <1>2. IsFiniteSet(1..Len(ages)) /\ Cardinality(1..Len(ages)) = Len(ages)
    BY <1>1, SMTT(30), FS_Interval
  <1>3. IsFiniteSet(old) /\ Cardinality(old) <= Len(ages) /\ Cardinality(old) \in Nat
    BY <1>1, <1>2, FS_Subset, FS_CardinalityType
  <1>4. PICK m \in 0..Len(ages) : m = Cardinality(old)
    <2> HIDE DEF old
    <2>1. Cardinality(old) \in 0..Len(ages)
      BY <1>1, <1>3
    <2>2. QED
      BY <2>1, Zenon
  <1>5. DropOld(ages, bound) = SubSeq(ages, m + 1, Len(ages))
    BY <1>4 DEF DropOld
  <1>6. ASSUME NEW i \in 1..m PROVE ages[i] >= bound
    <2> SUFFICES ASSUME i \notin old PROVE FALSE
      BY <1>1
    <2>1. old \in SUBSET (1..(i - 1))
      <3> SUFFICES ASSUME NEW k \in old, k >= i PROVE FALSE
        BY <1>1
      <3>1. \A j \in 1..i : ages[j] >= bound
        BY <1>1
      <3>2. QED
        BY <3>1, <1>1
    <2> HIDE DEF old
    <2>2. i - 1 \in Int /\ i - 1 >= 0
      BY <1>1
    <2>3. IsFiniteSet(1..(i - 1)) /\ Cardinality(1..(i - 1)) = i - 1
      BY <2>2, FS_Interval
    <2>4. Cardinality(old) <= i - 1
      BY <2>1, <2>3, FS_Subset
    <2>5. QED
      BY <2>4, <1>4, <1>1
  <1>7. ASSUME m < Len(ages) PROVE ages[m + 1] < bound
    <2> SUFFICES ASSUME ages[m + 1] >= bound PROVE FALSE
      BY <1>1, <1>7
    <2>1. 1..(m + 1) \in SUBSET old
      <3>1. \A j \in 1..(m + 1) : ages[j] >= bound /\ j \in DOMAIN ages
        BY <1>1, <1>6, <1>7
      <3>2. QED
        BY <3>1
    <2> HIDE DEF old
    <2>2. Cardinality(1..(m + 1)) = m + 1
      BY <1>1, FS_Interval
    <2>3. Cardinality(1..(m + 1)) <= Cardinality(old)
      BY <2>1, <1>3, FS_Subset
    <2>4. QED
      BY <2>2, <2>3, <1>1, <1>4
  <1> HIDE DEF old
  <1> DEFINE kept == SubSeq(ages, m + 1, Len(ages))
  <1>0. m \in Nat /\ Len(ages) \in Nat /\ m <= Len(ages)
    BY <1>1
  <1>8. m + 1 \in Int /\ Len(ages) \in Int /\ \A i \in (m + 1)..Len(ages) : ages[i] \in S
    BY <1>0, <1>1
  <1>9. /\ kept \in Seq(S)
        /\ Len(kept) = IF m + 1 <= Len(ages) THEN Len(ages) - (m + 1) + 1 ELSE 0
        /\ \A i \in 1..(Len(ages) - (m + 1) + 1) : kept[i] = ages[(m + 1) + i - 1]
    BY <1>8, SubSeqProperties
  <1>10. DropOld(ages, bound) = kept
    BY <1>5
  <1> HIDE DEF kept
  <1>11. Len(kept) = Len(ages) - m
    <2>1. CASE m + 1 <= Len(ages)
      <3>1. Len(kept) = Len(ages) - (m + 1) + 1
        BY <2>1, <1>9, Zenon
      <3>2. QED
        BY <3>1, <1>0
    <2>2. CASE ~(m + 1 <= Len(ages))
      <3>1. Len(kept) = 0
        BY <2>2, <1>9, Zenon
      <3>2. QED
        BY <3>1, <2>2, <1>0
    <2>3. QED
      BY <2>1, <2>2
  <1>12. ASSUME NEW j \in 1..(Len(ages) - m) PROVE kept[j] = ages[m + j]
    <2>1. (m + 1) + j - 1 = m + j /\ j \in 1..(Len(ages) - (m + 1) + 1)
      BY <1>1
    <2>2. QED
      BY <2>1, <1>9
  <1>13. QED
    BY <1>6, <1>7, <1>9, <1>10, <1>11, <1>12

\* A limiter's entries: one per key.
Entry == [key: Keys, stamps: Ages]

OnePerKey(limiter) ==
    /\ limiter \in Seq(Entry)
    /\ \A i, j \in 1..Len(limiter) : limiter[i].key = limiter[j].key => i = j

LEMMA RemoveAtProperties ==
  ASSUME NEW S, NEW seq \in Seq(S), NEW i \in 1..Len(seq)
  PROVE  /\ RemoveAt(seq, i) \in Seq(S)
         /\ Len(RemoveAt(seq, i)) = Len(seq) - 1
         /\ \A j \in 1..(Len(seq) - 1) :
                RemoveAt(seq, i)[j] = IF j < i THEN seq[j] ELSE seq[j + 1]
  <1> DEFINE before == SubSeq(seq, 1, i - 1)
             after == SubSeq(seq, i + 1, Len(seq))
  <1>1. Len(seq) \in Nat /\ i \in Nat /\ 1 <= i /\ i <= Len(seq)
    BY LenProperties
  <1>2. \A j \in 1..Len(seq) : seq[j] \in S
    BY ElementOfSeq
  <1>3. /\ i - 1 \in Int /\ 1 \in Int /\ i + 1 \in Int /\ Len(seq) \in Int
        /\ \A j \in 1..(i - 1) : seq[j] \in S
        /\ \A j \in (i + 1)..Len(seq) : seq[j] \in S
    BY <1>1, <1>2
  <1>4. /\ before \in Seq(S)
        /\ Len(before) = IF 1 <= i - 1 THEN i - 1 - 1 + 1 ELSE 0
        /\ \A j \in 1..(i - 1 - 1 + 1) : before[j] = seq[1 + j - 1]
    BY <1>3, SubSeqProperties
  <1>5. /\ after \in Seq(S)
        /\ Len(after) = IF i + 1 <= Len(seq) THEN Len(seq) - (i + 1) + 1 ELSE 0
        /\ \A j \in 1..(Len(seq) - (i + 1) + 1) : after[j] = seq[(i + 1) + j - 1]
    BY <1>3, SubSeqProperties
  <1>6. RemoveAt(seq, i) = before \o after
    BY DEF RemoveAt
  <1> HIDE DEF before, after
  <1>7. Len(before) = i - 1
    <2>1. CASE 1 <= i - 1
      <3>1. Len(before) = i - 1 - 1 + 1
        BY <2>1, <1>4, Zenon
      <3>2. QED
        BY <3>1, <1>1
    <2>2. CASE ~(1 <= i - 1)
      <3>1. Len(before) = 0
        BY <2>2, <1>4, Zenon
      <3>2. QED
        BY <3>1, <2>2, <1>1
    <2>3. QED
      BY <2>1, <2>2
  <1>8. Len(after) = Len(seq) - i
    <2>1. CASE i + 1 <= Len(seq)
      <3>1. Len(after) = Len(seq) - (i + 1) + 1
        BY <2>1, <1>5, Zenon
      <3>2. QED
        BY <3>1, <1>1
    <2>2. CASE ~(i + 1 <= Len(seq))
      <3>1. Len(after) = 0
        BY <2>2, <1>5, Zenon
      <3>2. QED
        BY <3>1, <2>2, <1>1
    <2>3. QED
      BY <2>1, <2>2
  <1>9. /\ RemoveAt(seq, i) \in Seq(S)
        /\ Len(RemoveAt(seq, i)) = Len(before) + Len(after)
        /\ \A j \in 1..(Len(before) + Len(after)) :
             RemoveAt(seq, i)[j] = IF j <= Len(before) THEN before[j] ELSE after[j - Len(before)]
    <2>1. before \in Seq(S) /\ after \in Seq(S)
      BY <1>4, <1>5, Zenon
    <2> DEFINE whole == before \o after
    <2>2. /\ whole \in Seq(S)
          /\ Len(whole) = Len(before) + Len(after)
          /\ \A j \in 1..(Len(before) + Len(after)) :
               whole[j] = IF j <= Len(before) THEN before[j] ELSE after[j - Len(before)]
      BY <2>1, ConcatProperties, Zenon
    <2>3. RemoveAt(seq, i) = whole
      BY <1>6
    <2> HIDE DEF whole
    <2>4. QED
      BY <2>2, <2>3, Zenon
  <1>10. ASSUME NEW j \in 1..(Len(seq) - 1)
         PROVE  RemoveAt(seq, i)[j] = IF j < i THEN seq[j] ELSE seq[j + 1]
    <2>0. j \in 1..(Len(before) + Len(after))
      BY <1>1, <1>7, <1>8
    <2>1. CASE j < i
      <3>1. j <= Len(before) /\ j \in 1..(i - 1 - 1 + 1) /\ 1 + j - 1 = j
        BY <2>1, <1>1, <1>7
      <3>2. RemoveAt(seq, i)[j] = before[j]
        BY <2>0, <3>1, <1>9, Zenon
      <3>3. before[j] = seq[1 + j - 1]
        BY <3>1, <1>4, Zenon
      <3>4. QED
        BY <2>1, <3>1, <3>2, <3>3, Zenon
    <2>2. CASE ~(j < i)
      <3>1. /\ ~(j <= Len(before)) /\ j - Len(before) \in 1..(Len(seq) - (i + 1) + 1)
            /\ (i + 1) + (j - Len(before)) - 1 = j + 1
        BY <2>2, <1>1, <1>7
      <3>2. RemoveAt(seq, i)[j] = after[j - Len(before)]
        BY <2>0, <3>1, <1>9, Zenon
      <3>3. after[j - Len(before)] = seq[(i + 1) + (j - Len(before)) - 1]
        BY <3>1, <1>5, Zenon
      <3>4. QED
        BY <2>2, <3>1, <3>2, <3>3, Zenon
    <2>3. QED
      BY <2>1, <2>2
  <1>11. Len(before) + Len(after) = Len(seq) - 1
    BY <1>1, <1>7, <1>8
  <1>12. QED
    BY <1>9, <1>10, <1>11, Zenon

LEMMA EntryOf ==
  ASSUME NEW limiter, OnePerKey(limiter), NEW i \in 1..Len(limiter)
  PROVE  /\ limiter[i] \in Entry
         /\ limiter[i].key \in KeysOf(limiter)
         /\ Place(limiter, limiter[i].key) = i
         /\ StampsOf(limiter, limiter[i].key) = limiter[i].stamps
  <1>1. DOMAIN limiter = 1..Len(limiter) /\ limiter[i] \in Entry
    BY LenProperties, ElementOfSeq DEF OnePerKey
  <1>2. limiter[i].key \in KeysOf(limiter)
    BY <1>1 DEF KeysOf
  <1>3. Place(limiter, limiter[i].key) = i
    BY <1>1 DEF Place, OnePerKey
  <1>4. QED
    BY <1>1, <1>2, <1>3 DEF StampsOf

LEMMA KeyHasEntry ==
  ASSUME NEW limiter, OnePerKey(limiter), NEW key \in KeysOf(limiter)
  PROVE  /\ Place(limiter, key) \in 1..Len(limiter)
         /\ limiter[Place(limiter, key)].key = key
  BY LenProperties DEF KeysOf, Place, OnePerKey

LEMMA StampsType ==
  ASSUME NEW limiter, OnePerKey(limiter), NEW key
  PROVE  StampsOf(limiter, key) \in Ages
  <1>1. CASE key \in KeysOf(limiter)
    BY <1>1, KeyHasEntry, EntryOf DEF Entry
  <1>2. CASE key \notin KeysOf(limiter)
    BY <1>2, EmptySeq DEF StampsOf, Ages
  <1>3. QED
    BY <1>1, <1>2

\* A limiter whose entries are all in another one has the same stamps.
LEMMA FewerEntries ==
  ASSUME NEW limiter, OnePerKey(limiter), NEW rest, OnePerKey(rest),
         \A i \in 1..Len(rest) : \E j \in 1..Len(limiter) : rest[i] = limiter[j]
  PROVE  \A key \in KeysOf(rest) :
            key \in KeysOf(limiter) /\ StampsOf(rest, key) = StampsOf(limiter, key)
  <1> SUFFICES ASSUME NEW key \in KeysOf(rest)
               PROVE  key \in KeysOf(limiter) /\ StampsOf(rest, key) = StampsOf(limiter, key)
    OBVIOUS
  <1>1. PICK i \in 1..Len(rest) : rest[i].key = key
    BY KeyHasEntry
  <1>2. PICK j \in 1..Len(limiter) : rest[i] = limiter[j]
    BY <1>1
  <1>3. StampsOf(rest, key) = rest[i].stamps
    BY <1>1, EntryOf
  <1>4. key \in KeysOf(limiter) /\ StampsOf(limiter, key) = limiter[j].stamps
    BY <1>1, <1>2, EntryOf
  <1>5. QED
    BY <1>2, <1>3, <1>4

LEMMA OthersProperties ==
  ASSUME NEW limiter, OnePerKey(limiter), NEW key
  PROVE  /\ OnePerKey(Others(limiter, key))
         /\ Len(Others(limiter, key)) <= Len(limiter)
         /\ KeysOf(Others(limiter, key)) = KeysOf(limiter) \ {key}
         /\ \A i \in 1..Len(Others(limiter, key)) :
                \E j \in 1..Len(limiter) : Others(limiter, key)[i] = limiter[j]
  <1>0. limiter \in Seq(Entry) /\ Len(limiter) \in Nat /\ DOMAIN limiter = 1..Len(limiter)
    BY LenProperties DEF OnePerKey
  <1>1. CASE key \notin KeysOf(limiter)
    <2>1. Others(limiter, key) = limiter
      BY <1>1 DEF Others
    <2>2. QED
      BY <2>1, <1>0, <1>1
  <1>2. CASE key \in KeysOf(limiter)
    <2> DEFINE place == Place(limiter, key)
               rest == Others(limiter, key)
    <2>1. place \in 1..Len(limiter) /\ limiter[place].key = key
      BY <1>2, KeyHasEntry
    <2>2. rest = RemoveAt(limiter, place)
      BY <1>2 DEF Others
    <2> HIDE DEF place, rest
    <2>3. /\ rest \in Seq(Entry)
          /\ Len(rest) = Len(limiter) - 1
          /\ \A j \in 1..(Len(limiter) - 1) :
                rest[j] = IF j < place THEN limiter[j] ELSE limiter[j + 1]
      BY <2>1, <2>2, <1>0, RemoveAtProperties, Zenon
    <2>4. DOMAIN rest = 1..Len(rest)
      BY <2>3, LenProperties
    <2> DEFINE from(j) == IF j < place THEN j ELSE j + 1
    <2>5. \A j \in 1..Len(rest) : /\ rest[j] = limiter[from(j)]
                                  /\ from(j) \in 1..Len(limiter) /\ from(j) # place
      BY <2>1, <2>3, <1>0
    <2>6. \A i, j \in 1..Len(rest) : from(i) = from(j) => i = j
      BY <2>1, <2>3, <1>0
    <2>7. ASSUME NEW i \in 1..Len(limiter), i # place
          PROVE  \E j \in 1..Len(rest) : from(j) = i
      <3>1. CASE i < place
        BY <3>1, <2>1, <2>3, <1>0
      <3>2. CASE ~(i < place)
        <4>1. i - 1 \in 1..Len(rest) /\ from(i - 1) = i
          BY <3>2, <2>1, <2>3, <2>7, <1>0
        <4>2. QED
          BY <4>1
      <3>3. QED
        BY <3>1, <3>2
    <2> HIDE DEF from
    <2>8. OnePerKey(rest)
      BY <2>3, <2>5, <2>6 DEF OnePerKey
    <2>9. KeysOf(rest) = KeysOf(limiter) \ {key}
      <3>1. ASSUME NEW k \in KeysOf(rest) PROVE k \in KeysOf(limiter) /\ k # key
        <4>1. PICK j \in 1..Len(rest) : rest[j].key = k
          BY <2>4 DEF KeysOf
        <4>2. k = limiter[from(j)].key /\ from(j) \in 1..Len(limiter) /\ from(j) # place
          BY <4>1, <2>5
        <4>3. QED
          BY <4>2, <2>1, <1>0 DEF KeysOf, OnePerKey
      <3>2. ASSUME NEW k \in KeysOf(limiter), k # key PROVE k \in KeysOf(rest)
        <4>1. PICK i \in 1..Len(limiter) : limiter[i].key = k
          BY <1>0 DEF KeysOf
        <4>2. PICK j \in 1..Len(rest) : from(j) = i
          BY <4>1, <3>2, <2>1, <2>7
        <4>3. QED
          BY <4>1, <4>2, <2>4, <2>5 DEF KeysOf
      <3>3. QED
        BY <3>1, <3>2
    <2>10. Len(rest) <= Len(limiter)
      BY <2>3, <1>0
    <2>11. QED
      BY <2>5, <2>8, <2>9, <2>10 DEF rest
  <1>3. QED
    BY <1>1, <1>2


\* allow() keeps one entry per key: what it leaves of other keys was there before.
LEMMA RoomProperties ==
  ASSUME NEW limiter, OnePerKey(limiter), Len(limiter) <= MaxKeys, NEW key
  PROVE  /\ OnePerKey(Room(limiter, key))
         /\ Len(Room(limiter, key)) < MaxKeys
         /\ \A i \in 1..Len(Room(limiter, key)) :
                \E j \in 1..Len(limiter) :
                    Room(limiter, key)[i] = limiter[j] /\ limiter[j].key # key
  <1> DEFINE rest == Others(limiter, key)
             room == Room(limiter, key)
  <1>1. MaxKeys \in Nat \ {0}
    BY LimiterAssumption
  <1>2. /\ OnePerKey(rest) /\ Len(rest) <= Len(limiter)
        /\ KeysOf(rest) = KeysOf(limiter) \ {key}
        /\ \A i \in 1..Len(rest) : \E j \in 1..Len(limiter) : rest[i] = limiter[j]
    BY OthersProperties
  <1>3. room = IF Len(rest) < MaxKeys THEN rest ELSE Tail(rest)
    BY DEF Room
  <1> HIDE DEF rest, room
  <1>4. /\ rest \in Seq(Entry) /\ Len(rest) \in Nat /\ Len(limiter) \in Nat
        /\ \A i, j \in 1..Len(rest) : rest[i].key = rest[j].key => i = j
    BY <1>2, LenProperties DEF OnePerKey
  <1>5. \A i \in 1..Len(rest) :
            \E j \in 1..Len(limiter) : rest[i] = limiter[j] /\ limiter[j].key # key
    BY <1>2, EntryOf
  <1>6. CASE Len(rest) < MaxKeys
    BY <1>2, <1>3, <1>5, <1>6 DEF room
  <1>7. CASE ~(Len(rest) < MaxKeys)
    <2>1. rest # <<>> /\ Len(rest) = MaxKeys
      BY <1>1, <1>2, <1>4, <1>7, EmptySeq
    <2>2. /\ Tail(rest) \in Seq(Entry)
          /\ Len(Tail(rest)) = Len(rest) - 1
          /\ \A i \in 1..Len(Tail(rest)) : Tail(rest)[i] = rest[i + 1]
      BY <2>1, <1>4, HeadTailProperties, Zenon
    <2>3. room = Tail(rest)
      BY <1>3, <1>7, Zenon
    <2>4. /\ room \in Seq(Entry)
          /\ Len(room) = Len(rest) - 1
          /\ \A i \in 1..Len(room) : room[i] = rest[i + 1]
      BY <2>2, <2>3, Zenon
    <2>5. \A i \in 1..Len(room) : i + 1 \in 1..Len(rest)
      BY <2>4, <1>4
    <2>6. OnePerKey(room)
      <3>1. ASSUME NEW i \in 1..Len(room), NEW j \in 1..Len(room), room[i].key = room[j].key
            PROVE  i = j
        <4>1. i + 1 = j + 1
          BY <3>1, <2>4, <2>5, <1>4, Zenon
        <4>2. QED
          BY <4>1
      <3>2. QED
        BY <3>1, <2>4 DEF OnePerKey
    <2>7. \A i \in 1..Len(room) :
            \E j \in 1..Len(limiter) : room[i] = limiter[j] /\ limiter[j].key # key
      <3> SUFFICES ASSUME NEW i \in 1..Len(room)
                   PROVE  \E j \in 1..Len(limiter) :
                            room[i] = limiter[j] /\ limiter[j].key # key
        OBVIOUS
      <3>1. room[i] = rest[i + 1] /\ i + 1 \in 1..Len(rest)
        BY <2>4, <2>5, Zenon
      <3>2. QED
        BY <3>1, <1>5, Zenon
    <2>8. Len(room) < MaxKeys
      <3>1. Len(room) = MaxKeys - 1
        BY <2>1, <2>4, Zenon
      <3>2. QED
        BY <3>1, <1>1
    <2>9. QED
      BY <2>6, <2>7, <2>8 DEF room
  <1>8. QED
    BY <1>6, <1>7

LEMMA AppendEntry ==
  ASSUME NEW room, OnePerKey(room), NEW entry \in Entry,
         \A i \in 1..Len(room) : room[i].key # entry.key
  PROVE  /\ OnePerKey(Append(room, entry))
         /\ Len(Append(room, entry)) = Len(room) + 1
         /\ StampsOf(Append(room, entry), entry.key) = entry.stamps
         /\ \A key : key # entry.key =>
              /\ key \in KeysOf(Append(room, entry)) <=> key \in KeysOf(room)
              /\ StampsOf(Append(room, entry), key) = StampsOf(room, key)
  <1> DEFINE more == Append(room, entry)
  <1>1. room \in Seq(Entry) /\ Len(room) \in Nat /\ DOMAIN room = 1..Len(room)
    BY LenProperties DEF OnePerKey
  <1>2. /\ more \in Seq(Entry)
        /\ Len(more) = Len(room) + 1
        /\ \A i \in 1..Len(room) : more[i] = room[i]
        /\ more[Len(room) + 1] = entry
    BY <1>1, AppendProperties
  <1> HIDE DEF more
  <1>3. DOMAIN more = 1..Len(more)
    BY <1>2, LenProperties
  <1>4. \A i \in 1..Len(more) : i \in 1..Len(room) \/ i = Len(room) + 1
    BY <1>1, <1>2
  <1>5. OnePerKey(more)
    <2>1. ASSUME NEW i \in 1..Len(more), NEW j \in 1..Len(more), more[i].key = more[j].key
          PROVE  i = j
      <3>1. CASE i \in 1..Len(room) /\ j \in 1..Len(room)
        BY <3>1, <2>1, <1>2, Zenon DEF OnePerKey
      <3>2. CASE i = Len(room) + 1 \/ j = Len(room) + 1
        BY <3>2, <2>1, <1>2, <1>4, Zenon
      <3>3. QED
        BY <3>1, <3>2, <1>4
    <2>2. QED
      BY <2>1, <1>2 DEF OnePerKey
  <1>6. Len(room) + 1 \in 1..Len(more) /\ \A i \in 1..Len(room) : i \in 1..Len(more)
    BY <1>1, <1>2
  <1>7. StampsOf(more, entry.key) = entry.stamps
    BY <1>2, <1>5, <1>6, EntryOf
  <1>8. ASSUME NEW key, key # entry.key
        PROVE  /\ key \in KeysOf(more) <=> key \in KeysOf(room)
               /\ StampsOf(more, key) = StampsOf(room, key)
    <2>1. CASE key \in KeysOf(room)
      <3>1. PICK i \in 1..Len(room) : room[i].key = key
        BY <2>1, <1>1 DEF KeysOf
      <3>2. more[i] = room[i] /\ i \in 1..Len(more)
        BY <1>2, <1>6
      <3>3. StampsOf(room, key) = room[i].stamps
        BY <3>1, EntryOf
      <3>4. StampsOf(more, key) = more[i].stamps /\ key \in KeysOf(more)
        BY <3>1, <3>2, <1>5, EntryOf
      <3>5. QED
        BY <2>1, <3>2, <3>3, <3>4
    <2>2. CASE key \notin KeysOf(room)
      <3>1. key \notin KeysOf(more)
        BY <2>2, <1>1, <1>2, <1>3, <1>4, <1>8 DEF KeysOf
      <3>2. QED
        BY <2>2, <3>1 DEF StampsOf
    <2>3. QED
      BY <2>1, <2>2
  <1>9. QED
    BY <1>2, <1>5, <1>7, <1>8 DEF more


\* The invariant of a client: its stamps are the last of the attempts admitted, and
\* those before have left the window.  An attempt is never much older than those
\* admitted before it.
Tracks(stamps, admitted) ==
    /\ Len(stamps) <= Len(admitted)
    /\ \A j \in 1..Len(stamps) : stamps[j] = admitted[Len(admitted) - Len(stamps) + j]
    /\ Len(stamps) <= Limit
    /\ \A j \in 1..(Len(admitted) - Len(stamps)) : admitted[j] >= Window
    /\ \A i, j \in 1..Len(admitted) : i < j => admitted[j] <= admitted[i] + MaxDelay

LEMMA NothingTracked == Tracks(<<>>, <<>>)
  BY LimiterAssumption, EmptySeq DEF Tracks

LEMMA OlderProperties ==
  ASSUME NEW ages \in Ages
  PROVE  /\ Older(ages) \in Ages /\ Len(Older(ages)) = Len(ages)
         /\ \A j \in 1..Len(ages) :
                Older(ages)[j] = IF ages[j] < Memory THEN ages[j] + 1 ELSE ages[j]
  <1>1. Len(ages) \in Nat /\ DOMAIN ages = 1..Len(ages)
        /\ \A j \in 1..Len(ages) : ages[j] \in 0..Memory
    BY LenProperties, ElementOfSeq DEF Ages
  <1> DEFINE age(j) == IF ages[j] < Memory THEN ages[j] + 1 ELSE ages[j]
  <1>2. Older(ages) = [j \in 1..Len(ages) |-> age(j)]
    BY <1>1 DEF Older
  <1>3. \A j \in 1..Len(ages) : age(j) \in 0..Memory
    BY <1>1, MemoryType
  <1> HIDE DEF age
  <1>4. [j \in 1..Len(ages) |-> age(j)] \in Ages
    BY <1>1, <1>3, IsASeq DEF Ages
  <1>5. Len([j \in 1..Len(ages) |-> age(j)]) = Len(ages)
    BY <1>1
  <1>6. \A j \in 1..Len(ages) : Older(ages)[j] = age(j)
    BY <1>2
  <1>7. QED
    BY <1>2, <1>4, <1>5, <1>6 DEF age

\* Time passes.
LEMMA OlderTracks ==
  ASSUME NEW stamps \in Ages, NEW admitted \in Ages, Tracks(stamps, admitted)
  PROVE  Tracks(Older(stamps), Older(admitted))
  <1>1. /\ Len(stamps) \in Nat /\ Len(admitted) \in Nat
        /\ \A j \in 1..Len(admitted) : admitted[j] \in 0..Memory
    BY LenProperties, ElementOfSeq DEF Ages
  <1> DEFINE s == Older(stamps)
             r == Older(admitted)
  <1>2. /\ Len(s) = Len(stamps) /\ Len(r) = Len(admitted)
        /\ \A j \in 1..Len(stamps) : s[j] = IF stamps[j] < Memory THEN stamps[j] + 1 ELSE stamps[j]
        /\ \A j \in 1..Len(admitted) :
              r[j] = IF admitted[j] < Memory THEN admitted[j] + 1 ELSE admitted[j]
    BY OlderProperties
  <1> HIDE DEF s, r
  <1>3. ASSUME NEW j \in 1..Len(stamps) PROVE s[j] = r[Len(r) - Len(s) + j]
    <2>1. Len(admitted) - Len(stamps) + j \in 1..Len(admitted)
      BY <1>1 DEF Tracks
    <2>2. stamps[j] = admitted[Len(admitted) - Len(stamps) + j]
      BY DEF Tracks
    <2>3. QED
      BY <1>2, <2>1, <2>2, Zenon
  <1>4. ASSUME NEW j \in 1..(Len(admitted) - Len(stamps)) PROVE r[j] >= Window
    <2>1. j \in 1..Len(admitted) /\ admitted[j] >= Window
      BY <1>1 DEF Tracks
    <2>2. r[j] = IF admitted[j] < Memory THEN admitted[j] + 1 ELSE admitted[j]
      BY <1>2, <2>1, Zenon
    <2>3. admitted[j] \in 0..Memory
      BY <1>1, <2>1
    <2>4. QED
      BY <2>1, <2>2, <2>3, MemoryType, LimiterAssumption
  <1>5. ASSUME NEW i \in 1..Len(admitted), NEW j \in 1..Len(admitted), i < j
        PROVE  r[j] <= r[i] + MaxDelay
    <2>1. admitted[j] <= admitted[i] + MaxDelay
      BY <1>5 DEF Tracks
    <2>2. /\ r[i] = IF admitted[i] < Memory THEN admitted[i] + 1 ELSE admitted[i]
          /\ r[j] = IF admitted[j] < Memory THEN admitted[j] + 1 ELSE admitted[j]
          /\ admitted[i] \in 0..Memory /\ admitted[j] \in 0..Memory
      BY <1>1, <1>2, Zenon
    <2>3. QED
      BY <2>1, <2>2, MemoryType, SessionsAssumption
  <1>6. Len(s) <= Len(r) /\ Len(s) <= Limit
    BY <1>2 DEF Tracks
  <1>7. QED
    BY <1>2, <1>3, <1>4, <1>5, <1>6 DEF Tracks, s, r

\* What allow() keeps of the stamps tracks the same attempts, and all of it is recent.
LEMMA TrimmedTracks ==
  ASSUME NEW stamps \in Ages, NEW admitted \in Ages, Tracks(stamps, admitted),
         NEW now \in 0..MaxDelay
  PROVE  /\ Trimmed(stamps, now) \in Ages
         /\ Tracks(Trimmed(stamps, now), admitted)
         /\ \A j \in 1..Len(Trimmed(stamps, now)) : Trimmed(stamps, now)[j] < Memory
         /\ Trimmed(stamps, now) # <<>> => Trimmed(stamps, now)[1] < now + Window
  <1> DEFINE kept == Trimmed(stamps, now)
  <1>1. /\ Len(stamps) \in Nat /\ Len(admitted) \in Nat
        /\ \A j \in 1..Len(admitted) : admitted[j] \in 0..Memory
    BY LenProperties, ElementOfSeq DEF Ages
  <1>2. now + Window \in Nat /\ 0..Memory \in SUBSET Nat /\ now \in Nat /\ Window \in Nat
        /\ MaxDelay \in Nat /\ Limit \in Nat
    BY MemoryType, LimiterAssumption, SessionsAssumption
  <1>3. PICK m \in 0..Len(stamps) :
            /\ kept \in Ages
            /\ Len(kept) = Len(stamps) - m
            /\ \A j \in 1..(Len(stamps) - m) : kept[j] = stamps[m + j]
            /\ \A j \in 1..m : stamps[j] >= now + Window
            /\ m < Len(stamps) => stamps[m + 1] < now + Window
    BY <1>2, DropOldPrefix DEF Trimmed, Ages
  <1> HIDE DEF kept
  <1>4. /\ Len(stamps) <= Len(admitted) /\ Len(stamps) <= Limit
        /\ \A j \in 1..Len(stamps) : stamps[j] = admitted[Len(admitted) - Len(stamps) + j]
        /\ \A j \in 1..(Len(admitted) - Len(stamps)) : admitted[j] >= Window
        /\ \A i, j \in 1..Len(admitted) : i < j => admitted[j] <= admitted[i] + MaxDelay
    BY DEF Tracks
  <1>5. m \in Nat /\ m <= Len(stamps)
    BY <1>1
  <1>6. Len(kept) <= Len(admitted) /\ Len(kept) <= Limit /\ Len(kept) \in Nat
    <2>1. Len(kept) = Len(stamps) - m
      BY <1>3
    <2>2. QED
      BY <2>1, <1>1, <1>2, <1>4, <1>5
  <1>7. ASSUME NEW j \in 1..Len(kept)
        PROVE  /\ kept[j] = stamps[m + j] /\ m + j \in 1..Len(stamps)
               /\ Len(admitted) - Len(kept) + j \in 1..Len(admitted)
               /\ kept[j] = admitted[Len(admitted) - Len(kept) + j]
    <2>1. Len(kept) = Len(stamps) - m
      BY <1>3
    <2>2. /\ j \in 1..(Len(stamps) - m) /\ m + j \in 1..Len(stamps)
          /\ Len(admitted) - Len(stamps) + (m + j) = Len(admitted) - Len(kept) + j
          /\ Len(admitted) - Len(kept) + j \in 1..Len(admitted)
      BY <2>1, <1>1, <1>4, <1>5
    <2>3. kept[j] = stamps[m + j]
      BY <2>2, <1>3, Zenon
    <2>4. stamps[m + j] = admitted[Len(admitted) - Len(stamps) + (m + j)]
      BY <2>2, <1>4, Zenon
    <2>5. QED
      BY <2>2, <2>3, <2>4, Zenon
  <1>8. ASSUME NEW j \in 1..(Len(admitted) - Len(kept)) PROVE admitted[j] >= Window
    <2>1. CASE j <= Len(admitted) - Len(stamps)
      <3>1. j \in 1..(Len(admitted) - Len(stamps))
        BY <2>1, <1>1, <1>4
      <3>2. QED
        BY <3>1, <1>4, Zenon
    <2>2. CASE j > Len(admitted) - Len(stamps)
      <3> DEFINE i == j - (Len(admitted) - Len(stamps))
      <3>1. Len(kept) = Len(stamps) - m
        BY <1>3
      <3>2. i \in 1..m /\ i \in 1..Len(stamps) /\ Len(admitted) - Len(stamps) + i = j
        BY <2>2, <3>1, <1>1, <1>4, <1>5
      <3>3. stamps[i] >= now + Window /\ stamps[i] = admitted[j]
        BY <3>2, <1>3, <1>4, Zenon
      <3>4. j \in 1..Len(admitted)
        BY <1>1, <1>6
      <3>5. admitted[j] \in 0..Memory
        BY <3>4, <1>1
      <3> HIDE DEF i
      <3>6. QED
        BY <3>3, <3>5, <1>2
    <2>3. QED
      BY <2>1, <2>2, <1>1, <1>4
  <1>9. Tracks(kept, admitted)
    BY <1>4, <1>6, <1>7, <1>8 DEF Tracks
  <1>10. kept # <<>> => 1 \in 1..Len(kept) /\ kept[1] < now + Window
    <2> SUFFICES ASSUME kept # <<>> PROVE 1 \in 1..Len(kept) /\ kept[1] < now + Window
      OBVIOUS
    <2>1. 1 \in 1..Len(kept)
      BY <1>3, EmptySeq DEF Ages
    <2>2. kept[1] = stamps[m + 1] /\ m + 1 \in 1..Len(stamps)
      BY <2>1, <1>7
    <2>3. m < Len(stamps)
      BY <2>2, <1>1, <1>5
    <2>4. QED
      BY <2>1, <2>2, <2>3, <1>3, Zenon
  <1>11. ASSUME NEW j \in 1..Len(kept) PROVE kept[j] < Memory
    <2>1. kept # <<>>
      BY EmptySeq, <1>6 DEF Ages
    <2>2. kept[1] < now + Window /\ 1 \in 1..Len(kept)
      BY <2>1, <1>10
    <2> DEFINE a(n) == Len(admitted) - Len(kept) + n
    <2>3. kept[1] = admitted[a(1)] /\ kept[j] = admitted[a(j)]
          /\ a(1) \in 1..Len(admitted) /\ a(j) \in 1..Len(admitted)
      BY <2>2, <1>7
    <2>4. j = 1 \/ a(1) < a(j)
      BY <1>1, <1>6
    <2> HIDE DEF a
    <2>5. kept[j] <= kept[1] + MaxDelay /\ kept[j] \in Nat /\ kept[1] \in Nat
      <3>1. kept[j] \in Nat /\ kept[1] \in Nat
        BY <2>3, <1>1, <1>2
      <3>2. CASE j = 1
        BY <3>1, <3>2, <1>2
      <3>3. CASE a(1) < a(j)
        BY <3>1, <3>3, <2>3, <1>4
      <3>4. QED
        BY <2>4, <3>2, <3>3
    <2>6. now <= MaxDelay
      BY <1>2
    <2>7. QED
      BY <2>2, <2>5, <2>6, <1>2, MemoryType
  <1>12. QED
    BY <1>3, <1>9, <1>10, <1>11 DEF kept

\* An attempt is admitted.  The history forgets what has long left the window.
LEMMA AdmittedTracks ==
  ASSUME NEW stamps \in Ages, NEW admitted \in Ages, Tracks(stamps, admitted),
         NEW now \in 0..MaxDelay, Len(Trimmed(stamps, now)) < Limit
  PROVE  /\ Append(DropOld(admitted, Memory), now) \in Ages
         /\ Append(Trimmed(stamps, now), now) \in Ages
         /\ Tracks(Append(Trimmed(stamps, now), now), Append(DropOld(admitted, Memory), now))
  <1> DEFINE kept == Trimmed(stamps, now)
             known == DropOld(admitted, Memory)
             s == Append(kept, now)
             r == Append(known, now)
  <1>1. now \in 0..Memory /\ now \in Nat /\ Window \in Nat /\ MaxDelay \in Nat /\ Limit \in Nat
        /\ Memory \in Nat /\ 0..Memory \in SUBSET Nat
        /\ now <= MaxDelay /\ now + Window <= Memory /\ Window <= Memory
    BY MemoryType, LimiterAssumption, SessionsAssumption
  <1>2. /\ kept \in Ages /\ Tracks(kept, admitted)
        /\ kept # <<>> => kept[1] < now + Window
    BY TrimmedTracks
  <1>3. Len(kept) < Limit
    OBVIOUS
  <1>4. PICK m \in 0..Len(admitted) :
            /\ known \in Ages
            /\ Len(known) = Len(admitted) - m
            /\ \A j \in 1..(Len(admitted) - m) : known[j] = admitted[m + j]
            /\ \A j \in 1..m : admitted[j] >= Memory
    BY <1>1, DropOldPrefix DEF Ages
  <1> HIDE DEF kept, known
  <1>5. /\ Len(kept) \in Nat /\ Len(admitted) \in Nat /\ Len(known) \in Nat
        /\ \A j \in 1..Len(admitted) : admitted[j] \in 0..Memory
        /\ m \in Nat /\ m <= Len(admitted) /\ Len(known) = Len(admitted) - m
    <2>1. Len(kept) \in Nat /\ Len(admitted) \in Nat /\ Len(known) \in Nat
      BY <1>2, <1>4, LenProperties DEF Ages
    <2>2. \A j \in 1..Len(admitted) : admitted[j] \in 0..Memory
      BY ElementOfSeq DEF Ages
    <2>3. QED
      BY <2>1, <2>2, <1>4
  <1>6. /\ Len(kept) <= Len(admitted)
        /\ \A j \in 1..Len(kept) : kept[j] = admitted[Len(admitted) - Len(kept) + j]
        /\ \A j \in 1..(Len(admitted) - Len(kept)) : admitted[j] >= Window
        /\ \A i, j \in 1..Len(admitted) : i < j => admitted[j] <= admitted[i] + MaxDelay
    BY <1>2 DEF Tracks
  \* The history drops no attempt that was kept: the first of those is in the window.
  <1>7. m <= Len(admitted) - Len(kept)
    <2> SUFFICES ASSUME m > Len(admitted) - Len(kept) PROVE FALSE
      BY <1>5, <1>6
    <2> DEFINE i == Len(admitted) - Len(kept) + 1
    <2>1. 1 \in 1..Len(kept) /\ i \in 1..m /\ i \in 1..Len(admitted)
      BY <1>5, <1>6
    <2>2. kept # <<>>
      BY <2>1, <1>2, EmptySeq DEF Ages
    <2>3. kept[1] = admitted[i] /\ admitted[i] >= Memory /\ admitted[i] \in 0..Memory
      BY <2>1, <1>4, <1>5, <1>6, Zenon
    <2> HIDE DEF i
    <2>4. QED
      BY <2>2, <2>3, <1>1, <1>2
  <1>8. /\ s \in Ages /\ Len(s) = Len(kept) + 1
        /\ \A j \in 1..Len(kept) : s[j] = kept[j]
        /\ s[Len(kept) + 1] = now
    BY <1>1, <1>2, AppendProperties DEF Ages
  <1>9. /\ r \in Ages /\ Len(r) = Len(known) + 1
        /\ \A j \in 1..Len(known) : r[j] = known[j]
        /\ r[Len(known) + 1] = now
    BY <1>1, <1>4, AppendProperties DEF Ages
  <1> HIDE DEF s, r
  <1>10. ASSUME NEW j \in 1..Len(known)
         PROVE  r[j] = admitted[m + j] /\ m + j \in 1..Len(admitted)
    <2>1. j \in 1..(Len(admitted) - m) /\ m + j \in 1..Len(admitted)
      BY <1>5
    <2>2. QED
      BY <2>1, <1>4, <1>9, Zenon
  <1>11. Len(s) <= Len(r) /\ Len(s) <= Limit
    <2>1. Len(s) = Len(kept) + 1 /\ Len(r) = Len(known) + 1
      BY <1>8, <1>9
    <2>2. QED
      BY <2>1, <1>1, <1>3, <1>5, <1>7
  <1>12. ASSUME NEW j \in 1..Len(s) PROVE s[j] = r[Len(r) - Len(s) + j]
    <2>1. Len(s) = Len(kept) + 1 /\ Len(r) = Len(known) + 1
      BY <1>8, <1>9
    <2>2. CASE j = Len(kept) + 1
      <3>1. Len(r) - Len(s) + j = Len(known) + 1
        BY <2>1, <2>2, <1>5
      <3>2. QED
        BY <2>2, <3>1, <1>8, <1>9, Zenon
    <2>3. CASE j \in 1..Len(kept)
      <3>1. /\ Len(r) - Len(s) + j \in 1..Len(known)
            /\ m + (Len(r) - Len(s) + j) = Len(admitted) - Len(kept) + j
        BY <2>1, <2>3, <1>5, <1>7
      <3>2. r[Len(r) - Len(s) + j] = admitted[m + (Len(r) - Len(s) + j)]
        BY <3>1, <1>10
      <3>3. s[j] = kept[j] /\ kept[j] = admitted[Len(admitted) - Len(kept) + j]
        BY <2>3, <1>6, <1>8, Zenon
      <3>4. QED
        BY <3>1, <3>2, <3>3, Zenon
    <2>4. QED
      BY <2>1, SMTT(30), <2>2, <2>3, <1>5
  <1>13. ASSUME NEW j \in 1..(Len(r) - Len(s)) PROVE r[j] >= Window
    <2>1. Len(s) = Len(kept) + 1 /\ Len(r) = Len(known) + 1
      BY <1>8, <1>9
    <2>2. j \in 1..Len(known) /\ m + j \in 1..(Len(admitted) - Len(kept))
      BY <2>1, <1>5, <1>7
    <2>3. r[j] = admitted[m + j]
      BY <2>2, <1>10
    <2>4. QED
      BY <2>2, <2>3, <1>6
  <1>14. ASSUME NEW i \in 1..Len(r), NEW j \in 1..Len(r), i < j
         PROVE  r[j] <= r[i] + MaxDelay
    <2>1. Len(r) = Len(known) + 1
      BY <1>9
    <2>2. i \in 1..Len(known)
      BY <2>1, <1>5, <1>14
    <2>3. r[i] = admitted[m + i] /\ m + i \in 1..Len(admitted) /\ r[i] \in Nat
      BY <2>2, <1>5, <1>10, <1>1
    <2>4. CASE j = Len(known) + 1
      <3>1. r[j] = now
        BY <2>4, <1>9
      <3>2. QED
        BY <3>1, <2>3, <1>1
    <2>5. CASE j \in 1..Len(known)
      <3>1. r[j] = admitted[m + j] /\ m + j \in 1..Len(admitted) /\ m + i < m + j
        BY <2>2, <2>5, <1>5, <1>10, <1>14
      <3>2. QED
        BY <2>3, <3>1, <1>6
    <2>6. j = Len(known) + 1 \/ j \in 1..Len(known)
      <3>1. Len(known) \in Nat
        BY <1>5
      <3>2. QED
        BY <3>1, <2>1
    <2>7. QED
      BY <2>4, <2>5, <2>6
  <1>15. Tracks(s, r)
    BY <1>11, <1>12, <1>13, <1>14 DEF Tracks
  <1>16. QED
    BY <1>8, <1>9, <1>15 DEF s, r, kept, known

-----------------------------------------------------------------------------
\* What the methods of the limiter, and time, make of its entries.

\* The stamps of a client after allow().
StampsAfter(stamps, now) ==
    IF Len(Trimmed(stamps, now)) < Limit
    THEN Append(Trimmed(stamps, now), now) ELSE Trimmed(stamps, now)

LEMMA AllowProperties ==
  ASSUME NEW limiter, OnePerKey(limiter), Len(limiter) <= MaxKeys,
         NEW key \in Keys, NEW now, StampsAfter(StampsOf(limiter, key), now) \in Ages
  PROVE  /\ OnePerKey(AfterAllow(limiter, key, now))
         /\ Len(AfterAllow(limiter, key, now)) <= MaxKeys
         /\ key \in KeysOf(AfterAllow(limiter, key, now))
         /\ StampsOf(AfterAllow(limiter, key, now), key)
              = StampsAfter(StampsOf(limiter, key), now)
         /\ \A k \in KeysOf(AfterAllow(limiter, key, now)) \ {key} :
              /\ k \in KeysOf(limiter)
              /\ StampsOf(AfterAllow(limiter, key, now), k) = StampsOf(limiter, k)
  <1> DEFINE stamps == StampsAfter(StampsOf(limiter, key), now)
             room == Room(limiter, key)
             entry == [key |-> key, stamps |-> stamps]
             after == AfterAllow(limiter, key, now)
  <1>1. after = Append(room, entry)
    BY DEF AfterAllow, StampsAfter
  <1>0. stamps \in Ages
    OBVIOUS
  <1>2. entry \in Entry /\ entry.key = key /\ entry.stamps = stamps
    BY <1>0 DEF Entry
  <1>3. /\ OnePerKey(room) /\ Len(room) < MaxKeys
        /\ \A i \in 1..Len(room) :
              \E j \in 1..Len(limiter) : room[i] = limiter[j] /\ limiter[j].key # key
    BY RoomProperties
  <1> HIDE DEF stamps, room, entry, after
  <1>4. \A i \in 1..Len(room) : room[i].key # entry.key
    BY <1>2, <1>3
  <1>5. /\ OnePerKey(after) /\ Len(after) = Len(room) + 1
        /\ StampsOf(after, key) = stamps
        /\ \A k : k # key => /\ k \in KeysOf(after) <=> k \in KeysOf(room)
                             /\ StampsOf(after, k) = StampsOf(room, k)
    <2>1. /\ OnePerKey(Append(room, entry))
          /\ Len(Append(room, entry)) = Len(room) + 1
          /\ StampsOf(Append(room, entry), entry.key) = entry.stamps
          /\ \A k : k # entry.key =>
                /\ k \in KeysOf(Append(room, entry)) <=> k \in KeysOf(room)
                /\ StampsOf(Append(room, entry), k) = StampsOf(room, k)
      BY <1>2, <1>3, <1>4, AppendEntry, Zenon
    <2>2. QED
      BY <2>1, <1>1, <1>2, Zenon
  <1>6. Len(after) <= MaxKeys
    <2>1. Len(room) \in Nat /\ MaxKeys \in Nat /\ Len(room) < MaxKeys
      BY <1>3, LenProperties, LimiterAssumption DEF OnePerKey
    <2>2. Len(after) = Len(room) + 1
      BY <1>5
    <2>3. QED
      BY <2>1, <2>2
  <1>7. key \in KeysOf(after)
    <2>1. Len(room) + 1 \in 1..Len(after) /\ after[Len(room) + 1] = entry
      BY <1>1, <1>2, <1>3, <1>5, LenProperties, AppendProperties DEF OnePerKey
    <2>2. QED
      BY <2>1, <1>2, <1>5, EntryOf
  <1>8. \A k \in KeysOf(room) :
            k \in KeysOf(limiter) /\ StampsOf(room, k) = StampsOf(limiter, k)
    <2>1. \A i \in 1..Len(room) : \E j \in 1..Len(limiter) : room[i] = limiter[j]
      BY <1>3
    <2>2. QED
      BY <2>1, <1>3, FewerEntries
  <1>9. QED
    BY <1>5, <1>6, <1>7, <1>8 DEF after, stamps

LEMMA ClearProperties ==
  ASSUME NEW limiter, OnePerKey(limiter), NEW key
  PROVE  /\ OnePerKey(AfterClear(limiter, key))
         /\ Len(AfterClear(limiter, key)) <= Len(limiter)
         /\ StampsOf(AfterClear(limiter, key), key) = <<>>
         /\ \A k : k # key => StampsOf(AfterClear(limiter, key), k) = StampsOf(limiter, k)
  <1> DEFINE rest == AfterClear(limiter, key)
  <1>1. /\ OnePerKey(rest) /\ Len(rest) <= Len(limiter)
        /\ KeysOf(rest) = KeysOf(limiter) \ {key}
        /\ \A i \in 1..Len(rest) : \E j \in 1..Len(limiter) : rest[i] = limiter[j]
    BY OthersProperties DEF AfterClear
  <1> HIDE DEF rest
  <1>2. \A k \in KeysOf(rest) : StampsOf(rest, k) = StampsOf(limiter, k)
    BY <1>1, FewerEntries
  <1>3. \A k : k \notin KeysOf(rest) => StampsOf(rest, k) = <<>>
    BY DEF StampsOf
  <1>4. \A k : k \notin KeysOf(limiter) => StampsOf(limiter, k) = <<>>
    BY DEF StampsOf
  <1>5. QED
    BY <1>1, <1>2, <1>3, <1>4 DEF rest

LEMMA TickProperties ==
  ASSUME NEW limiter, OnePerKey(limiter), NEW after,
         after = [i \in DOMAIN limiter |-> [limiter[i] EXCEPT !.stamps = Older(@)]]
  PROVE  /\ OnePerKey(after) /\ Len(after) = Len(limiter)
         /\ \A key : StampsOf(after, key) = Older(StampsOf(limiter, key))
  <1> DEFINE aged(i) == [limiter[i] EXCEPT !.stamps = Older(limiter[i].stamps)]
  <1>1. limiter \in Seq(Entry) /\ Len(limiter) \in Nat /\ DOMAIN limiter = 1..Len(limiter)
    BY LenProperties DEF OnePerKey
  <1>2. \A i \in 1..Len(limiter) :
            /\ aged(i) \in Entry /\ aged(i).key = limiter[i].key
            /\ aged(i).stamps = Older(limiter[i].stamps)
    <2> TAKE i \in 1..Len(limiter)
    <2>1. limiter[i] \in Entry /\ Older(limiter[i].stamps) \in Ages
      BY EntryOf, OlderProperties DEF Entry
    <2>2. QED
      BY <2>1 DEF Entry
  <1>3. after = [i \in 1..Len(limiter) |-> aged(i)]
    BY <1>1
  <1> HIDE DEF aged
  <1>4. /\ after \in Seq(Entry) /\ Len(after) = Len(limiter) /\ DOMAIN after = 1..Len(limiter)
        /\ \A i \in 1..Len(limiter) : after[i] = aged(i)
    BY <1>1, SMTT(30), <1>2, <1>3
  <1>5. OnePerKey(after)
    BY <1>2, <1>4 DEF OnePerKey
  <1>6. ASSUME NEW key PROVE StampsOf(after, key) = Older(StampsOf(limiter, key))
    <2>1. CASE key \in KeysOf(limiter)
      <3>1. PICK i \in 1..Len(limiter) : limiter[i].key = key
        BY <2>1, KeyHasEntry
      <3>2. StampsOf(limiter, key) = limiter[i].stamps
        BY <3>1, EntryOf
      <3>3. StampsOf(after, key) = after[i].stamps
        BY <3>1, <1>2, <1>4, <1>5, EntryOf
      <3>4. QED
        BY <3>2, <3>3, <1>2, <1>4
    <2>2. CASE key \notin KeysOf(limiter)
      <3>1. key \notin KeysOf(after)
        BY <2>2, <1>1, <1>2, <1>4 DEF KeysOf
      <3>2. <<>> \in Ages /\ Len(<<>>) = 0
        BY EmptySeq DEF Ages
      <3>3. Older(<<>>) \in Ages /\ Len(Older(<<>>)) = 0
        BY <3>2, OlderProperties
      <3>4. Older(<<>>) = <<>>
        BY <3>3, EmptySeq DEF Ages
      <3>5. QED
        BY <2>2, <3>1, <3>4 DEF StampsOf
    <2>3. QED
      BY <2>1, <2>2
  <1>7. QED
    BY <1>4, <1>5, <1>6

-----------------------------------------------------------------------------
\* The invariant of the limiter and its clients.

LimiterTypes ==
    /\ OnePerKey(entries) /\ Len(entries) <= MaxKeys
    /\ recent \in [Keys -> Ages]

\* Who asks the limiter has a client to ask for.
HasKey(t) == pc[t] = "stamped" => work[t].key \in Keys

LimiterInv ==
    /\ LimiterTypes
    /\ \A k \in Keys : Tracks(StampsOf(entries, k), recent[k])
    /\ \A t \in Threads : HasKey(t)

LEMMA LimiterInitially == Init => LimiterInv
  <1> SUFFICES ASSUME Init PROVE LimiterInv
    OBVIOUS
  <1>1. <<>> \in Seq(Entry) /\ <<>> \in Ages /\ Len(<<>>) = 0 /\ KeysOf(<<>>) = {}
    BY EmptySeq DEF Ages, KeysOf
  <1>2. LimiterTypes
    BY <1>1, LimiterAssumption DEF Init, LimiterTypes, OnePerKey
  <1>3. \A k \in Keys : Tracks(StampsOf(entries, k), recent[k])
    BY <1>1, NothingTracked DEF Init, StampsOf
  <1>4. \A t \in Threads : HasKey(t)
    BY DEF Init, HasKey
  <1>5. QED
    BY <1>2, <1>3, <1>4 DEF LimiterInv

LEMMA LimiterUntouched ==
  ASSUME LimiterInv, entries' = entries, recent' = recent, \A t \in Threads : HasKey(t)'
  PROVE  LimiterInv'
  BY DEF LimiterInv, LimiterTypes

\* Thread t is not about to ask, and no other thread moves.
LEMMA NobodyElseAsks ==
  ASSUME LimiterInv, NEW t \in Threads, Alone(t), pc'[t] # "stamped"
  PROVE  \A u \in Threads : HasKey(u)'
  BY DEF LimiterInv, HasKey, Alone

LEMMA Asked ==
  ASSUME Inv, LimiterInv, NEW t \in Threads, Allow(t)
  PROVE  /\ work[t].key \in Keys /\ work[t].stamp \in 0..MaxDelay
         /\ StampsOf(entries, work[t].key) \in Ages /\ recent[work[t].key] \in Ages
         /\ Tracks(StampsOf(entries, work[t].key), recent[work[t].key])
  <1>1. work[t].key \in Keys /\ work[t].stamp \in 0..MaxDelay
    BY DEF Allow, LimiterInv, HasKey, Inv, Types, Locals
  <1>2. QED
    BY <1>1, StampsType DEF LimiterInv, LimiterTypes

LEMMA AllowKeepsLimiter ==
  ASSUME Inv, LimiterInv, NEW t \in Threads, Allow(t)
  PROVE  LimiterInv'
  <1> DEFINE key == work[t].key
             now == work[t].stamp
             stamps == StampsOf(entries, key)
             admitted == recent[key]
             kept == Trimmed(stamps, now)
             pushedOut == KeysOf(entries) \ KeysOf(entries')
             left == StampsAfter(stamps, now)
  <1>1. /\ key \in Keys /\ now \in 0..MaxDelay
        /\ stamps \in Ages /\ admitted \in Ages /\ Tracks(stamps, admitted)
    BY Asked
  <1>2. /\ OnePerKey(entries) /\ Len(entries) <= MaxKeys
        /\ recent \in [Keys -> Ages]
        /\ \A k \in Keys : Tracks(StampsOf(entries, k), recent[k])
    BY DEF LimiterInv, LimiterTypes
  <1>3. /\ entries' = AfterAllow(entries, key, now)
        /\ IF Len(kept) < Limit
           THEN /\ pc' = [pc EXCEPT ![t] = "reading"] /\ work' = work
                /\ recent' = [Forgotten(pushedOut) EXCEPT ![key] =
                                Append(DropOld(@, Memory), now)]
           ELSE Answer(t) /\ recent' = Forgotten(pushedOut)
    BY Zenon DEF Allow, Admits, Goto
  <1>4. kept \in Ages /\ Tracks(kept, admitted)
    BY <1>1, TrimmedTracks
  <1>0. left = IF Len(kept) < Limit THEN Append(kept, now) ELSE kept
    BY DEF StampsAfter
  <1> HIDE DEF key, now, stamps, admitted, kept, pushedOut, left
  \* What is left of the entries, by AllowProperties.
  <1>a. ASSUME left \in Ages
        PROVE  /\ OnePerKey(entries') /\ Len(entries') <= MaxKeys
               /\ key \in KeysOf(entries') /\ StampsOf(entries', key) = left
               /\ \A k \in KeysOf(entries') \ {key} :
                    k \in KeysOf(entries) /\ StampsOf(entries', k) = StampsOf(entries, k)
    <2> DEFINE after == AfterAllow(entries, key, now)
    <2>1. /\ OnePerKey(after) /\ Len(after) <= MaxKeys
          /\ key \in KeysOf(after) /\ StampsOf(after, key) = left
          /\ \A k \in KeysOf(after) \ {key} :
                k \in KeysOf(entries) /\ StampsOf(after, k) = StampsOf(entries, k)
      <3>1. OnePerKey(entries) /\ Len(entries) <= MaxKeys /\ key \in Keys
        BY <1>1, <1>2
      <3>2. StampsAfter(StampsOf(entries, key), now) \in Ages
        BY <1>a DEF left, stamps
      <3>3. left = StampsAfter(StampsOf(entries, key), now)
        BY DEF left, stamps
      <3>4. QED
        BY <3>1, <3>2, <3>3, AllowProperties
    <2>2. entries' = after
      BY <1>3
    <2> HIDE DEF after
    <2>3. QED
      BY <2>1, <2>2, Zenon
  <1>5. CASE Len(kept) < Limit
    <2>1. /\ Append(DropOld(admitted, Memory), now) \in Ages
          /\ Append(kept, now) \in Ages
          /\ Tracks(Append(kept, now), Append(DropOld(admitted, Memory), now))
      BY <1>1, <1>5, AdmittedTracks DEF kept
    <2>2. left = Append(kept, now)
      BY <1>0, <1>5
    <2>3. /\ OnePerKey(entries') /\ Len(entries') <= MaxKeys
          /\ key \in KeysOf(entries') /\ StampsOf(entries', key) = left
          /\ \A k \in KeysOf(entries') \ {key} :
                k \in KeysOf(entries) /\ StampsOf(entries', k) = StampsOf(entries, k)
      <3>1. left \in Ages
        BY <2>1, <2>2
      <3>2. QED
        BY <3>1, <1>a
    <2>4. recent' = [Forgotten(pushedOut) EXCEPT ![key] = Append(DropOld(@, Memory), now)]
          /\ pc' = [pc EXCEPT ![t] = "reading"] /\ work' = work
      BY <1>3, <1>5, Zenon
    <2>5. key \notin pushedOut
      BY <2>3 DEF pushedOut
    <2>6. recent'[key] = Append(DropOld(admitted, Memory), now)
      BY <2>4, <2>5, <1>1 DEF Forgotten, admitted
    <2>7. \A k \in Keys \ {key} : recent'[k] = IF k \in pushedOut THEN <<>> ELSE recent[k]
      BY <2>4 DEF Forgotten
    <2>8. recent' \in [Keys -> Ages]
      <3>1. <<>> \in Ages
        BY EmptySeq DEF Ages
      <3>2. recent' = [k \in Keys |-> recent'[k]]
        BY <2>4 DEF Forgotten
      <3>3. \A k \in Keys : recent'[k] \in Ages
        BY <3>1, <2>1, <2>6, <2>7, <1>2
      <3>4. QED
        BY <3>2, <3>3
    <2>9. Tracks(StampsOf(entries', key), recent'[key])
      BY <2>1, <2>2, <2>3, <2>6
    <2>10. ASSUME NEW k \in Keys, k # key PROVE Tracks(StampsOf(entries', k), recent'[k])
      <3>1. CASE k \in KeysOf(entries')
        BY <3>1, <2>3, <2>7, <2>10, <1>2 DEF pushedOut
      <3>2. CASE k \notin KeysOf(entries') /\ k \in KeysOf(entries)
        BY <3>2, <2>7, <2>10, NothingTracked DEF pushedOut, StampsOf
      <3>3. CASE k \notin KeysOf(entries') /\ k \notin KeysOf(entries)
        <4>1. StampsOf(entries', k) = StampsOf(entries, k)
          BY <3>3 DEF StampsOf
        <4>2. recent'[k] = recent[k]
          BY <3>3, <2>7, <2>10 DEF pushedOut
        <4>3. QED
          BY <4>1, <4>2, <1>2
      <3>4. QED
        BY <3>1, <3>2, <3>3
    <2>11. \A u \in Threads : HasKey(u)'
      BY <2>4 DEF LimiterInv, HasKey, Inv, Types
    <2>12. QED
      BY <2>3, <2>8, <2>9, <2>10, <2>11 DEF LimiterInv, LimiterTypes
  <1>6. CASE ~(Len(kept) < Limit)
    <2>2. left = kept
      BY <1>0, <1>6
    <2>3. /\ OnePerKey(entries') /\ Len(entries') <= MaxKeys
          /\ key \in KeysOf(entries') /\ StampsOf(entries', key) = left
          /\ \A k \in KeysOf(entries') \ {key} :
                k \in KeysOf(entries) /\ StampsOf(entries', k) = StampsOf(entries, k)
      <3>1. left \in Ages
        BY <1>4, <2>2
      <3>2. QED
        BY <3>1, <1>a
    <2>4. recent' = Forgotten(pushedOut) /\ Answer(t)
      BY <1>3, <1>6, Zenon
    <2>5. key \notin pushedOut
      BY <2>3 DEF pushedOut
    <2>6. \A k \in Keys : recent'[k] = IF k \in pushedOut THEN <<>> ELSE recent[k]
      BY <2>4 DEF Forgotten
    <2>7. recent' \in [Keys -> Ages]
      <3>1. <<>> \in Ages
        BY EmptySeq DEF Ages
      <3>2. QED
        BY <3>1, <2>4, <1>2 DEF Forgotten
    <2>8. Tracks(StampsOf(entries', key), recent'[key])
      BY <2>2, <2>3, <2>5, <2>6, <1>1, <1>4 DEF admitted
    <2>9. ASSUME NEW k \in Keys, k # key PROVE Tracks(StampsOf(entries', k), recent'[k])
      <3>1. CASE k \in KeysOf(entries')
        BY <3>1, <2>3, <2>6, <2>9, <1>2 DEF pushedOut
      <3>2. CASE k \notin KeysOf(entries') /\ k \in KeysOf(entries)
        BY <3>2, <2>6, <2>9, NothingTracked DEF pushedOut, StampsOf
      <3>3. CASE k \notin KeysOf(entries') /\ k \notin KeysOf(entries)
        <4>1. StampsOf(entries', k) = StampsOf(entries, k)
          BY <3>3 DEF StampsOf
        <4>2. recent'[k] = recent[k]
          BY <3>3, <2>6, <2>9 DEF pushedOut
        <4>3. QED
          BY <4>1, <4>2, <1>2
      <3>4. QED
        BY <3>1, <3>2, <3>3
    <2>10. \A u \in Threads : HasKey(u)'
      <3>1. Alone(t)
        BY <2>4, AnswerAlone DEF Inv
      <3>2. pc'[t] # "stamped"
        BY <2>4 DEF Answer, Goto, Inv, Types
      <3>3. QED
        BY <3>1, <3>2, NobodyElseAsks
    <2>11. QED
      BY <2>3, <2>7, <2>8, <2>9, <2>10 DEF LimiterInv, LimiterTypes
  <1>7. QED
    BY <1>5, <1>6

LEMMA ClearKeepsLimiter ==
  ASSUME Inv, LimiterInv, NEW t \in Threads, ClearKey(t)
  PROVE  LimiterInv'
  <1> DEFINE key == work[t].key
  <1>1. /\ OnePerKey(entries) /\ Len(entries) <= MaxKeys
        /\ recent \in [Keys -> Ages]
        /\ \A k \in Keys : Tracks(StampsOf(entries, k), recent[k])
    BY DEF LimiterInv, LimiterTypes
  <1>2. /\ entries' = AfterClear(entries, key)
        /\ recent' = [k \in Keys |-> IF k \in {key} THEN <<>> ELSE recent[k]]
        /\ Answer(t)
    BY DEF ClearKey, Forgotten
  <1> HIDE DEF key
  <1>3. /\ OnePerKey(entries') /\ Len(entries') <= Len(entries)
        /\ StampsOf(entries', key) = <<>>
        /\ \A k : k # key => StampsOf(entries', k) = StampsOf(entries, k)
    <2> DEFINE rest == AfterClear(entries, key)
    <2>1. /\ OnePerKey(rest) /\ Len(rest) <= Len(entries)
          /\ StampsOf(rest, key) = <<>>
          /\ \A k : k # key => StampsOf(rest, k) = StampsOf(entries, k)
      BY <1>1, ClearProperties
    <2>2. entries' = rest
      BY <1>2
    <2> HIDE DEF rest
    <2>3. QED
      BY <2>1, <2>2, Zenon
  <1>4. Len(entries') <= MaxKeys
    <2>1. Len(entries) \in Nat /\ Len(entries') \in Nat /\ MaxKeys \in Nat
      BY <1>1, <1>3, LenProperties, LimiterAssumption DEF OnePerKey
    <2>2. QED
      BY <2>1, <1>1, <1>3
  <1>5. recent' \in [Keys -> Ages]
    BY <1>1, <1>2, EmptySeq DEF Ages
  <1>6. ASSUME NEW k \in Keys PROVE Tracks(StampsOf(entries', k), recent'[k])
    <2>1. CASE k = key
      BY <2>1, <1>2, <1>3, NothingTracked
    <2>2. CASE k # key
      BY <2>2, <1>1, <1>2, <1>3
    <2>3. QED
      BY <2>1, <2>2
  <1>7. \A u \in Threads : HasKey(u)'
    <2>1. Alone(t)
      BY <1>2, AnswerAlone DEF Inv
    <2>2. pc'[t] # "stamped"
      BY <1>2 DEF Answer, Goto, Inv, Types
    <2>3. QED
      BY <2>1, <2>2, NobodyElseAsks
  <1>8. QED
    BY <1>3, <1>4, <1>5, <1>6, <1>7 DEF LimiterInv, LimiterTypes

LEMMA TickKeepsLimiter ==
  ASSUME Inv, LimiterInv, Tick
  PROVE  LimiterInv'
  <1>1. /\ OnePerKey(entries) /\ Len(entries) <= MaxKeys
        /\ recent \in [Keys -> Ages]
        /\ \A k \in Keys : Tracks(StampsOf(entries, k), recent[k])
    BY DEF LimiterInv, LimiterTypes
  <1>2. /\ entries' = [i \in DOMAIN entries |-> [entries[i] EXCEPT !.stamps = Older(@)]]
        /\ recent' = [k \in Keys |-> Older(recent[k])]
    BY DEF Tick
  <1>3. /\ OnePerKey(entries') /\ Len(entries') = Len(entries)
        /\ \A key : StampsOf(entries', key) = Older(StampsOf(entries, key))
    BY <1>1, <1>2, TickProperties
  <1>4. recent' \in [Keys -> Ages]
    BY <1>1, <1>2, OlderProperties
  <1>5. ASSUME NEW k \in Keys PROVE Tracks(StampsOf(entries', k), recent'[k])
    <2>1. StampsOf(entries, k) \in Ages /\ recent[k] \in Ages
      BY <1>1, StampsType
    <2>2. Tracks(Older(StampsOf(entries, k)), Older(recent[k]))
      BY <2>1, <1>1, OlderTracks
    <2>3. QED
      BY <2>2, <1>2, <1>3
  <1>6. \A u \in Threads : HasKey(u)'
    BY DEF Tick, LimiterInv, HasKey
  <1>7. QED
    BY <1>1, <1>3, <1>4, <1>5, <1>6 DEF LimiterInv, LimiterTypes

LEMMA RestartKeepsLimiter ==
  ASSUME Restart
  PROVE  LimiterInv'
  <1>1. entries' = <<>> /\ recent' = [k \in Keys |-> <<>>] /\ pc' = [t \in Threads |-> "idle"]
    BY DEF Restart
  <1>2. <<>> \in Seq(Entry) /\ <<>> \in Ages /\ Len(<<>>) = 0 /\ KeysOf(<<>>) = {}
    BY EmptySeq DEF Ages, KeysOf
  <1>3. LimiterTypes'
    BY <1>1, <1>2, LimiterAssumption DEF LimiterTypes, OnePerKey
  <1>4. \A k \in Keys : Tracks(StampsOf(entries', k), recent'[k])
    BY <1>1, <1>2, NothingTracked DEF StampsOf
  <1>5. \A t \in Threads : HasKey(t)'
    BY <1>1 DEF HasKey
  <1>6. QED
    BY <1>3, <1>4, <1>5 DEF LimiterInv

\* The other steps of a thread.
LEMMA OthersKeepLimiter ==
  ASSUME Inv, LimiterInv, NEW t \in Threads,
         \/ \E key \in Keys, given \in Accounts : CallLogin(t, key, given)
         \/ ReadAdmin(t) \/ InsertSession(t)
         \/ \E tok \in Tokens, given, new \in Accounts : CallChange(t, tok, given, new)
         \/ Replace(t)
         \/ \E tok \in Tokens, target \in Modes : CallSettings(t, tok, target)
         \/ ReadMode(t) \/ StoreMode(t) \/ EndSessions(t)
  PROVE  LimiterInv'
  <1> Types
    BY SMTT(30) DEF Inv
  <1>1. entries' = entries /\ recent' = recent
    BY DEF CallLogin, ReadAdmin, InsertSession, CallChange, Replace, CallSettings,
           ReadMode, StoreMode, EndSessions
  <1>2. ASSUME NEW key \in Keys, NEW given \in Accounts, CallLogin(t, key, given)
        PROVE  \A u \in Threads : HasKey(u)'
    <2>1. \A u \in Threads \ {t} : pc'[u] = pc[u] /\ work'[u] = work[u]
      BY <1>2 DEF CallLogin, Goto, Types
    <2>2. work'[t].key = key
      BY <1>2 DEF CallLogin, Types, Blank
    <2>3. QED
      BY <2>1, <2>2 DEF LimiterInv, HasKey
  <1>3. ASSUME \/ ReadAdmin(t) \/ InsertSession(t) \/ Replace(t)
               \/ \E tok \in Tokens, given, new \in Accounts : CallChange(t, tok, given, new)
               \/ \E tok \in Tokens, target \in Modes : CallSettings(t, tok, target)
               \/ ReadMode(t) \/ StoreMode(t) \/ EndSessions(t)
        PROVE  \A u \in Threads : HasKey(u)'
    <2>1. \E step \in Steps \ {"stamped"} : pc' = [pc EXCEPT ![t] = step]
      BY <1>3 DEF Goto, ReadAdmin, InsertSession, Replace, CallChange, CallSettings, ReadMode,
                  StoreMode, EndSessions, Answer, Steps
    <2>2. pc'[t] # "stamped" /\ \A u \in Threads \ {t} : pc'[u] = pc[u]
      BY <2>1 DEF Types
    <2>3. Answer(t) \/ UNCHANGED work => \A u \in Threads \ {t} : work'[u] = work[u]
      BY DEF Answer, Types
    <2>4. \A u \in Threads \ {t} : work'[u] = work[u]
      <3>1. CASE \/ ReadAdmin(t) \/ ReadMode(t)
                 \/ \E tok \in Tokens, given, new \in Accounts : CallChange(t, tok, given, new)
                 \/ \E tok \in Tokens, target \in Modes : CallSettings(t, tok, target)
        BY <3>1 DEF ReadAdmin, ReadMode, CallChange, CallSettings, Types
      <3>2. CASE InsertSession(t) \/ StoreMode(t) \/ EndSessions(t) \/ Replace(t)
        <4>1. Answer(t) \/ UNCHANGED work
          BY <3>2 DEF InsertSession, StoreMode, EndSessions, Replace
        <4>2. QED
          BY <4>1, <2>3
      <3>3. QED
        BY <1>3, <3>1, <3>2
    <2>5. ASSUME NEW u \in Threads PROVE HasKey(u)'
      <3>1. CASE u = t
        BY <2>2, <3>1 DEF HasKey
      <3>2. CASE u # t
        <4>1. pc'[u] = pc[u] /\ work'[u] = work[u]
          BY <2>2, <2>4, <3>2
        <4>2. QED
          BY <4>1 DEF LimiterInv, HasKey
      <3>3. QED
        BY <3>1, <3>2
    <2>6. QED
      BY <2>5, ZenonT(60)
  <1>4. QED
    BY <1>1, <1>2, <1>3, LimiterUntouched

LEMMA StepKeepsLimiter == Inv /\ LimiterInv /\ [Next]_vars => LimiterInv'
  <1> SUFFICES ASSUME Inv, LimiterInv, [Next]_vars PROVE LimiterInv'
    OBVIOUS
  <1>1. CASE UNCHANGED vars
    BY <1>1 DEF vars, LimiterInv, LimiterTypes, HasKey
  <1>2. ASSUME NEW tok \in Tokens, Logout(tok) \/ RefuseExpired(tok) PROVE LimiterInv'
    <2>1. entries' = entries /\ recent' = recent /\ pc' = pc /\ work' = work
      BY <1>2 DEF Logout, RefuseExpired
    <2>2. QED
      BY <2>1 DEF LimiterInv, LimiterTypes, HasKey
  <1>3. QED
    BY <1>1, <1>2, AllowKeepsLimiter, ClearKeepsLimiter, TickKeepsLimiter,
       RestartKeepsLimiter, OthersKeepLimiter DEF Next

LEMMA LimiterInvariance == Spec => [](Inv /\ LimiterInv)
  BY Initially, StepKeepsInv, LimiterInitially, StepKeepsLimiter, PTL DEF Spec

-----------------------------------------------------------------------------
\* Its consequences.

\* All variables stay what they are declared to be; the limiter keeps no more than
\* MaxKeys clients and Limit stamps of each.
THEOREM TypeCorrect == Spec => []STypeOK
  <1>1. ASSUME Inv, LimiterInv PROVE STypeOK
    <2>1. /\ account \in Accounts /\ mode \in Modes
          /\ sessions \in [Tokens -> Session \cup {None}]
          /\ pc \in [Threads -> Steps] /\ work \in [Threads -> Locals]
      BY <1>1 DEF Inv, Types
    <2>2. torn \in BOOLEAN
      BY <1>1, Zenon DEF Inv, Types
    <2>3. OnePerKey(entries) /\ Len(entries) <= MaxKeys /\ recent \in [Keys -> Seq(0..Memory)]
      BY <1>1 DEF LimiterInv, LimiterTypes, Ages
    <2>4. ASSUME NEW i \in DOMAIN entries
          PROVE  /\ entries[i].key \in Keys
                 /\ Len(entries[i].stamps) <= Limit
                 /\ entries[i].stamps \in Seq(0..Memory)
      <3>1. i \in 1..Len(entries)
        BY <2>3, LenProperties DEF OnePerKey
      <3>2. /\ entries[i] \in Entry
            /\ StampsOf(entries, entries[i].key) = entries[i].stamps
        BY <2>3, <3>1, EntryOf
      <3>3. Len(StampsOf(entries, entries[i].key)) <= Limit
        BY <1>1, <3>2 DEF LimiterInv, Tracks, Entry
      <3>4. QED
        BY <3>2, <3>3 DEF Entry, Ages
    <2>5. QED
      BY <2>1, <2>2, <2>3, <2>4, Zenon DEF STypeOK, Steps
  <1>2. QED
    BY <1>1, LimiterInvariance, PTL

\* However many requests of a client overlap, it has no more than Limit passwords
\* verified within one window.
THEOREM AttemptsStayBounded == Spec => []AttemptsBounded
  <1>1. ASSUME LimiterInv, NEW k \in Keys PROVE Cardinality(Younger(k, Window)) <= Limit
    <2> DEFINE s == StampsOf(entries, k)
               r == recent[k]
    <2>1. s \in Ages /\ r \in Ages /\ Tracks(s, r)
      BY <1>1, StampsType DEF LimiterInv, LimiterTypes
    <2>2. Younger(k, Window) = {j \in DOMAIN r : r[j] < Window}
      BY DEF Younger
    <2> HIDE DEF s, r
    <2>3. /\ Len(s) \in Nat /\ Len(r) \in Nat /\ DOMAIN r = 1..Len(r)
          /\ \A j \in 1..Len(r) : r[j] \in 0..Memory
      BY <2>1, LenProperties, ElementOfSeq DEF Ages
    <2>4. /\ Len(s) <= Len(r) /\ Len(s) <= Limit
          /\ \A j \in 1..(Len(r) - Len(s)) : r[j] >= Window
      BY <2>1 DEF Tracks
    <2>5. Younger(k, Window) \in SUBSET ((Len(r) - Len(s) + 1)..Len(r))
      <3> SUFFICES ASSUME NEW j \in 1..Len(r), r[j] < Window
                   PROVE  j \in (Len(r) - Len(s) + 1)..Len(r)
        BY <2>2, <2>3
      <3>1. j \notin 1..(Len(r) - Len(s))
        BY <2>3, <2>4, MemoryType, LimiterAssumption
      <3>2. QED
        BY <3>1, <2>3, <2>4
    <2>6. Len(r) - Len(s) + 1 \in Int /\ Len(r) \in Int
      BY <2>3
    <2> DEFINE last == (Len(r) - Len(s) + 1)..Len(r)
    <2>7. /\ IsFiniteSet(last)
          /\ Cardinality(last) = IF Len(r) - Len(s) + 1 > Len(r) THEN 0
                                 ELSE Len(r) - (Len(r) - Len(s) + 1) + 1
      BY <2>6, FS_Interval
    <2>8. Cardinality(last) = Len(s)
      <3>1. CASE Len(s) = 0
        BY <3>1, <2>3, <2>7
      <3>2. CASE Len(s) > 0
        BY <3>2, <2>3, <2>7
      <3>3. QED
        BY <3>1, <3>2, <2>3
    <2> HIDE DEF last
    <2>9. /\ Cardinality(Younger(k, Window)) <= Cardinality(last)
          /\ IsFiniteSet(Younger(k, Window))
      BY <2>5, <2>7, FS_Subset DEF last
    <2>10. Cardinality(Younger(k, Window)) \in Nat /\ Limit \in Nat
      BY <2>9, FS_CardinalityType, LimiterAssumption
    <2>11. QED
      BY <2>3, <2>4, <2>8, <2>9, <2>10
  <1>2. LimiterInv => AttemptsBounded
    BY <1>1 DEF AttemptsBounded
  <1>3. QED
    BY <1>2, LimiterInvariance, PTL

\* A client is refused for attempts that were admitted, never for refused ones.
THEOREM RefusalsAreDue == Spec => RefusedOnlyAtLimit
  <1>1. ASSUME Inv, LimiterInv, NEW t \in Threads, Allow(t), pc'[t] = "idle"
        PROVE  Cardinality(Younger(work[t].key, Memory)) >= Limit
    <2> DEFINE key == work[t].key
               now == work[t].stamp
               kept == Trimmed(StampsOf(entries, key), now)
               r == recent[key]
    <2>1. key \in Keys /\ now \in 0..MaxDelay /\ r \in Ages
          /\ StampsOf(entries, key) \in Ages /\ Tracks(StampsOf(entries, key), r)
      BY <1>1, Asked
    <2>2. ~(Len(kept) < Limit)
      <3> SUFFICES ASSUME Len(kept) < Limit PROVE FALSE
        OBVIOUS
      <3>1. pc' = [pc EXCEPT ![t] = "reading"]
        BY <1>1, Zenon DEF Allow, Admits, Goto
      <3>2. QED
        BY <3>1, <1>1 DEF Inv, Types
    <2>3. /\ kept \in Ages /\ Tracks(kept, r)
          /\ \A j \in 1..Len(kept) : kept[j] < Memory
      BY <2>1, TrimmedTracks
    <2>4. Younger(key, Memory) = {j \in DOMAIN r : r[j] < Memory}
      BY DEF Younger
    <2> HIDE DEF kept, r
    <2>5. Len(kept) \in Nat /\ Len(r) \in Nat /\ DOMAIN r = 1..Len(r)
      BY <2>1, <2>3, LenProperties DEF Ages
    <2>6. /\ Len(kept) <= Len(r)
          /\ \A j \in 1..Len(kept) : kept[j] = r[Len(r) - Len(kept) + j]
      BY <2>3 DEF Tracks
    <2> DEFINE last == (Len(r) - Len(kept) + 1)..Len(r)
    <2>7. last \in SUBSET Younger(key, Memory)
      <3> SUFFICES ASSUME NEW j \in last PROVE j \in 1..Len(r) /\ r[j] < Memory
        BY <2>4, <2>5
      <3> DEFINE i == j - (Len(r) - Len(kept))
      <3>1. i \in 1..Len(kept) /\ Len(r) - Len(kept) + i = j /\ j \in 1..Len(r)
        BY <2>5, <2>6
      <3> HIDE DEF i
      <3>2. kept[i] = r[j] /\ kept[i] < Memory
        BY <3>1, <2>3, <2>6, Zenon
      <3>3. QED
        BY <3>1, <3>2
    <2>8. Len(r) - Len(kept) + 1 \in Int /\ Len(r) \in Int
      BY <2>5
    <2>9. /\ IsFiniteSet(last)
          /\ Cardinality(last) = IF Len(r) - Len(kept) + 1 > Len(r) THEN 0
                                 ELSE Len(r) - (Len(r) - Len(kept) + 1) + 1
      BY <2>8, FS_Interval
    <2>10. Cardinality(last) = Len(kept)
      <3>1. CASE Len(kept) = 0
        BY <3>1, <2>5, <2>9
      <3>2. CASE Len(kept) > 0
        BY <3>2, <2>5, <2>9
      <3>3. QED
        BY <3>1, <3>2, <2>5
    <2> HIDE DEF last
    <2>11. IsFiniteSet(Younger(key, Memory))
      <3>1. IsFiniteSet(1..Len(r))
        BY <2>8, FS_Interval
      <3>2. Younger(key, Memory) \in SUBSET (1..Len(r))
        BY <2>4, <2>5
      <3>3. QED
        BY <3>1, <3>2, FS_Subset
    <2>12. Cardinality(last) <= Cardinality(Younger(key, Memory))
      BY <2>7, <2>11, FS_Subset
    <2>13. Cardinality(Younger(key, Memory)) \in Nat /\ Limit \in Nat
      BY <2>11, FS_CardinalityType, LimiterAssumption
    <2>14. QED
      BY <2>2, <2>5, <2>10, <2>12, <2>13
  <1>2. Inv /\ LimiterInv => (\A t \in Threads : Allow(t) /\ pc'[t] = "idle" =>
                                Cardinality(Younger(work[t].key, Memory)) >= Limit)
    BY <1>1
  <1>3. QED
    BY <1>2, LimiterInvariance, PTL DEF RefusedOnlyAtLimit
=============================================================================
