----------------------- MODULE RefreshTriggersProofs ------------------------
(* Proofs about RefreshTriggers, for any tasks, mails and cool-downs.        *)
EXTENDS RefreshTriggers, FiniteSetTheorems, SequenceTheorems, TLAPS

-----------------------------------------------------------------------------
\* The mail watcher.

\* Where the watcher is; whether a mail is a risk does not matter here.
MailTypes ==
    /\ mailbox \in Seq(BOOLEAN)
    /\ stored \in 0..MaxUid \cup {NoUid}
    /\ mpc \in {"idle", "fetching", "handling", "asking", "refreshing"}
    /\ batch \subseteq Uids
    /\ asked \in 0..MaxUid
    /\ answered \in [Uids -> Nat]
    /\ excused \subseteq Uids
    /\ lastMail \in 0..MailAgeCap /\ mstamp \in 0..MailAgeCap
    /\ Len(mailbox) <= MaxUid

\* Fetched mails are newer than the stored UID, and those left out among them are
\* excused.
BatchIsAhead ==
    /\ stored # NoUid => stored <= Len(mailbox)
    /\ mpc \in {"idle", "fetching"} => batch = {}
    /\ mpc \in {"handling", "asking", "refreshing"} => stored # NoUid
    /\ \A u \in batch : stored < u /\ u <= Len(mailbox)
    /\ \A u \in batch : \A v \in (stored + 1)..u : v \in batch \/ v \in excused

\* Only mails up to the stored UID were answered, and the one it is about to answer
\* was not.
AnsweredBehind ==
    /\ \A u \in Uids : answered[u] > 0 => stored # NoUid /\ u <= stored
    /\ mpc = "asking" => asked = stored /\ asked \in Uids /\ answered[asked] = 0

\* MailNotForgotten, of any mail.
MailsAccounted ==
    \A u \in Uids :
        stored # NoUid /\ u <= stored =>
            answered[u] > 0 \/ u \in excused \/ (mpc = "asking" /\ asked = u)

MInv == MailTypes /\ BatchIsAhead /\ AnsweredBehind /\ MailsAccounted /\ MailAnsweredOnce

MNext ==
    \/ PollStep \/ Ask \/ MTick \/ MRestart
    \/ \E raised \in BOOLEAN : Answered(raised)

LEMMA NoUidIsNone == NoUid \notin 0..MaxUid /\ MaxUid \in Nat /\ MailAgeCap \in Nat
  BY MailAssumption

LEMMA MInitially == MInit => MInv
  <1> SUFFICES ASSUME MInit PROVE MInv
    OBVIOUS
  <1>1. mailbox \in Seq(BOOLEAN) /\ Len(mailbox) = 0
    BY DEF MInit
  <1>2. MailTypes
    BY <1>1, NoUidIsNone DEF MInit, MailTypes, Uids
  <1>3. BatchIsAhead /\ AnsweredBehind /\ MailsAccounted /\ MailAnsweredOnce
    BY NoUidIsNone DEF MInit, BatchIsAhead, AnsweredBehind, MailsAccounted, MailAnsweredOnce, Uids
  <1>4. QED
    BY <1>2, <1>3 DEF MInv

LEMMA ArriveKeeps ==
  ASSUME MInv, NEW risk \in BOOLEAN, Arrive(risk)
  PROVE  MInv'
  <1>1. mailbox' \in Seq(BOOLEAN) /\ Len(mailbox') = Len(mailbox) + 1 /\ Len(mailbox) \in Nat
    BY DEF Arrive, MInv, MailTypes
  <1>2. QED
    BY <1>1, NoUidIsNone
       DEF Arrive, MInv, MailTypes, BatchIsAhead, AnsweredBehind, MailsAccounted,
           MailAnsweredOnce, Uids

LEMMA FirstFetchKeeps ==
  ASSUME MInv, NEW newest \in 0..MaxUid, FirstFetch(newest)
  PROVE  MInv'
  BY NoUidIsNone
     DEF FirstFetch, MInv, MailTypes, BatchIsAhead, AnsweredBehind, MailsAccounted,
         MailAnsweredOnce, Uids

LEMMA FetchKeeps ==
  ASSUME MInv, NEW failed \in SUBSET Uids, Fetch(failed)
  PROVE  MInv'
  <1> DEFINE newer == (stored + 1)..Len(mailbox)
  <1>1. /\ stored \in 0..MaxUid /\ stored # NoUid /\ stored <= Len(mailbox)
        /\ Len(mailbox) \in 0..MaxUid /\ mpc = "fetching" /\ mpc' = "handling"
        /\ batch' = newer \ failed
        /\ excused' = (excused \ batch') \cup (newer \cap failed)
        /\ UNCHANGED <<mailbox, stored, asked, lastMail, mstamp, answered>>
    BY DEF Fetch, MInv, MailTypes, BatchIsAhead
  <1>2. newer \subseteq Uids /\ \A u \in newer : u \in Nat /\ stored < u /\ u <= Len(mailbox)
    BY <1>1, NoUidIsNone DEF Uids
  <1>3. batch' \subseteq Uids /\ excused' \subseteq Uids
    BY <1>1, <1>2 DEF MInv, MailTypes
  <1>4. MailTypes'
    BY <1>1, <1>3 DEF MInv, MailTypes
  <1>5. \A u \in batch' : \A v \in (stored + 1)..u : v \in newer
    BY <1>1, <1>2
  <1>6. BatchIsAhead'
    BY <1>1, <1>2, <1>5 DEF BatchIsAhead
  <1>7. AnsweredBehind' /\ MailAnsweredOnce'
    BY <1>1 DEF MInv, AnsweredBehind, MailAnsweredOnce
  <1>8. MailsAccounted'
    <2> SUFFICES ASSUME NEW u \in Uids, u <= stored
                 PROVE  answered[u] > 0 \/ u \in excused'
      BY <1>1 DEF MailsAccounted
    <2>1. answered[u] > 0 \/ u \in excused
      BY <1>1 DEF MInv, MailsAccounted
    <2>2. u \notin batch'
      BY <1>1, <1>2 DEF Uids
    <2>3. QED
      BY <1>1, <2>1, <2>2
  <1>9. QED
    BY <1>4, <1>6, <1>7, <1>8 DEF MInv

LEMMA HandleKeeps ==
  ASSUME MInv, NEW u \in Uids, Handle(u)
  PROVE  MInv'
  <1>1. /\ u \in batch /\ \A v \in batch : u <= v
        /\ batch' = batch \ {u} /\ stored' = u /\ asked' = u /\ mpc = "handling"
        /\ UNCHANGED <<mailbox, lastMail, answered>>
    BY DEF Handle
  <1>2. \/ mpc' = "asking" /\ mstamp' = 0 /\ excused' = excused
        \/ mpc' = mpc /\ mstamp' = mstamp /\ excused' = excused \cup {u}
    BY Zenon DEF Handle
  <1>3. /\ stored \in 0..MaxUid /\ stored # NoUid /\ stored < u /\ u <= Len(mailbox)
        /\ u \in 0..MaxUid /\ u # NoUid /\ Len(mailbox) \in Nat
    BY <1>1, NoUidIsNone DEF MInv, MailTypes, BatchIsAhead, Uids
  <1>4. MailTypes'
    <2>1. excused' \subseteq Uids /\ batch' \subseteq Uids
      BY <1>1, <1>2 DEF MInv, MailTypes
    <2>2. mpc' \in {"handling", "asking"} /\ mstamp' \in 0..MailAgeCap
      BY <1>1, <1>2, NoUidIsNone DEF MInv, MailTypes
    <2>3. QED
      BY <1>1, <1>3, <2>1, <2>2 DEF MInv, MailTypes
  <1>5. BatchIsAhead'
    <2>1. \A v \in batch' : u < v /\ v <= Len(mailbox)
      BY <1>1, <1>3 DEF MInv, MailTypes, BatchIsAhead, Uids
    <2>2. ASSUME NEW v \in batch', NEW w \in (u + 1)..v PROVE w \in batch' \/ w \in excused'
      <3>1. v \in batch /\ v \in Nat /\ w \in (stored + 1)..v /\ w # u
        BY <1>1, <1>3, <2>1 DEF MInv, MailTypes, Uids
      <3>2. w \in batch \/ w \in excused
        BY <3>1 DEF MInv, BatchIsAhead
      <3>3. QED
        BY <1>1, <1>2, <3>1, <3>2
    <2>3. QED
      BY <1>1, <1>2, <1>3, <2>1, <2>2 DEF BatchIsAhead
  <1>6. \A v \in Uids : answered[v] > 0 => v <= stored /\ v < u
    BY <1>3 DEF MInv, AnsweredBehind, Uids
  <1>7. AnsweredBehind' /\ MailAnsweredOnce'
    BY <1>1, <1>2, <1>3, <1>6 DEF MInv, MailTypes, AnsweredBehind, MailAnsweredOnce, Uids
  <1>8. MailsAccounted'
    <2> SUFFICES ASSUME NEW v \in Uids, v <= u
                 PROVE  answered[v] > 0 \/ v \in excused' \/ (mpc' = "asking" /\ u = v)
      BY <1>1 DEF MailsAccounted
    <2>1. CASE v <= stored
      BY <1>1, <1>2, <1>3, <2>1 DEF MInv, MailsAccounted
    <2>2. CASE v = u
      BY <1>2, <2>2
    <2>3. CASE stored < v /\ v # u
      <3>1. v \in (stored + 1)..u
        BY <1>3, <2>3 DEF Uids
      <3>2. v \notin batch
        BY <1>1, <2>3 DEF Uids
      <3>3. QED
        BY <1>1, <1>2, <3>1, <3>2 DEF MInv, BatchIsAhead
    <2>4. QED
      BY <1>3, <2>1, <2>2, <2>3 DEF Uids
  <1>9. QED
    BY <1>4, <1>5, <1>7, <1>8 DEF MInv

LEMMA AskKeeps ==
  ASSUME MInv, Ask
  PROVE  MInv'
  BY NoUidIsNone
     DEF Ask, MInv, MailTypes, BatchIsAhead, AnsweredBehind, MailsAccounted,
         MailAnsweredOnce, Uids

LEMMA PollKeeps ==
  ASSUME MInv, Poll \/ PollFails \/ PollEnds
  PROVE  MInv'
  <1>1. CASE Poll \/ PollEnds
    BY <1>1, NoUidIsNone
       DEF Poll, PollEnds, MInv, MailTypes, BatchIsAhead, AnsweredBehind, MailsAccounted,
           MailAnsweredOnce
  <1>2. CASE PollFails
    BY <1>2, NoUidIsNone
       DEF PollFails, MInv, MailTypes, BatchIsAhead, AnsweredBehind, MailsAccounted,
           MailAnsweredOnce
  <1>3. QED
    BY <1>1, <1>2

LEMMA MTickKeeps ==
  ASSUME MInv, MTick
  PROVE  MInv'
  <1>1. lastMail' \in 0..MailAgeCap /\ mstamp' \in 0..MailAgeCap
    BY NoUidIsNone DEF MTick, MailOlder, MInv, MailTypes
  <1>2. UNCHANGED <<mailbox, stored, mpc, batch, asked, answered, excused>>
    BY DEF MTick
  <1>3. QED
    BY <1>1, <1>2
       DEF MInv, MailTypes, BatchIsAhead, AnsweredBehind, MailsAccounted, MailAnsweredOnce

LEMMA MRestartKeeps ==
  ASSUME MInv, MRestart
  PROVE  MInv'
  <1>1. /\ mpc' = "idle" /\ batch' = {} /\ lastMail' = MailAgeCap
        /\ UNCHANGED <<mailbox, stored, asked, mstamp, answered>>
        /\ excused' = IF mpc = "asking" THEN excused \cup {asked} ELSE excused
    BY DEF MRestart
  <1>2. MailTypes'
    BY <1>1, NoUidIsNone DEF MInv, MailTypes, AnsweredBehind
  <1>3. BatchIsAhead' /\ AnsweredBehind' /\ MailAnsweredOnce'
    BY <1>1 DEF MInv, BatchIsAhead, AnsweredBehind, MailAnsweredOnce
  <1>4. MailsAccounted'
    BY <1>1 DEF MInv, MailsAccounted
  <1>5. QED
    BY <1>2, <1>3, <1>4 DEF MInv

LEMMA AnsweredKeeps ==
  ASSUME MInv, NEW raised \in BOOLEAN, Answered(raised)
  PROVE  MInv'
  BY NoUidIsNone
     DEF Answered, MInv, MailTypes, BatchIsAhead,
         AnsweredBehind, MailsAccounted, MailAnsweredOnce, Uids

LEMMA MStepKeepsInv == MInv /\ [MNext]_mvars => MInv'
  <1> SUFFICES ASSUME MInv, [MNext]_mvars PROVE MInv'
    OBVIOUS
  <1>1. CASE UNCHANGED mvars
    BY <1>1 DEF mvars, MInv, MailTypes, BatchIsAhead, AnsweredBehind, MailsAccounted,
                MailAnsweredOnce
  <1>2. QED
    BY <1>1, ArriveKeeps, FirstFetchKeeps, FetchKeeps, HandleKeeps, AskKeeps, PollKeeps,
       MTickKeeps, MRestartKeeps, AnsweredKeeps
       DEF MNext, PollStep

-----------------------------------------------------------------------------
\* Health checks and refreshes.

Frames == {"health", "refresh", "auto"}

\* Health checks and refreshes take turns, and at most one of the refreshes, never
\* the first call, is an auto refresh.
Nested(s) ==
    /\ s \in Seq(Frames)
    /\ \A i \in 2..Len(s) : s[i] = IF s[i - 1] = "health" THEN "auto" ELSE "health"
    /\ \A i, j \in 1..Len(s) : s[i] = "auto" /\ s[j] = "auto" => i = j
    /\ Len(s) > 0 => s[1] # "auto"

HasAuto(s) == \E i \in 1..Len(s) : s[i] = "auto"

\* A call is added: the first, by the hook, or by a health check.
LEMMA FirstCall ==
  ASSUME NEW x \in {"health", "refresh"}
  PROVE  /\ Nested(Append(<<>>, x)) /\ ~HasAuto(Append(<<>>, x))
         /\ Len(Append(<<>>, x)) = 1 /\ Append(<<>>, x)[1] = x
  <1>1. <<>> \in Seq(Frames) /\ Len(<<>>) = 0 /\ x \in Frames
    BY DEF Frames
  <1>2. /\ Append(<<>>, x) \in Seq(Frames) /\ Len(Append(<<>>, x)) = 1
        /\ Append(<<>>, x)[1] = x
    BY <1>1, AppendProperties
  <1>3. QED
    BY <1>2 DEF Nested, HasAuto

LEMMA HookCall ==
  ASSUME NEW s, Nested(s), Len(s) > 0, s[Len(s)] # "health"
  PROVE  LET longer == Append(s, "health")
         IN  /\ Nested(longer) /\ (HasAuto(longer) <=> HasAuto(s))
             /\ Len(longer) > 0 /\ longer[Len(longer)] = "health"
  <1> DEFINE longer == Append(s, "health")
  <1>1. s \in Seq(Frames) /\ "health" \in Frames /\ Len(s) \in Nat
    BY DEF Nested, Frames
  <1>2. /\ longer \in Seq(Frames) /\ Len(longer) = Len(s) + 1
        /\ \A i \in 1..Len(s) : longer[i] = s[i]
        /\ longer[Len(s) + 1] = "health"
    BY <1>1, AppendProperties
  <1> HIDE DEF longer
  <1>3. Nested(longer)
    BY <1>1, <1>2 DEF Nested
  <1>4. HasAuto(longer) <=> HasAuto(s)
    BY <1>1, <1>2 DEF HasAuto
  <1>5. QED
    BY <1>1, <1>2, <1>3, <1>4 DEF longer

LEMMA AutoCall ==
  ASSUME NEW s, Nested(s), Len(s) > 0, s[Len(s)] = "health", ~HasAuto(s)
  PROVE  LET longer == Append(s, "auto")
         IN  /\ Nested(longer) /\ HasAuto(longer)
             /\ Len(longer) > 0 /\ longer[Len(longer)] = "auto"
  <1> DEFINE longer == Append(s, "auto")
  <1>1. s \in Seq(Frames) /\ "auto" \in Frames /\ Len(s) \in Nat
    BY DEF Nested, Frames
  <1>2. /\ longer \in Seq(Frames) /\ Len(longer) = Len(s) + 1
        /\ \A i \in 1..Len(s) : longer[i] = s[i] /\ s[i] # "auto"
        /\ longer[Len(s) + 1] = "auto"
    BY <1>1, AppendProperties DEF HasAuto
  <1> HIDE DEF longer
  <1>3. Nested(longer)
    BY <1>1, <1>2 DEF Nested
  <1>4. HasAuto(longer)
    BY <1>1, <1>2 DEF HasAuto
  <1>5. QED
    BY <1>1, <1>2, <1>3, <1>4 DEF longer

\* The call on top returns.
LEMMA CallReturns ==
  ASSUME NEW s, Nested(s), Len(s) > 0
  PROVE  LET rest == SubSeq(s, 1, Len(s) - 1)
         IN  /\ Nested(rest) /\ Len(rest) = Len(s) - 1
             /\ \A i \in 1..Len(rest) : rest[i] = s[i]
             /\ s[Len(s)] = "auto" => HasAuto(s) /\ ~HasAuto(rest)
             /\ s[Len(s)] # "auto" => (HasAuto(rest) <=> HasAuto(s))
  <1> DEFINE rest == SubSeq(s, 1, Len(s) - 1)
  <1>1. s \in Seq(Frames) /\ Len(s) \in Nat
    BY DEF Nested
  <1>2. /\ rest \in Seq(Frames) /\ Len(rest) = Len(s) - 1
        /\ \A i \in 1..Len(rest) : rest[i] = s[i]
    <2>1. /\ 1 \in 1..Len(s) + 1 /\ Len(s) - 1 \in 0..Len(s)
      BY <1>1
    <2>2. /\ rest \in Seq(Frames)
          /\ Len(rest) = IF 1 <= Len(s) - 1 THEN (Len(s) - 1) - 1 + 1 ELSE 0
          /\ \A i \in 1..((Len(s) - 1) - 1 + 1) : rest[i] = s[1 + i - 1]
      BY <1>1, <2>1, SubSeqProperties
    <2> HIDE DEF rest
    <2>3. Len(rest) = Len(s) - 1
      <3>1. \A n \in Nat : n > 0 => (IF 1 <= n - 1 THEN (n - 1) - 1 + 1 ELSE 0) = n - 1
        OBVIOUS
      <3>2. QED
        BY <1>1, <2>2, <3>1, Zenon
    <2>4. ASSUME NEW i \in 1..Len(rest) PROVE rest[i] = s[i]
      <3>1. i \in 1..((Len(s) - 1) - 1 + 1) /\ 1 + i - 1 = i
        BY <1>1, <2>3
      <3>2. rest[i] = s[1 + i - 1]
        BY <2>2, <3>1
      <3>3. QED
        BY <3>1, <3>2
    <2>5. QED
      BY <2>2, <2>3, <2>4
  <1> HIDE DEF rest
  <1>3. Nested(rest)
    BY <1>1, <1>2 DEF Nested
  <1>4. s[Len(s)] = "auto" => HasAuto(s) /\ ~HasAuto(rest)
    BY <1>1, <1>2 DEF Nested, HasAuto
  <1>5. s[Len(s)] # "auto" => (HasAuto(rest) <=> HasAuto(s))
    BY <1>1, <1>2 DEF HasAuto
  <1>6. QED
    BY <1>2, <1>3, <1>4, <1>5 DEF rest

\* Calls nest at most four deep.
LEMMA Depth ==
  ASSUME NEW s, Nested(s)
  PROVE  Len(s) <= 4
  <1> SUFFICES ASSUME Len(s) > 4 PROVE FALSE
    BY DEF Nested
  <1>1. /\ Len(s) \in Nat /\ 1 \in 1..Len(s)
        /\ 2 \in 2..Len(s) /\ 3 \in 2..Len(s) /\ 4 \in 2..Len(s) /\ 5 \in 2..Len(s)
    BY DEF Nested
  <1>2. /\ s[2] = IF s[1] = "health" THEN "auto" ELSE "health"
        /\ s[3] = IF s[2] = "health" THEN "auto" ELSE "health"
        /\ s[4] = IF s[3] = "health" THEN "auto" ELSE "health"
        /\ s[5] = IF s[4] = "health" THEN "auto" ELSE "health"
    BY <1>1 DEF Nested
  <1>3. (s[2] = "auto" /\ s[4] = "auto") \/ (s[3] = "auto" /\ s[5] = "auto")
    BY <1>2
  <1>4. QED
    BY <1>1, <1>3 DEF Nested

\* A task's place fits the call on top of its stack.
Places == {"idle", "refreshing", "outbound", "queued", "probing", "returning", "raising"}

FitsOn(place, s) ==
    /\ place = "idle" <=> Len(s) = 0
    /\ place \in {"outbound", "queued", "probing"} => s[Len(s)] = "health"
    /\ place = "refreshing" => s[Len(s)] # "health"

\* The flag is set while an auto refresh is on the one stack that has one.
Calls ==
    /\ stack \in [Tasks -> Seq(Frames)] /\ pc \in [Tasks -> Places]
    /\ inFlight \in BOOLEAN
    /\ \A t \in Tasks : Nested(stack[t]) /\ FitsOn(pc[t], stack[t])
    /\ \A t, u \in Tasks : HasAuto(stack[t]) /\ HasAuto(stack[u]) => t = u
    /\ inFlight <=> \E t \in Tasks : HasAuto(stack[t])

\* A call begins or ends, and with it perhaps an auto refresh.
LEMMA StackStep ==
  ASSUME Calls, NEW t \in Tasks, NEW s, Nested(s), NEW place \in Places, FitsOn(place, s),
         stack' = [stack EXCEPT ![t] = s], pc' = [pc EXCEPT ![t] = place],
         \/ (inFlight' <=> inFlight) /\ (HasAuto(s) <=> HasAuto(stack[t]))
         \/ ~inFlight /\ inFlight' /\ HasAuto(s)
         \/ HasAuto(stack[t]) /\ ~inFlight' /\ ~HasAuto(s),
         inFlight' \in BOOLEAN
  PROVE  Calls'
  <1>1. s \in Seq(Frames)
    BY DEF Nested
  <1>2. stack' \in [Tasks -> Seq(Frames)] /\ pc' \in [Tasks -> Places]
    BY <1>1 DEF Calls
  <1>3. /\ stack'[t] = s /\ pc'[t] = place
        /\ \A u \in Tasks \ {t} : stack'[u] = stack[u] /\ pc'[u] = pc[u]
    BY DEF Calls
  <1>4. \A u \in Tasks : Nested(stack'[u]) /\ FitsOn(pc'[u], stack'[u])
    BY <1>3, Zenon DEF Calls
  <1>5. \A u, v \in Tasks : HasAuto(stack'[u]) /\ HasAuto(stack'[v]) => u = v
    BY <1>3, Zenon DEF Calls
  <1>6. inFlight' <=> \E u \in Tasks : HasAuto(stack'[u])
    BY <1>3, Zenon DEF Calls
  <1>7. QED
    BY <1>2, <1>4, <1>5, <1>6, Zenon DEF Calls, Nested, HasAuto, FitsOn

LEMMA GotoStep ==
  ASSUME Calls, NEW t \in Tasks, NEW place \in Places, FitsOn(place, stack[t]),
         Goto(t, place), (inFlight' <=> inFlight), inFlight' \in BOOLEAN
  PROVE  Calls'
  <1>1. stack' = [stack EXCEPT ![t] = stack[t]] /\ pc' = [pc EXCEPT ![t] = place]
    BY DEF Goto, Calls
  <1>2. Nested(stack[t])
    BY Zenon DEF Calls
  <1>3. QED
    BY <1>1, <1>2, StackStep, Zenon

\* On top of the stack, where a task is.
LEMMA OnTop ==
  ASSUME Calls, NEW t \in Tasks
  PROVE  /\ stack[t] \in Seq(Frames) /\ Nested(stack[t]) /\ Len(stack[t]) \in Nat
         /\ pc[t] = "idle" => stack[t] = <<>>
         /\ pc[t] # "idle" => Len(stack[t]) > 0
         /\ pc[t] \in {"outbound", "queued", "probing"} => stack[t][Len(stack[t])] = "health"
         /\ pc[t] = "refreshing" => stack[t][Len(stack[t])] # "health"
  <1>1. stack[t] \in Seq(Frames) /\ Nested(stack[t]) /\ FitsOn(pc[t], stack[t])
    BY Zenon DEF Calls, Nested
  <1>2. Len(stack[t]) \in Nat
    BY <1>1
  <1>3. stack[t] # <<>> => Len(stack[t]) \in Nat \ {0}
    BY <1>1, EmptySeq
  <1>4. QED
    BY <1>1, <1>2, <1>3 DEF FitsOn

LEMMA JudgeCalls ==
  ASSUME Calls, NEW t \in Tasks, pc[t] \in {"outbound", "probing"}, NEW degraded \in BOOLEAN,
         Judge(t, degraded)
  PROVE  Calls'
  <1>1. CASE degraded /\ ~inFlight /\ lastAuto >= Cooldown
    <2> DEFINE longer == Append(stack[t], "auto")
    <2>1. /\ stack' = [stack EXCEPT ![t] = longer]
          /\ pc' = [pc EXCEPT ![t] = "refreshing"]
      BY <1>1 DEF Judge, BeginAutoRefresh, Enter, Calls
    <2>2. ~inFlight /\ inFlight' /\ inFlight' \in BOOLEAN
      BY <1>1, Zenon DEF Judge, BeginAutoRefresh
    <2>3. ~HasAuto(stack[t])
      BY <2>2, Zenon DEF Calls
    <2>4. /\ Nested(longer) /\ HasAuto(longer)
          /\ Len(longer) > 0 /\ longer[Len(longer)] = "auto"
      BY <2>3, OnTop, AutoCall
    <2>5. FitsOn("refreshing", longer) /\ "refreshing" \in Places
      BY <2>4 DEF FitsOn, Places
    <2> HIDE DEF longer
    <2>6. QED
      BY <2>1, <2>2, <2>4, <2>5, StackStep, Zenon
  <1>2. CASE ~(degraded /\ ~inFlight /\ lastAuto >= Cooldown)
    <2>1. Goto(t, "returning") /\ (inFlight' <=> inFlight)
      BY <1>2, Zenon DEF Judge, BeginAutoRefresh
    <2>2. FitsOn("returning", stack[t]) /\ "returning" \in Places
      BY OnTop DEF FitsOn, Places
    <2>3. inFlight' \in BOOLEAN
      BY <1>2, Zenon DEF Judge, BeginAutoRefresh, Calls
    <2>4. QED
      BY <2>1, <2>2, <2>3, GotoStep
  <1>3. QED
    BY <1>1, <1>2

LEMMA ProceedCalls ==
  ASSUME Calls, NEW t \in Tasks, Proceed(t)
  PROVE  Calls'
  <1>1. ASSUME NEW degraded \in BOOLEAN, OutboundDone(t, degraded) \/ EndProbes(t, degraded)
        PROVE  Calls'
    BY <1>1, JudgeCalls DEF OutboundDone, EndProbes
  <1>2. CASE OutboundFailed(t) \/ StartProbes(t) \/ ProbesFailed(t)
    <2>1. /\ (inFlight' <=> inFlight) /\ pc[t] \in {"outbound", "queued", "probing"}
          /\ \/ Goto(t, "queued") \/ Goto(t, "probing") \/ Goto(t, "returning")
      BY <1>2 DEF OutboundFailed, StartProbes, ProbesFailed
    <2>2. inFlight' \in BOOLEAN
      BY <1>2, Zenon DEF OutboundFailed, StartProbes, ProbesFailed, Calls
    <2>3. \A place \in {"queued", "probing", "returning"} :
            place \in Places /\ FitsOn(place, stack[t])
      BY <2>1, OnTop DEF Places, FitsOn
    <2>4. QED
      BY <2>1, <2>2, <2>3, GotoStep
  <1>3. ASSUME NEW outcome \in {"announced", "quiet", "raised"}, RefreshDone(t, outcome)
        PROVE  Calls'
    <2>1. pc[t] = "refreshing" /\ (inFlight' <=> inFlight) /\ inFlight' \in BOOLEAN
      BY <1>3, Zenon DEF RefreshDone, Calls
    <2>2. CASE outcome = "announced"
      <3> DEFINE longer == Append(stack[t], "health")
      <3>1. /\ stack' = [stack EXCEPT ![t] = longer]
            /\ pc' = [pc EXCEPT ![t] = "outbound"]
        BY <1>3, <2>2 DEF RefreshDone, Enter, Calls
      <3>2. /\ Nested(longer) /\ (HasAuto(longer) <=> HasAuto(stack[t]))
            /\ Len(longer) > 0 /\ longer[Len(longer)] = "health"
        BY <2>1, OnTop, HookCall
      <3>3. FitsOn("outbound", longer) /\ "outbound" \in Places
        BY <3>2 DEF FitsOn, Places
      <3> HIDE DEF longer
      <3>4. QED
        BY <2>1, <3>1, <3>2, <3>3, StackStep, Zenon
    <2>3. CASE outcome # "announced"
      <3>1. Goto(t, "raising") \/ Goto(t, "returning")
        BY <1>3, <2>3 DEF RefreshDone
      <3>2. \A place \in {"raising", "returning"} : place \in Places /\ FitsOn(place, stack[t])
        BY <2>1, OnTop DEF Places, FitsOn
      <3>3. QED
        BY <2>1, <3>1, <3>2, GotoStep
    <2>4. QED
      BY <2>2, <2>3
  <1>4. QED
    BY <1>1, <1>2, <1>3 DEF Proceed

LEMMA CallCalls ==
  ASSUME Calls, NEW t \in Tasks, CallHealth(t) \/ CallRefresh(t)
  PROVE  Calls'
  <1>1. (inFlight' <=> inFlight) /\ inFlight' \in BOOLEAN /\ pc[t] = "idle"
    <2>1. inFlight' = inFlight /\ pc[t] = "idle"
      BY DEF CallHealth, CallRefresh
    <2>2. QED
      BY <2>1, Zenon DEF Calls
  <1>2. PICK x \in {"health", "refresh"} :
          /\ stack' = [stack EXCEPT ![t] = Append(stack[t], x)]
          /\ pc' = [pc EXCEPT ![t] = IF x = "health" THEN "outbound" ELSE "refreshing"]
    BY DEF CallHealth, CallRefresh, Enter, Calls
  <1>3. stack[t] = <<>> /\ ~HasAuto(stack[t])
    BY <1>1, OnTop DEF HasAuto
  <1> DEFINE longer == Append(stack[t], x)
             place == IF x = "health" THEN "outbound" ELSE "refreshing"
  <1>4. Nested(longer) /\ ~HasAuto(longer) /\ Len(longer) = 1 /\ longer[1] = x
    BY <1>3, FirstCall
  <1>5. FitsOn(place, longer) /\ place \in Places
    BY <1>4 DEF FitsOn, Places
  <1>6. stack' = [stack EXCEPT ![t] = longer] /\ pc' = [pc EXCEPT ![t] = place]
    BY <1>2
  <1> HIDE DEF longer, place
  <1>7. QED
    BY <1>1, <1>3, <1>4, <1>5, <1>6, StackStep, Zenon

LEMMA ReturnCalls ==
  ASSUME Calls, NEW t \in Tasks, Return(t)
  PROVE  Calls'
  <1> DEFINE rest == SubSeq(stack[t], 1, Len(stack[t]) - 1)
             place == IF rest = <<>> THEN "idle" ELSE "returning"
  <1>1. pc[t] \in {"returning", "raising"}
    BY DEF Return
  <1>2. /\ stack' = [stack EXCEPT ![t] = rest] /\ pc' = [pc EXCEPT ![t] = place]
    BY DEF Return
  <1>3. /\ stack[t][Len(stack[t])] = "auto" => ~inFlight'
        /\ stack[t][Len(stack[t])] # "auto" => (inFlight' <=> inFlight)
    <2>1. IF stack[t][Len(stack[t])] = "auto"
          THEN inFlight' = FALSE /\ lastAuto' = 0 ELSE UNCHANGED <<inFlight, lastAuto>>
      BY Zenon DEF Return, Top
    <2>2. QED
      BY <2>1, Zenon
  <1>4. inFlight' \in BOOLEAN
    BY Zenon DEF Return, Calls
  <1>5. /\ Nested(rest) /\ Len(rest) = Len(stack[t]) - 1
        /\ stack[t][Len(stack[t])] = "auto" => HasAuto(stack[t]) /\ ~HasAuto(rest)
        /\ stack[t][Len(stack[t])] # "auto" => (HasAuto(rest) <=> HasAuto(stack[t]))
    BY <1>1, OnTop, CallReturns
  <1> HIDE DEF rest
  <1>6. rest # <<>> => Len(rest) \in Nat \ {0}
    BY <1>5, EmptySeq DEF Nested
  <1>7. FitsOn(place, rest) /\ place \in Places
    BY <1>6 DEF FitsOn, Places
  <1> HIDE DEF place
  <1>8. QED
    BY <1>2, <1>3, <1>4, <1>5, <1>7, StackStep, Zenon

\* The steps of health checks and refreshes.
TaskStep(t) == CallHealth(t) \/ CallRefresh(t) \/ Return(t) \/ Proceed(t)

INext == (\E t \in Tasks : TaskStep(t)) \/ ITick \/ IRestart

\* The ages, and who is older than whom: the end of the last auto refresh is not
\* older than its beginning, in the process that saw both; handshakes under way began after the last ones ended.
TimeTypes ==
    /\ stamp \in [Tasks -> 0..AgeCap]
    /\ lastAuto \in 0..AgeCap
    /\ begun \in 0..AgeCap /\ beginner \in {"running", "gone"}
    /\ rows \in [age: 0..AgeCap, by: {"nobody", "outbound", "handshake"}]

EndsAfterBeginning == ~inFlight => lastAuto <= begun \/ beginner = "gone"

ProbesAreNewer ==
    \A t \in Tasks : pc[t] = "probing" /\ rows.by # "outbound" => stamp[t] <= rows.age

IInv ==
    /\ Calls
    /\ runLock \in Tasks \cup {None} /\ RunLockFreeOutside
    /\ TimeTypes /\ EndsAfterBeginning /\ ProbesAreNewer

LEMMA IBounds == Cooldown \in Nat /\ AgeCap \in Nat /\ None \notin Tasks
  BY IntegrationAssumption

LEMMA IInitially == IInit => IInv
  <1> SUFFICES ASSUME IInit PROVE IInv
    OBVIOUS
  <1>1. /\ <<>> \in Seq(Frames) /\ Len(<<>>) = 0
    OBVIOUS
  <1>2. Nested(<<>>) /\ ~HasAuto(<<>>) /\ FitsOn("idle", <<>>) /\ "idle" \in Places
    BY <1>1 DEF Nested, HasAuto, FitsOn, Places
  <1>3. \A t \in Tasks : stack[t] = <<>> /\ pc[t] = "idle"
    BY DEF IInit
  <1>4. stack \in [Tasks -> Seq(Frames)] /\ pc \in [Tasks -> Places]
    BY <1>1, <1>2 DEF IInit
  <1>5. ~inFlight /\ inFlight \in BOOLEAN
    BY Zenon DEF IInit
  <1>6. Calls
    BY <1>2, <1>3, <1>4, <1>5, Zenon DEF Calls
  <1>7. runLock \in Tasks \cup {None} /\ RunLockFreeOutside
    BY IBounds DEF IInit, RunLockFreeOutside
  <1>8. TimeTypes /\ begun = AgeCap
    BY IBounds DEF IInit, TimeTypes
  <1>9. EndsAfterBeginning /\ ProbesAreNewer
    BY <1>3, <1>8, IBounds DEF TimeTypes, EndsAfterBeginning, ProbesAreNewer
  <1>10. QED
    BY <1>6, <1>7, <1>8, <1>9 DEF IInv

\* What a step of a task does to the places.
LEMMA OnePlace ==
  ASSUME Calls, NEW t \in Tasks, TaskStep(t)
  PROVE  \A u \in Tasks \ {t} : pc'[u] = pc[u]
  BY Zenon DEF TaskStep, CallHealth, CallRefresh, Return, Proceed, OutboundDone, OutboundFailed,
         StartProbes, EndProbes, ProbesFailed, RefreshDone, Judge, BeginAutoRefresh, Enter, Goto, Calls

\* A task begins handshakes with the lock, ends them and gives it back, or does
\* something else.
LEMMA ProbingSteps ==
  ASSUME Calls, NEW t \in Tasks, TaskStep(t)
  PROVE  \/ /\ pc[t] # "probing" /\ pc'[t] = "probing" /\ runLock = None /\ runLock' = t
            /\ stamp' = [stamp EXCEPT ![t] = 0] /\ rows' = rows
         \/ /\ pc[t] = "probing" /\ pc'[t] # "probing" /\ runLock' = None
            /\ stamp' = stamp
            /\ rows' = rows \/ rows' = [age |-> stamp[t], by |-> "handshake"]
         \/ /\ pc[t] # "probing" /\ pc'[t] # "probing" /\ runLock' = runLock
            /\ stamp' = stamp
            /\ rows' = rows \/ rows' = [age |-> 0, by |-> "outbound"]
  <1>1. \A place : pc' = [pc EXCEPT ![t] = place] => pc'[t] = place
    BY DEF Calls
  <1>2. CASE CallHealth(t) \/ CallRefresh(t)
    BY <1>1, <1>2 DEF CallHealth, CallRefresh, Enter
  <1>3. CASE Return(t)
    <2>1. pc'[t] \in {"idle", "returning"}
      BY <1>1, <1>3 DEF Return
    <2>2. QED
      BY <1>3, <2>1 DEF Return
  <1>4. CASE StartProbes(t)
    BY <1>1, <1>4 DEF StartProbes, Goto
  <1>5. CASE ProbesFailed(t)
    BY <1>1, <1>5 DEF ProbesFailed, Goto
  <1>6. CASE OutboundFailed(t)
    BY <1>1, <1>6 DEF OutboundFailed, Goto
  <1>7. ASSUME NEW degraded \in BOOLEAN, Judge(t, degraded)
        PROVE  pc'[t] \in {"refreshing", "returning"}
    BY <1>1, <1>7 DEF Judge, BeginAutoRefresh, Enter, Goto
  <1>8. ASSUME NEW degraded \in BOOLEAN, OutboundDone(t, degraded)
        PROVE  /\ pc[t] # "probing" /\ pc'[t] # "probing" /\ runLock' = runLock
               /\ stamp' = stamp /\ rows' = [age |-> 0, by |-> "outbound"]
    BY <1>7, <1>8 DEF OutboundDone
  <1>9. ASSUME NEW degraded \in BOOLEAN, EndProbes(t, degraded)
        PROVE  /\ pc[t] = "probing" /\ pc'[t] # "probing" /\ runLock' = None
               /\ stamp' = stamp /\ rows' = [age |-> stamp[t], by |-> "handshake"]
    BY <1>7, <1>9 DEF EndProbes
  <1>10. ASSUME NEW outcome \in {"announced", "quiet", "raised"}, RefreshDone(t, outcome)
         PROVE  /\ pc[t] # "probing" /\ pc'[t] # "probing" /\ runLock' = runLock
                /\ stamp' = stamp /\ rows' = rows
    <2>1. pc'[t] \in {"outbound", "raising", "returning"}
      BY <1>1, <1>10 DEF RefreshDone, Enter, Goto
    <2>2. QED
      BY <1>10, <2>1 DEF RefreshDone
  <1>11. QED
    BY <1>2, <1>3, <1>4, <1>5, <1>6, <1>8, <1>9, <1>10 DEF TaskStep, Proceed

LEMMA LockStep ==
  ASSUME IInv, NEW t \in Tasks, TaskStep(t)
  PROVE  runLock' \in Tasks \cup {None} /\ RunLockFreeOutside'
  <1>1. \A u \in Tasks \ {t} : pc'[u] = pc[u]
    BY OnePlace DEF IInv
  <1>2. \A u \in Tasks : runLock = u <=> pc[u] = "probing"
    BY DEF IInv, RunLockFreeOutside
  <1>3. \/ pc[t] # "probing" /\ pc'[t] = "probing" /\ runLock = None /\ runLock' = t
        \/ pc[t] = "probing" /\ pc'[t] # "probing" /\ runLock' = None
        \/ pc[t] # "probing" /\ pc'[t] # "probing" /\ runLock' = runLock
    BY ProbingSteps DEF IInv
  <1>4. \A u \in Tasks : runLock' = u <=> pc'[u] = "probing"
    BY <1>1, <1>2, <1>3, IBounds
  <1>5. QED
    BY <1>3, <1>4 DEF IInv, RunLockFreeOutside

LEMMA ProbesStep ==
  ASSUME IInv, NEW t \in Tasks, TaskStep(t)
  PROVE  /\ stamp' \in [Tasks -> 0..AgeCap]
         /\ rows' \in [age: 0..AgeCap, by: {"nobody", "outbound", "handshake"}]
         /\ ProbesAreNewer'
  <1>1. \A u \in Tasks \ {t} : pc'[u] = pc[u]
    BY OnePlace DEF IInv
  <1>2. \A u, v \in Tasks : pc[u] = "probing" /\ pc[v] = "probing" => u = v
    BY DEF IInv, RunLockFreeOutside
  <1>3. /\ stamp \in [Tasks -> 0..AgeCap]
        /\ rows \in [age: 0..AgeCap, by: {"nobody", "outbound", "handshake"}]
    BY DEF IInv, TimeTypes
  <1>4. CASE /\ pc[t] # "probing" /\ pc'[t] = "probing"
             /\ stamp' = [stamp EXCEPT ![t] = 0] /\ rows' = rows
    BY <1>1, <1>3, <1>4, IBounds DEF IInv, ProbesAreNewer
  <1>5. CASE /\ pc[t] = "probing" /\ pc'[t] # "probing" /\ stamp' = stamp
             /\ rows' = rows \/ rows' = [age |-> stamp[t], by |-> "handshake"]
    <2>1. \A u \in Tasks : pc'[u] # "probing"
      BY <1>1, <1>2, <1>5
    <2>2. QED
      BY <1>3, <1>5, <2>1 DEF ProbesAreNewer
  <1>6. CASE /\ pc[t] # "probing" /\ pc'[t] # "probing" /\ stamp' = stamp
             /\ rows' = rows \/ rows' = [age |-> 0, by |-> "outbound"]
    BY <1>1, <1>3, <1>6, IBounds DEF IInv, ProbesAreNewer
  <1>7. QED
    BY <1>4, <1>5, <1>6, ProbingSteps DEF IInv

SpacingTypes == begun \in 0..AgeCap /\ beginner \in {"running", "gone"}

LEMMA JudgeTimes ==
  ASSUME IInv, NEW t \in Tasks, NEW degraded \in BOOLEAN, Judge(t, degraded),
         lastAuto' = lastAuto
  PROVE  SpacingTypes' /\ EndsAfterBeginning'
  <1>1. CASE degraded /\ ~inFlight /\ lastAuto >= Cooldown
    <2>1. inFlight' /\ begun' = 0 /\ beginner' = "running"
      BY <1>1, Zenon DEF Judge, BeginAutoRefresh
    <2>2. QED
      BY <2>1, IBounds DEF EndsAfterBeginning, SpacingTypes
  <1>2. CASE ~(degraded /\ ~inFlight /\ lastAuto >= Cooldown)
    <2>1. (inFlight' <=> inFlight) /\ begun' = begun /\ beginner' = beginner
      BY <1>2, Zenon DEF Judge, BeginAutoRefresh, spacing
    <2>2. QED
      BY <2>1 DEF IInv, TimeTypes, EndsAfterBeginning, SpacingTypes
  <1>3. QED
    BY <1>1, <1>2

LEMMA CooldownStep ==
  ASSUME IInv, NEW t \in Tasks, TaskStep(t)
  PROVE  lastAuto' \in 0..AgeCap /\ SpacingTypes' /\ EndsAfterBeginning'
  <1>1. CASE CallHealth(t) \/ CallRefresh(t)
    BY <1>1 DEF CallHealth, CallRefresh, IInv, TimeTypes, EndsAfterBeginning, SpacingTypes, spacing
  <1>2. CASE Return(t)
    <2>1. \/ (inFlight' <=> inFlight) /\ lastAuto' = lastAuto
          \/ lastAuto' = 0
      BY <1>2, Zenon DEF Return
    <2>2. begun' = begun /\ beginner' = beginner
      BY <1>2 DEF Return, spacing
    <2>3. QED
      BY <2>1, <2>2, IBounds DEF IInv, TimeTypes, EndsAfterBeginning, SpacingTypes
  <1>3. ASSUME NEW degraded \in BOOLEAN, OutboundDone(t, degraded) \/ EndProbes(t, degraded)
        PROVE  lastAuto' \in 0..AgeCap /\ SpacingTypes' /\ EndsAfterBeginning'
    <2>1. lastAuto' = lastAuto /\ Judge(t, degraded)
      BY <1>3 DEF OutboundDone, EndProbes
    <2>2. QED
      BY <2>1, JudgeTimes DEF IInv, TimeTypes
  <1>4. CASE OutboundFailed(t) \/ StartProbes(t) \/ ProbesFailed(t)
    BY <1>4 DEF OutboundFailed, StartProbes, ProbesFailed, IInv, TimeTypes, EndsAfterBeginning,
                SpacingTypes, spacing
  <1>5. ASSUME NEW outcome \in {"announced", "quiet", "raised"}, RefreshDone(t, outcome)
        PROVE  lastAuto' \in 0..AgeCap /\ SpacingTypes' /\ EndsAfterBeginning'
    BY <1>5 DEF RefreshDone, IInv, TimeTypes, EndsAfterBeginning, SpacingTypes, spacing
  <1>6. QED
    BY <1>1, <1>2, <1>3, <1>4, <1>5 DEF TaskStep, Proceed

LEMMA CallsUnchanged ==
  ASSUME Calls, stack' = stack, pc' = pc, inFlight' = inFlight
  PROVE  Calls'
  <1>1. stack' \in [Tasks -> Seq(Frames)] /\ pc' \in [Tasks -> Places] /\ inFlight' \in BOOLEAN
    BY Zenon DEF Calls
  <1>2. \A t \in Tasks : Nested(stack'[t]) /\ FitsOn(pc'[t], stack'[t])
    BY Zenon DEF Calls
  <1>3. \A t, u \in Tasks : HasAuto(stack'[t]) /\ HasAuto(stack'[u]) => t = u
    BY Zenon DEF Calls
  <1>4. inFlight' <=> \E t \in Tasks : HasAuto(stack'[t])
    BY Zenon DEF Calls
  <1>5. QED
    BY <1>1, <1>2, <1>3, <1>4, Zenon DEF Calls, Nested, HasAuto, FitsOn

LEMMA OlderType ==
  ASSUME NEW a \in 0..AgeCap, NEW b \in 0..AgeCap
  PROVE  Older(a) \in 0..AgeCap /\ (a <= b => Older(a) <= Older(b))
  BY IBounds DEF Older

LEMMA ITickKeeps ==
  ASSUME IInv, ITick
  PROVE  IInv'
  <1>1. stack' = stack /\ pc' = pc /\ runLock' = runLock
    BY DEF ITick
  <1>2. inFlight' = inFlight
    BY Zenon DEF ITick
  <1>3. Calls'
    BY <1>1, <1>2, CallsUnchanged DEF IInv
  <1>4. runLock' \in Tasks \cup {None} /\ RunLockFreeOutside'
    BY <1>1 DEF IInv, RunLockFreeOutside
  <1>5. /\ rows'.by = rows.by /\ rows'.age = Older(rows.age)
        /\ rows' \in [age: 0..AgeCap, by: {"nobody", "outbound", "handshake"}]
    BY OlderType DEF ITick, IInv, TimeTypes
  <1>6. /\ stamp' \in [Tasks -> 0..AgeCap]
        /\ \A t \in Tasks : pc[t] = "probing" => stamp'[t] = Older(stamp[t])
    BY OlderType DEF ITick, IInv, TimeTypes
  <1>7. lastAuto' = Older(lastAuto) /\ begun' = Older(begun) /\ beginner' = beginner
    BY DEF ITick
  <1>8. TimeTypes'
    BY <1>5, <1>6, <1>7, OlderType DEF IInv, TimeTypes
  <1>9. EndsAfterBeginning'
    BY <1>2, <1>7, OlderType DEF IInv, TimeTypes, EndsAfterBeginning
  <1>10. ProbesAreNewer'
    BY <1>1, <1>5, <1>6, OlderType DEF IInv, TimeTypes, ProbesAreNewer
  <1>11. QED
    BY <1>3, <1>4, <1>8, <1>9, <1>10 DEF IInv

LEMMA IRestartKeeps ==
  ASSUME IInv, IRestart
  PROVE  IInv'
  <1>1. /\ <<>> \in Seq(Frames) /\ Len(<<>>) = 0
    OBVIOUS
  <1>2. Nested(<<>>) /\ ~HasAuto(<<>>) /\ FitsOn("idle", <<>>) /\ "idle" \in Places
    BY <1>1 DEF Nested, HasAuto, FitsOn, Places
  <1>3. \A t \in Tasks : stack'[t] = <<>> /\ pc'[t] = "idle"
    BY DEF IRestart
  <1>4. stack' \in [Tasks -> Seq(Frames)] /\ pc' \in [Tasks -> Places]
    BY <1>1, <1>2 DEF IRestart
  <1>5. ~inFlight' /\ inFlight' \in BOOLEAN
    BY Zenon DEF IRestart
  <1>6. Calls'
    <2>1. \A t \in Tasks : Nested(stack'[t]) /\ FitsOn(pc'[t], stack'[t]) /\ ~HasAuto(stack'[t])
      BY <1>2, <1>3
    <2>2. QED
      BY <1>4, <1>5, <2>1, Zenon DEF Calls, Nested, HasAuto, FitsOn
  <1>7. runLock' \in Tasks \cup {None} /\ RunLockFreeOutside'
    BY IBounds DEF IRestart, RunLockFreeOutside
  <1>8. TimeTypes' /\ beginner' = "gone"
    BY IBounds DEF IRestart, IInv, TimeTypes
  <1>9. EndsAfterBeginning' /\ ProbesAreNewer'
    BY <1>3, <1>8, IBounds DEF TimeTypes, EndsAfterBeginning, ProbesAreNewer
  <1>10. QED
    BY <1>6, <1>7, <1>8, <1>9 DEF IInv

LEMMA IStepKeepsInv == IInv /\ [INext]_ivars => IInv'
  <1> SUFFICES ASSUME IInv, [INext]_ivars PROVE IInv'
    OBVIOUS
  <1>1. ASSUME NEW t \in Tasks, TaskStep(t) PROVE IInv'
    <2>1. Calls'
      BY <1>1, ProceedCalls, CallCalls, ReturnCalls DEF IInv, TaskStep
    <2>2. TimeTypes'
      BY <1>1, ProbesStep, CooldownStep DEF TimeTypes, SpacingTypes
    <2>3. QED
      BY <1>1, <2>1, <2>2, LockStep, ProbesStep, CooldownStep DEF IInv
  <1>2. CASE UNCHANGED ivars
    <2>1. /\ stack' = stack /\ pc' = pc /\ stamp' = stamp /\ runLock' = runLock
          /\ lastAuto' = lastAuto /\ rows' = rows /\ inFlight' = inFlight
          /\ begun' = begun /\ beginner' = beginner
      BY <1>2, Zenon DEF ivars, spacing
    <2>2. Calls'
      BY <2>1, CallsUnchanged DEF IInv
    <2>3. EndsAfterBeginning'
      BY <2>1, Zenon DEF IInv, EndsAfterBeginning
    <2>4. QED
      BY <2>1, <2>2, <2>3, Zenon DEF IInv, RunLockFreeOutside, TimeTypes, ProbesAreNewer
  <1>3. QED
    BY <1>1, <1>2, ITickKeeps, IRestartKeeps DEF INext

-----------------------------------------------------------------------------
\* The line at the lock of the handshakes.

\* The queue holds exactly those that wait, each once.
InLine(line, waiting) ==
    /\ \A i \in 1..Len(line) : line[i] \in waiting
    /\ \A t \in waiting : \E i \in 1..Len(line) : line[i] = t
    /\ \A i, j \in 1..Len(line) : line[i] = line[j] => i = j

Queued == {t \in Tasks : pc[t] = "queued"}

QueuedInLine == runQueue \in Seq(Tasks) /\ InLine(runQueue, Queued)

LEMMA JoinLine ==
  ASSUME NEW S, NEW line \in Seq(S), NEW waiting, InLine(line, waiting),
         NEW t \in S, t \notin waiting
  PROVE  InLine(Append(line, t), waiting \cup {t})
  <1> DEFINE new == Append(line, t)
  <1>1. /\ Len(line) \in Nat /\ Len(new) = Len(line) + 1
        /\ \A i \in 1..Len(line) : new[i] = line[i]
        /\ new[Len(line) + 1] = t
    OBVIOUS
  <1> HIDE DEF new
  <1>2. \A i \in 1..Len(new) : i \in 1..Len(line) \/ i = Len(line) + 1
    BY <1>1
  <1>3. \A i \in 1..Len(line) : i \in 1..Len(new)
    BY <1>1
  <1>4. Len(line) + 1 \in 1..Len(new)
    BY <1>1
  <1>5. \A i \in 1..Len(new) : new[i] \in waiting \cup {t}
    BY <1>1, <1>2, Zenon DEF InLine
  <1>6. ASSUME NEW u \in waiting \cup {t} PROVE \E i \in 1..Len(new) : new[i] = u
    <2>1. CASE u = t
      BY <1>1, <1>4, <2>1, Zenon
    <2>2. CASE u \in waiting
      BY <1>1, <1>3, <2>2, Zenon DEF InLine
    <2>3. QED
      BY <1>6, <2>1, <2>2
  <1>7. ASSUME NEW i \in 1..Len(new), NEW j \in 1..Len(new), new[i] = new[j] PROVE i = j
    <2>1. CASE i \in 1..Len(line) /\ j \in 1..Len(line)
      BY <1>1, <1>7, <2>1, Zenon DEF InLine
    <2>2. CASE i = Len(line) + 1 /\ j \in 1..Len(line)
      BY <1>1, <1>7, <2>2, Zenon DEF InLine
    <2>3. CASE i \in 1..Len(line) /\ j = Len(line) + 1
      BY <1>1, <1>7, <2>3, Zenon DEF InLine
    <2>4. QED
      BY <1>2, <2>1, <2>2, <2>3
  <1>8. QED
    BY <1>5, <1>6, <1>7, Zenon DEF InLine, new

LEMMA LeaveLine ==
  ASSUME NEW S, NEW line \in Seq(S), NEW waiting, InLine(line, waiting), line # <<>>
  PROVE  InLine(Tail(line), waiting \ {Head(line)})
  <1> DEFINE new == Tail(line)
  <1>1. /\ Len(line) \in Nat /\ Len(line) > 0 /\ Len(new) = Len(line) - 1
        /\ \A i \in 1..Len(new) : new[i] = line[i + 1]
        /\ Head(line) = line[1]
    OBVIOUS
  <1> HIDE DEF new
  <1>2. \A i \in 1..Len(new) : i + 1 \in 1..Len(line) /\ i + 1 # 1
    BY <1>1
  <1>3. \A i \in 1..Len(line) : i # 1 => i - 1 \in 1..Len(new) /\ (i - 1) + 1 = i
    BY <1>1
  <1>4. 1 \in 1..Len(line)
    BY <1>1
  <1>5. ASSUME NEW i \in 1..Len(new) PROVE new[i] \in waiting \ {Head(line)}
    BY <1>1, <1>2, <1>4, <1>5 DEF InLine
  <1>6. ASSUME NEW t \in waiting \ {Head(line)} PROVE \E i \in 1..Len(new) : new[i] = t
    <2>1. PICK i \in 1..Len(line) : line[i] = t
      BY DEF InLine
    <2>2. i # 1
      BY <1>1, <2>1
    <2>3. i - 1 \in 1..Len(new) /\ new[i - 1] = t
      BY <1>1, <1>3, <2>1, <2>2
    <2>4. QED
      BY <2>3
  <1>7. ASSUME NEW i \in 1..Len(new), NEW j \in 1..Len(new), new[i] = new[j] PROVE i = j
    <2>1. line[i + 1] = line[j + 1] /\ i + 1 \in 1..Len(line) /\ j + 1 \in 1..Len(line)
      BY <1>1, <1>2, <1>7, Zenon
    <2>2. i + 1 = j + 1
      BY <2>1, Zenon DEF InLine
    <2>3. QED
      BY <2>2
  <1>8. QED
    BY <1>5, <1>6, <1>7 DEF InLine, new

\* Where a task of the line is, and where a step takes one.
LEMMA QueueSteps ==
  ASSUME Calls, NEW t \in Tasks, TaskStep(t)
  PROVE  \/ pc[t] # "queued" /\ pc'[t] = "queued" /\ runQueue' = Append(runQueue, t)
         \/ /\ pc[t] = "queued" /\ pc'[t] # "queued"
            /\ runQueue' = Tail(runQueue) /\ Head(runQueue) = t
         \/ pc[t] # "queued" /\ pc'[t] # "queued" /\ runQueue' = runQueue
  <1>1. \A place : pc' = [pc EXCEPT ![t] = place] => pc'[t] = place
    BY DEF Calls
  <1>2. CASE CallHealth(t) \/ CallRefresh(t)
    BY <1>1, <1>2 DEF CallHealth, CallRefresh, Enter
  <1>3. CASE Return(t)
    <2>1. pc'[t] \in {"idle", "returning"}
      BY <1>1, <1>3 DEF Return
    <2>2. QED
      BY <1>3, <2>1 DEF Return
  <1>4. CASE StartProbes(t)
    BY <1>1, <1>4 DEF StartProbes, Goto
  <1>5. CASE ProbesFailed(t)
    BY <1>1, <1>5 DEF ProbesFailed, Goto
  <1>6. CASE OutboundFailed(t)
    BY <1>1, <1>6 DEF OutboundFailed, Goto
  <1>7. ASSUME NEW degraded \in BOOLEAN, OutboundDone(t, degraded) \/ EndProbes(t, degraded)
        PROVE  pc[t] # "queued" /\ pc'[t] # "queued" /\ runQueue' = runQueue
    <2>1. Judge(t, degraded) => pc'[t] \in {"refreshing", "returning"}
      BY <1>1 DEF Judge, BeginAutoRefresh, Enter, Goto
    <2>2. QED
      BY <1>7, <2>1 DEF OutboundDone, EndProbes
  <1>8. ASSUME NEW outcome \in {"announced", "quiet", "raised"}, RefreshDone(t, outcome)
        PROVE  pc[t] # "queued" /\ pc'[t] # "queued" /\ runQueue' = runQueue
    <2>1. pc'[t] \in {"outbound", "raising", "returning"}
      BY <1>1, <1>8 DEF RefreshDone, Enter, Goto
    <2>2. QED
      BY <1>8, <2>1 DEF RefreshDone
  <1>9. QED
    BY <1>2, <1>3, <1>4, <1>5, <1>6, <1>7, <1>8 DEF TaskStep, Proceed

LEMMA QueueInit == IInit => QueuedInLine
  <1> SUFFICES ASSUME IInit PROVE QueuedInLine
    OBVIOUS
  <1>1. runQueue = <<>> /\ Queued = {}
    BY DEF IInit, Queued
  <1>2. <<>> \in Seq(Tasks) /\ Len(<<>>) = 0
    OBVIOUS
  <1>3. QED
    BY <1>1, <1>2 DEF QueuedInLine, InLine

LEMMA QueueTaskStep ==
  ASSUME Calls, QueuedInLine, NEW t \in Tasks, TaskStep(t)
  PROVE  QueuedInLine'
  <1>1. \A u \in Tasks \ {t} : pc'[u] = pc[u]
    BY OnePlace
  <1>2. CASE pc[t] # "queued" /\ pc'[t] = "queued" /\ runQueue' = Append(runQueue, t)
    <2>1. Queued' = Queued \cup {t} /\ t \notin Queued
      BY <1>1, <1>2 DEF Queued
    <2>2. InLine(Append(runQueue, t), Queued \cup {t})
      BY <2>1, JoinLine DEF QueuedInLine
    <2>3. runQueue' \in Seq(Tasks)
      BY <1>2, AppendProperties DEF QueuedInLine
    <2>4. QED
      BY <1>2, <2>1, <2>2, <2>3 DEF QueuedInLine
  <1>3. CASE /\ pc[t] = "queued" /\ pc'[t] # "queued"
             /\ runQueue' = Tail(runQueue) /\ Head(runQueue) = t
    <2>1. Queued' = Queued \ {t} /\ t \in Queued
      BY <1>1, <1>3 DEF Queued
    <2>2. runQueue # <<>>
      BY <2>1 DEF QueuedInLine, InLine
    <2>3. InLine(Tail(runQueue), Queued \ {Head(runQueue)})
      BY <2>2, LeaveLine DEF QueuedInLine
    <2>4. runQueue' \in Seq(Tasks)
      BY <1>3, <2>2, HeadTailProperties DEF QueuedInLine
    <2>5. QED
      BY <1>3, <2>1, <2>3, <2>4 DEF QueuedInLine
  <1>4. CASE pc[t] # "queued" /\ pc'[t] # "queued" /\ runQueue' = runQueue
    <2>1. Queued' = Queued
      BY <1>1, <1>4 DEF Queued
    <2>2. QED
      BY <1>4, <2>1 DEF QueuedInLine
  <1>5. QED
    BY <1>2, <1>3, <1>4, QueueSteps

LEMMA QueueStep == IInv /\ QueuedInLine /\ [INext]_ivars => QueuedInLine'
  <1> SUFFICES ASSUME IInv, QueuedInLine, [INext]_ivars PROVE QueuedInLine'
    OBVIOUS
  <1>1. ASSUME NEW t \in Tasks, TaskStep(t) PROVE QueuedInLine'
    BY <1>1, QueueTaskStep DEF IInv
  <1>2. CASE ITick \/ UNCHANGED ivars
    <2>1. pc' = pc /\ runQueue' = runQueue
      BY <1>2, Zenon DEF ITick, ivars
    <2>2. QED
      BY <2>1 DEF QueuedInLine, Queued
  <1>3. CASE IRestart
    <2>1. runQueue' = <<>> /\ Queued' = {}
      BY <1>3 DEF IRestart, Queued
    <2>2. <<>> \in Seq(Tasks) /\ Len(<<>>) = 0
      OBVIOUS
    <2>3. QED
      BY <2>1, <2>2 DEF QueuedInLine, InLine
  <1>4. QED
    BY <1>1, <1>2, <1>3 DEF INext

-----------------------------------------------------------------------------
\* Both together.

Inv == IInv /\ MInv /\ QueuedInLine

LEMMA StepOfEach ==
  ASSUME [TNext]_tvars
  PROVE  [INext]_ivars /\ [MNext]_mvars
  <1>1. ASSUME NEW t \in Others, CallHealth(t) \/ CallRefresh(t) \/ Return(t), UNCHANGED mvars
        PROVE  [INext]_ivars /\ [MNext]_mvars
    BY <1>1, Zenon DEF Others, INext, TaskStep
  <1>2. ASSUME NEW t \in Tasks, Proceed(t), UNCHANGED mvars
        PROVE  [INext]_ivars /\ [MNext]_mvars
    BY <1>2, Zenon DEF INext, TaskStep
  <1>3. CASE PollStep /\ UNCHANGED ivars
    BY <1>3, Zenon DEF MNext
  <1>4. CASE MailAsks
    BY <1>4, MailTaskAssumption, Zenon DEF MailAsks, INext, TaskStep, MNext
  <1>5. CASE MailReturns
    <2>1. INext
      BY <1>5, MailTaskAssumption, Zenon DEF MailReturns, INext, TaskStep
    <2>2. (pc[MailTask] = "raising") \in BOOLEAN
      BY Zenon
    <2>3. Answered(pc[MailTask] = "raising") \/ UNCHANGED mvars
      BY <1>5, Zenon DEF MailReturns
    <2>4. QED
      BY <2>1, <2>2, <2>3, Zenon DEF MNext
  <1>6. CASE (ITick /\ MTick) \/ (IRestart /\ MRestart)
    BY <1>6, Zenon DEF INext, MNext
  <1>7. CASE UNCHANGED tvars
    BY <1>7, Zenon DEF tvars
  <1>8. QED
    BY <1>1, <1>2, <1>3, <1>4, <1>5, <1>6, <1>7 DEF TNext

LEMMA Initially == TInit => Inv
  BY IInitially, MInitially, QueueInit DEF TInit, Inv

LEMMA StepKeepsInv == Inv /\ [TNext]_tvars => Inv'
  BY StepOfEach, IStepKeepsInv, MStepKeepsInv, QueueStep DEF Inv

THEOREM Invariance == TSpec => []Inv
  BY Initially, StepKeepsInv, PTL DEF TSpec

-----------------------------------------------------------------------------
\* Its consequences.

\* Health checks and refreshes call each other, in any number of tasks, at most
\* four deep, and one auto refresh at a time.
THEOREM AutoRefreshesAreAlone == TSpec => []AutoRefreshAlone
  <1>1. Inv => AutoRefreshAlone
    <2> SUFFICES ASSUME Inv PROVE AutoRefreshAlone
      OBVIOUS
    <2> DEFINE autos == {c \in Tasks \X (1..5) :
                            c[2] \in DOMAIN stack[c[1]] /\ stack[c[1]][c[2]] = "auto"}
    <2>1. \A t \in Tasks : Nested(stack[t])
      BY Zenon DEF Inv, IInv, Calls
    <2>2. \A t \in Tasks : /\ Len(stack[t]) <= 4 /\ Len(stack[t]) \in Nat
                           /\ DOMAIN stack[t] = 1..Len(stack[t])
      BY <2>1, Depth, LenProperties DEF Nested
    <2>3. CASE ~inFlight
      <3>1. \A t \in Tasks : ~HasAuto(stack[t])
        BY <2>3, Zenon DEF Inv, IInv, Calls
      <3>2. autos = {}
        BY <2>2, <3>1 DEF HasAuto
      <3>3. Cardinality(autos) = 0
        BY <3>2, FS_EmptySet
      <3>4. QED
        BY <2>2, <2>3, <3>3, Zenon DEF AutoRefreshAlone
    <2>4. CASE inFlight
      <3>1. PICK t \in Tasks : HasAuto(stack[t])
        BY <2>4, Zenon DEF Inv, IInv, Calls
      <3>2. \A u \in Tasks : HasAuto(stack[u]) => u = t
        BY <3>1, Zenon DEF Inv, IInv, Calls
      <3>3. PICK i \in 1..Len(stack[t]) : stack[t][i] = "auto"
        BY <3>1 DEF HasAuto
      <3>4. i \in 1..5 /\ i \in DOMAIN stack[t]
        BY <2>2, <3>3
      <3>5. \A j \in 1..Len(stack[t]) : stack[t][j] = "auto" => j = i
        BY <2>1, <3>3 DEF Nested
      <3>6. <<t, i>> \in autos
        BY <3>3, <3>4
      <3>7. ASSUME NEW c \in autos PROVE c = <<t, i>>
        <4>1. c[1] \in Tasks /\ c[2] \in 1..Len(stack[c[1]]) /\ stack[c[1]][c[2]] = "auto"
          BY <2>2
        <4>2. c[1] = t
          BY <3>2, <4>1 DEF HasAuto
        <4>3. c[2] = i
          BY <3>5, <4>1, <4>2
        <4>4. QED
          BY <4>2, <4>3
      <3>8. autos = {<<t, i>>}
        BY <3>6, <3>7
      <3>9. Cardinality(autos) = 1
        BY <3>8, FS_Singleton
      <3>10. QED
        BY <2>2, <2>4, <3>9, Zenon DEF AutoRefreshAlone
    <2>5. QED
      BY <2>3, <2>4
  <1>2. QED
    BY <1>1, Invariance, PTL

\* No task waits for the lock of the handshakes while its holder refreshes.
THEOREM RunLockIsFree == TSpec => []RunLockFreeOutside
  <1>1. Inv => RunLockFreeOutside
    BY DEF Inv, IInv
  <1>2. QED
    BY <1>1, Invariance, PTL

\* Whoever is queued for the handshakes has its turn: a run is under way, or the
\* first in line may begin.
THEOREM HandshakesArePassedOn == TSpec => []HandshakesMoveOn
  <1>1. Inv => HandshakesMoveOn
    <2> SUFFICES ASSUME Inv, NEW t \in Tasks, pc[t] = "queued"
                 PROVE  \E u \in Tasks :
                            \/ runLock = u /\ pc[u] = "probing"
                            \/ runLock = None /\ pc[u] = "queued" /\ Head(runQueue) = u
      BY DEF HandshakesMoveOn
    <2>1. CASE runLock \in Tasks
      BY <2>1 DEF Inv, IInv, RunLockFreeOutside
    <2>2. CASE runLock = None
      <3>1. runQueue \in Seq(Tasks) /\ t \in Queued
        BY DEF Inv, QueuedInLine, Queued
      <3>2. PICK i \in 1..Len(runQueue) : runQueue[i] = t
        BY <3>1 DEF Inv, QueuedInLine, InLine
      <3>3. 1 \in 1..Len(runQueue) /\ Head(runQueue) = runQueue[1]
        BY <3>1, <3>2
      <3>4. Head(runQueue) \in Queued
        BY <3>3 DEF Inv, QueuedInLine, InLine
      <3>5. QED
        BY <2>2, <3>4 DEF Queued
    <2>3. QED
      BY <2>1, <2>2 DEF Inv, IInv
  <1>2. QED
    BY <1>1, Invariance, PTL

\* However health checks overlap and refreshes fail, the airport is asked by them
\* once in a cool-down, as long as the process runs.
THEOREM AutoRefreshesKeepApart == TSpec => AutoRefreshesSpaced
  <1>1. Inv /\ [TNext]_tvars
          => [~inFlight /\ inFlight' => begun >= Cooldown \/ beginner = "gone"]_ivars
    <2> SUFFICES ASSUME Inv, [INext]_ivars, ~inFlight, inFlight', beginner # "gone"
                 PROVE  begun >= Cooldown
      BY StepOfEach, Zenon
    <2>1. ASSUME NEW t \in Tasks, NEW degraded \in BOOLEAN, Judge(t, degraded)
          PROVE  lastAuto >= Cooldown
      BY <2>1, Zenon DEF Judge, BeginAutoRefresh
    <2>2. lastAuto >= Cooldown
      BY <2>1, Zenon
         DEF INext, TaskStep, CallHealth, CallRefresh, Return, Proceed, OutboundDone, EndProbes,
             OutboundFailed, StartProbes, ProbesFailed, RefreshDone, ITick, IRestart, ivars
    <2>3. lastAuto <= begun
      BY Zenon DEF Inv, IInv, EndsAfterBeginning
    <2>4. lastAuto \in Nat /\ begun \in Nat
      BY IBounds DEF Inv, IInv, TimeTypes
    <2>5. \A a, b \in Nat : a >= Cooldown /\ a <= b => b >= Cooldown
      BY IBounds
    <2>6. QED
      BY <2>2, <2>3, <2>4, <2>5, Zenon
  <1>2. QED
    BY <1>1, Invariance, PTL DEF TSpec, AutoRefreshesSpaced

\* Handshakes that end do not bring older rows than those of other handshakes.
THEOREM RowsStayInOrder == TSpec => RowsInOrder
  <1>1. Inv => [\A t \in Tasks :
                  pc[t] = "probing" /\ pc'[t] # "probing" /\ rows' # rows /\ stamp[t] > rows.age
                      => rows.by = "outbound"]_ivars
    <2> SUFFICES ASSUME Inv, NEW t \in Tasks, pc[t] = "probing", stamp[t] > rows.age,
                        rows.by # "outbound"
                 PROVE  FALSE
      OBVIOUS
    <2>1. stamp[t] <= rows.age /\ stamp[t] \in Nat /\ rows.age \in Nat
      BY DEF Inv, IInv, TimeTypes, ProbesAreNewer
    <2>2. QED
      BY <2>1
  <1>2. QED
    BY <1>1, Invariance, PTL DEF RowsInOrder

\* A mail makes the service refresh at most once, whatever fails and dies.
THEOREM AnsweredOnce == TSpec => []MailAnsweredOnce
  <1>1. Inv => MailAnsweredOnce
    BY DEF Inv, MInv
  <1>2. QED
    BY <1>1, Invariance, PTL

\* No restriction mail is passed over but for the excuses that are named.
THEOREM NoMailForgotten == TSpec => []MailNotForgotten
  <1>1. Inv => MailNotForgotten
    BY Zenon DEF Inv, MInv, MailsAccounted, MailNotForgotten
  <1>2. QED
    BY <1>1, Invariance, PTL

-----------------------------------------------------------------------------
\* The poll and its refresh.

LEMMA PollAwaitsInit == TInit => PollAwaitsRefresh
  BY MailTaskAssumption DEF TInit, IInit, MInit, PollAwaitsRefresh

\* Steps of other tasks, and of the watcher's within what it called.
LEMMA OthersLeaveStack ==
  ASSUME Calls, NEW t \in Tasks, t # MailTask, TaskStep(t)
  PROVE  stack'[MailTask] = stack[MailTask]
  BY MailTaskAssumption, Zenon
     DEF TaskStep, CallHealth, CallRefresh, Return, Proceed, OutboundDone, OutboundFailed,
         StartProbes, EndProbes, ProbesFailed, RefreshDone, Judge, BeginAutoRefresh, Enter, Goto, Calls

LEMMA ProceedKeepsFirst ==
  ASSUME Calls, NEW t \in Tasks, Proceed(t)
  PROVE  stack[t] # <<>> /\ stack'[t] # <<>> /\ stack'[t][1] = stack[t][1]
  <1>1. pc[t] # "idle"
    BY DEF Proceed, OutboundDone, OutboundFailed, StartProbes, EndProbes, ProbesFailed, RefreshDone
  <1>2. stack[t] \in Seq(Frames) /\ Len(stack[t]) \in Nat /\ Len(stack[t]) > 0
    BY <1>1, OnTop
  <1>3. stack'[t] = stack[t] \/ \E x \in {"auto", "health"} : stack'[t] = Append(stack[t], x)
    BY DEF Calls, Proceed, OutboundDone, OutboundFailed, StartProbes, EndProbes, ProbesFailed,
           RefreshDone, Judge, BeginAutoRefresh, Enter, Goto
  <1>4. ASSUME NEW x \in {"auto", "health"}
        PROVE  Append(stack[t], x) # <<>> /\ Append(stack[t], x)[1] = stack[t][1]
    <2>1. x \in Frames
      BY DEF Frames
    <2>2. /\ Len(Append(stack[t], x)) = Len(stack[t]) + 1
          /\ \A i \in 1..Len(stack[t]) : Append(stack[t], x)[i] = stack[t][i]
      BY <1>2, <2>1, AppendProperties
    <2>3. QED
      BY <1>2, <2>2
  <1>5. QED
    BY <1>2, <1>3, <1>4

LEMMA PollAwaitsStep ==
  ASSUME Inv, PollAwaitsRefresh, [TNext]_tvars
  PROVE  PollAwaitsRefresh'
  <1>calls. Calls /\ MailTask \in Tasks
    BY MailTaskAssumption DEF Inv, IInv
  <1>same. ASSUME stack'[MailTask] = stack[MailTask], mpc' = mpc PROVE PollAwaitsRefresh'
    BY <1>same DEF PollAwaitsRefresh
  <1>1. ASSUME NEW t \in Others, CallHealth(t) \/ CallRefresh(t) \/ Return(t), UNCHANGED mvars
        PROVE  PollAwaitsRefresh'
    <2>1. t \in Tasks /\ t # MailTask /\ TaskStep(t) /\ mpc' = mpc
      BY <1>1, Zenon DEF Others, TaskStep, mvars
    <2>2. QED
      BY <1>calls, <1>same, <2>1, OthersLeaveStack
  <1>2. ASSUME NEW t \in Tasks, Proceed(t), UNCHANGED mvars PROVE PollAwaitsRefresh'
    <2>1. mpc' = mpc
      BY <1>2, Zenon DEF mvars
    <2>2. CASE t = MailTask
      BY <1>2, <1>calls, <2>1, <2>2, ProceedKeepsFirst DEF PollAwaitsRefresh
    <2>3. CASE t # MailTask
      BY <1>2, <1>calls, <1>same, <2>1, <2>3, OthersLeaveStack DEF TaskStep
    <2>4. QED
      BY <2>2, <2>3
  <1>3. CASE PollStep /\ UNCHANGED ivars
    <2>1. (mpc # "refreshing" /\ mpc' # "refreshing") \/ mpc' = mpc
      BY <1>3 DEF PollStep, Arrive, FirstFetch, Poll, PollFails, PollEnds, Fetch, Handle
    <2>2. stack' = stack
      BY <1>3, Zenon DEF ivars
    <2>3. QED
      BY <2>1, <2>2 DEF PollAwaitsRefresh
  <1>4. CASE MailAsks
    <2>1. mpc' = "refreshing" /\ pc[MailTask] = "idle"
          /\ stack' = [stack EXCEPT ![MailTask] = Append(stack[MailTask], "refresh")]
      BY <1>4, <1>calls DEF MailAsks, Ask, CallRefresh, Enter
    <2>2. stack[MailTask] = <<>>
      BY <1>calls, <2>1, OnTop
    <2>3. stack'[MailTask] = Append(<<>>, "refresh")
      BY <1>calls, <2>1, <2>2 DEF Calls
    <2>4. /\ Len(Append(<<>>, "refresh")) = 1 /\ Append(<<>>, "refresh")[1] = "refresh"
          /\ Append(<<>>, "refresh") # <<>>
      BY FirstCall
    <2>5. stack'[MailTask] # <<>> /\ stack'[MailTask][1] = "refresh"
      BY <2>3, <2>4, Zenon
    <2>6. QED
      BY <2>1, <2>5 DEF PollAwaitsRefresh
  <1>5. CASE MailReturns
    <2> DEFINE rest == SubSeq(stack[MailTask], 1, Len(stack[MailTask]) - 1)
    <2>1. /\ pc[MailTask] # "idle" /\ stack' = [stack EXCEPT ![MailTask] = rest]
          /\ IF Len(stack[MailTask]) = 1
             THEN Answered(pc[MailTask] = "raising") ELSE UNCHANGED mvars
      BY <1>5 DEF MailReturns, Return
    <2>2. /\ stack[MailTask] \in Seq(Frames) /\ Nested(stack[MailTask])
          /\ Len(stack[MailTask]) \in Nat /\ Len(stack[MailTask]) > 0
      BY <1>calls, <2>1, OnTop
    <2>3. stack'[MailTask] = rest
      BY <1>calls, <2>1 DEF Calls
    <2>4. /\ Nested(rest) /\ Len(rest) = Len(stack[MailTask]) - 1
          /\ \A i \in 1..Len(rest) : rest[i] = stack[MailTask][i]
      BY <2>2, CallReturns
    <2> HIDE DEF rest
    <2>5. CASE Len(stack[MailTask]) = 1
      <3>1. mpc' # "refreshing"
        BY <2>1, <2>5 DEF Answered
      <3>2. Len(rest) = 0 /\ rest \in Seq(Frames)
        BY <2>4, <2>5 DEF Nested
      <3>3. rest = <<>>
        BY <3>2, EmptySeq
      <3>4. QED
        BY <2>3, <3>1, <3>3 DEF PollAwaitsRefresh
    <2>6. CASE Len(stack[MailTask]) # 1
      <3>1. mpc' = mpc
        BY <2>1, <2>6, Zenon DEF mvars
      <3>2. 1 \in 1..Len(rest) /\ rest \in Seq(Frames)
        <4>1. \A n \in Nat : n > 0 /\ n # 1 => 1 \in 1..(n - 1)
          OBVIOUS
        <4>2. QED
          BY <2>2, <2>4, <2>6, <4>1, Zenon DEF Nested
      <3>3. rest # <<>> /\ stack[MailTask] # <<>> /\ rest[1] = stack[MailTask][1]
        BY <2>2, <2>4, <3>2
      <3>4. QED
        BY <2>3, <3>1, <3>2, <3>3 DEF PollAwaitsRefresh
    <2>7. QED
      BY <2>5, <2>6
  <1>6. CASE (ITick /\ MTick) \/ UNCHANGED tvars
    <2>1. stack' = stack /\ mpc' = mpc
      BY <1>6, Zenon DEF ITick, MTick, tvars, ivars, mvars
    <2>2. QED
      BY <1>same, <2>1
  <1>7. CASE IRestart /\ MRestart
    BY <1>7, <1>calls DEF IRestart, MRestart, PollAwaitsRefresh
  <1>8. QED
    BY <1>1, <1>2, <1>3, <1>4, <1>5, <1>6, <1>7 DEF TNext

\* The watcher waits exactly while the refresh it asked for is at work: it is resumed
\* once, by that refresh, whatever the refresh called meanwhile.
THEOREM PollIsResumed == TSpec => []PollAwaitsRefresh
  BY PollAwaitsInit, PollAwaitsStep, Invariance, PTL DEF TSpec

-----------------------------------------------------------------------------
\* Every variable has its type.
THEOREM TypeCorrect == TSpec => []TTypeOK
  <1>1. Inv => TTypeOK
    <2> SUFFICES ASSUME Inv PROVE ITypeOK /\ MTypeOK
      BY DEF TTypeOK
    <2>1. MTypeOK
      BY DEF Inv, MInv, MailTypes, MTypeOK
    <2>2. ASSUME NEW t \in Tasks
          PROVE  /\ stack[t] \in Seq({"health", "refresh", "auto"})
                 /\ pc[t] = "idle" <=> stack[t] = <<>>
      <3>1. Nested(stack[t]) /\ FitsOn(pc[t], stack[t])
        BY Zenon DEF Inv, IInv, Calls
      <3>2. stack[t] \in Seq(Frames)
        BY <3>1 DEF Nested
      <3>3. Len(stack[t]) = 0 <=> stack[t] = <<>>
        BY <3>2, EmptySeq
      <3>4. QED
        BY <3>1, <3>2, <3>3 DEF FitsOn, Frames
    <2>3. pc \in [Tasks -> {"idle", "refreshing", "outbound", "queued", "probing",
                             "returning", "raising"}]
      BY Zenon DEF Inv, IInv, Calls, Places
    <2>4. inFlight \in BOOLEAN
      BY Zenon DEF Inv, IInv, Calls
    <2>5. QED
      BY <2>1, <2>2, <2>3, <2>4 DEF Inv, IInv, TimeTypes, QueuedInLine, ITypeOK
  <1>2. QED
    BY <1>1, Invariance, PTL
=============================================================================
