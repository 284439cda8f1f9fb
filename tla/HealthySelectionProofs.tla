----------------------- MODULE HealthySelectionProofs -----------------------
(* Proofs about HealthySelection, for any nodes, plans, lengths of the day   *)
(* and bounds of a check.                                                    *)
EXTENDS HealthySelection, TLAPS

-----------------------------------------------------------------------------
\* The invariant.

\* No stage of a round is longer than it may be.
RoundsEnd ==
    /\ pc = "sleeping" => elapsed <= planned
    /\ pc = "top" => elapsed = 0
    /\ pc = "checking" => elapsed <= MaxCheck

\* What has passed of the sleep that lies between the rows and now.
Slept == IF pc = "sleeping" THEN elapsed ELSE IF pc = "judging" THEN 0 ELSE planned

\* The rows are at most as old as the rounds took since, and one sleep.
RowsAgeWithRounds == ~missed => age <= awake + Slept

Inv == TypeOK /\ RoundsEnd /\ RowsAgeWithRounds

\* An interval is one of the plan's, by day or by night.
LEMMA EffectiveInterval ==
  ASSUME NEW hour
  PROVE  Effective(hour) \in {plan.day, plan.night}
  BY DEF Effective

LEMMA Intervals ==
  ASSUME plan \in Plans, NEW hour
  PROVE  Effective(hour) \in Nat
  BY EffectiveInterval, HealthyAssumption

LEMMA BoundsType ==
  /\ MinWindow \in Nat /\ MaxCheck \in Nat /\ AgeCap \in Nat /\ FallbackDelay \in Nat
  /\ MaxCheck <= AgeCap
  BY HealthyAssumption

LEMMA StaysBelow ==
  ASSUME NEW x \in Int, NEW bound \in Int, x <= bound, NEW n \in Nat
  PROVE  x <= bound + n
  OBVIOUS

LEMMA DayType == Day \in Nat \ {0}
  BY HealthyAssumption DEF Day

LEMMA Initially == Init => Inv
  <1> SUFFICES ASSUME Init PROVE Inv
    OBVIOUS
  <1>1. planned \in Nat /\ elapsed = 0 /\ pc = "top" /\ missed = TRUE
    BY Intervals DEF Init
  <1>2. enabled \in BOOLEAN /\ wake \in BOOLEAN /\ missed \in BOOLEAN
    BY Zenon DEF Init
  <1>3. TypeOK
    BY <1>1, <1>2, HealthyAssumption DEF Init, TypeOK, Rows
  <1>4. QED
    BY <1>1, <1>3 DEF Inv, RoundsEnd, RowsAgeWithRounds

-----------------------------------------------------------------------------
\* The steps.

\* A delay is a number.
LEMMA DelayType ==
  ASSUME Inv, GoToSleep
  PROVE  planned' \in Nat /\ pc' = "sleeping" /\ elapsed' = 0
  BY Intervals, BoundsType DEF Inv, TypeOK, GoToSleep

\* A round ends: the rows, if they count, have aged with it.
LEMMA EndRoundKeeps ==
  ASSUME Inv, EndRound, UNCHANGED <<settings, clock, alive, table, wake, awake>>,
         flapped' \in SUBSET Nodes, missed' \in BOOLEAN,
         missed' \/ (pc = "judging" /\ ~missed)
  PROVE  Inv'
  <1>1. /\ planned' \in Nat /\ elapsed' = 0
        /\ pc' = "sleeping" \/ pc' = "top"
    BY DelayType DEF EndRound, Inv, TypeOK
  <1>2. enabled' \in BOOLEAN /\ wake' \in BOOLEAN
    BY Zenon DEF Inv, TypeOK, settings
  <1>3. TypeOK'
    BY <1>1, <1>2 DEF Inv, TypeOK, settings, table
  <1>4. RoundsEnd'
    BY <1>1 DEF RoundsEnd
  <1>5. RowsAgeWithRounds'
    <2> SUFFICES ASSUME ~missed' PROVE age' <= awake' + Slept'
      BY Zenon DEF RowsAgeWithRounds
    <2>1. age <= awake /\ age \in Nat /\ awake \in Nat
      BY BoundsType DEF Inv, TypeOK, RowsAgeWithRounds, Slept
    <2>2. Slept' \in Nat
      BY <1>1 DEF Slept
    <2>3. age' = age /\ awake' = awake
      BY DEF table
    <2>4. age' <= awake' /\ age' \in Int /\ awake' \in Int
      BY <2>1, <2>3
    <2>5. QED
      BY <2>2, <2>4, StaysBelow, Zenon
  <1>6. QED
    BY <1>3, <1>4, <1>5 DEF Inv

LEMMA StepKeepsInv == Inv /\ [Next]_vars => Inv'
  <1> SUFFICES ASSUME Inv, [Next]_vars PROVE Inv'
    OBVIOUS
  <1>1. CASE BeginCheck
    <2>1. wake' \in BOOLEAN /\ missed' = missed /\ enabled' = enabled
      BY <1>1, Zenon DEF BeginCheck, settings
    <2>2. TypeOK'
      BY <1>1, <2>1 DEF BeginCheck, Inv, TypeOK, settings, table
    <2>3. RoundsEnd'
      BY <1>1, BoundsType DEF BeginCheck, RoundsEnd
    <2>4. RowsAgeWithRounds'
      <3> SUFFICES ASSUME ~missed' PROVE age' <= awake' + Slept'
        BY Zenon DEF RowsAgeWithRounds
      <3>1. Slept \in Nat /\ Slept <= planned /\ Slept' = planned
        BY <1>1 DEF BeginCheck, Due, Inv, TypeOK, RoundsEnd, Slept
      <3>2. age <= awake + Slept /\ age' = age /\ awake' = awake
        BY <1>1, <2>1 DEF BeginCheck, Inv, RowsAgeWithRounds, table
      <3>3. QED
        BY <3>1, <3>2, BoundsType DEF Inv, TypeOK
    <2>5. QED
      BY <2>2, <2>3, <2>4 DEF Inv
  <1>2. CASE SkipCheck
    <2>1. planned' \in Nat /\ pc' = "sleeping" /\ elapsed' = 0
      BY <1>2, DelayType DEF SkipCheck
    <2>2. wake' \in BOOLEAN /\ missed' \in BOOLEAN /\ enabled' \in BOOLEAN /\ missed'
      BY <1>2, Zenon DEF SkipCheck, settings, Inv, TypeOK
    <2>3. TypeOK'
      BY <1>2, <2>1, <2>2 DEF SkipCheck, Inv, TypeOK, settings, table
    <2>4. RoundsEnd'
      BY <2>1 DEF RoundsEnd
    <2>5. QED
      BY <2>2, <2>3, <2>4, Zenon DEF Inv, RowsAgeWithRounds
  <1>3. CASE EndCheck
    <2>1. rows' \in Rows
      BY <1>3 DEF EndCheck, RowsByOpenClash, RowsByHandshake
    <2>2. age' \in 0..AgeCap /\ awake' = age'
      BY <1>3, BoundsType
         DEF EndCheck, RowsByOpenClash, RowsByHandshake, Inv, TypeOK, RoundsEnd
    <2>3. missed' \in BOOLEAN /\ wake' \in BOOLEAN /\ enabled' \in BOOLEAN
      BY <1>3, Zenon DEF EndCheck, settings, Inv, TypeOK
    <2>4. TypeOK'
      BY <1>3, <2>1, <2>2, <2>3 DEF EndCheck, Inv, TypeOK, settings
    <2>5. RoundsEnd' /\ Slept' = 0
      BY <1>3 DEF EndCheck, RoundsEnd, Slept
    <2>6. RowsAgeWithRounds'
      <3>1. age' <= awake' /\ age' \in Int /\ awake' \in Int /\ Slept' \in Nat
        BY <2>2, <2>5, BoundsType
      <3>2. QED
        BY <3>1, StaysBelow, Zenon DEF RowsAgeWithRounds
    <2>7. QED
      BY <2>4, <2>5, <2>6 DEF Inv
  <1>4. CASE EndCheckWithoutRows
    <2>1. missed' \in BOOLEAN /\ missed'
      BY <1>4, Zenon DEF EndCheckWithoutRows
    <2>2. flapped' \in SUBSET Nodes
      BY <1>4 DEF EndCheckWithoutRows
    <2>3. QED
      BY <1>4, <2>1, <2>2, EndRoundKeeps DEF EndCheckWithoutRows
  <1>5. CASE EndJudging
    <2>1. missed' = missed /\ missed' \in BOOLEAN /\ pc = "judging"
      BY <1>5, Zenon DEF EndJudging, Inv, TypeOK
    <2>2. flapped' \in SUBSET Nodes
      BY <1>5 DEF EndJudging, Inv, TypeOK
    <2>3. missed' \/ (pc = "judging" /\ ~missed)
      BY <2>1, Zenon
    <2>4. QED
      BY <1>5, <2>1, <2>2, <2>3, EndRoundKeeps DEF EndJudging
  <1>6. CASE CheckElsewhere
    <2>1. rows' \in Rows
      BY <1>6 DEF CheckElsewhere, Rows
    <2>2. age' \in 0..AgeCap /\ awake' = age'
      BY <1>6, BoundsType DEF CheckElsewhere
    <2>3. missed' \in BOOLEAN /\ wake' = wake /\ enabled' = enabled
      BY <1>6, Zenon DEF CheckElsewhere, settings
    <2>4. TypeOK'
      BY <1>6, <2>1, <2>2, <2>3 DEF CheckElsewhere, Inv, TypeOK, settings, loop
    <2>5. RoundsEnd' /\ Slept' = Slept
      BY <1>6 DEF CheckElsewhere, Inv, RoundsEnd, Slept, loop
    <2>6. Slept \in Nat
      BY DEF Slept, Inv, TypeOK
    <2>7. RowsAgeWithRounds'
      <3>1. age' <= awake' /\ age' \in Int /\ awake' \in Int /\ Slept' \in Nat
        BY <2>2, <2>5, <2>6, BoundsType
      <3>2. QED
        BY <3>1, StaysBelow, Zenon DEF RowsAgeWithRounds
    <2>8. QED
      BY <2>4, <2>5, <2>7 DEF Inv
  <1>7. ASSUME NEW p \in Plans, ChangePlan(p) PROVE Inv'
    BY <1>7
       DEF ChangePlan, Inv, TypeOK, RoundsEnd, RowsAgeWithRounds, Slept, table, loop
  <1>8. CASE SwitchChecks
    <2>1. enabled' \in BOOLEAN
      BY <1>8, Zenon DEF SwitchChecks
    <2>2. QED
      BY <1>8, <2>1
         DEF SwitchChecks, Inv, TypeOK, RoundsEnd, RowsAgeWithRounds, Slept, table, loop
  <1>9. ASSUME NEW n \in Nodes, Flap(n) PROVE Inv'
    BY <1>9
       DEF Flap, Inv, TypeOK, RoundsEnd, RowsAgeWithRounds, Slept, settings, table, loop
  <1>10. CASE Tick
    <2>1. clock' \in 0..Day - 1
      BY <1>10, DayType DEF Tick, Inv, TypeOK
    <2>2. /\ age' \in 0..AgeCap /\ age' <= age + 1 /\ elapsed' = elapsed + 1
          /\ awake' = IF pc = "sleeping" THEN awake ELSE Later(awake)
      BY <1>10, HealthyAssumption DEF Tick, Inv, TypeOK, Later
    <2>3. awake' \in 0..AgeCap
      BY <2>2, BoundsType DEF Inv, TypeOK, Later
    <2>4. pc' = pc /\ planned' = planned /\ missed' = missed
      BY <1>10, Zenon DEF Tick
    <2>5. TypeOK'
      BY <1>10, <2>1, <2>2, <2>3 DEF Tick, Inv, TypeOK, settings
    <2>6. RoundsEnd'
      BY <1>10, <2>2, <2>4, BoundsType DEF Tick, Inv, TypeOK, RoundsEnd
    <2>7. RowsAgeWithRounds'
      <3> SUFFICES ASSUME ~missed' PROVE age' <= awake' + Slept'
        BY Zenon DEF RowsAgeWithRounds
      <3>1. /\ age <= awake + Slept /\ age \in Nat /\ awake \in Nat /\ elapsed \in Nat
            /\ planned \in Nat
        BY <2>4 DEF Inv, RowsAgeWithRounds, TypeOK
      <3>2. CASE pc = "sleeping"
        BY <2>2, <2>4, <3>1, <3>2 DEF Slept
      <3>3. CASE pc # "sleeping"
        <4>1. Slept' = Slept /\ Slept \in Nat
          BY <2>4, <3>1, <3>3 DEF Slept
        <4>2. CASE awake < AgeCap
          BY <2>2, <3>1, <3>3, <4>1, <4>2 DEF Later
        <4>3. CASE ~(awake < AgeCap)
          <5>1. awake' = awake /\ awake = AgeCap
            BY <2>2, <3>3, <4>3, BoundsType DEF Later, Inv, TypeOK
          <5>2. QED
            BY <2>2, <4>1, <5>1, BoundsType
        <4>4. QED
          BY <4>2, <4>3
      <3>4. QED
        BY <3>2, <3>3
    <2>8. QED
      BY <2>5, <2>6, <2>7 DEF Inv
  <1>11. CASE UNCHANGED vars
    BY <1>11
       DEF vars, Inv, TypeOK, RoundsEnd, RowsAgeWithRounds, Slept, settings, table, loop
  <1>12. QED
    BY <1>1, <1>2, <1>3, <1>4, <1>5, <1>6, <1>7, <1>8, <1>9, <1>10, <1>11
       DEF Next, Scheduler

THEOREM Invariance == Spec => []Inv
  BY Initially, StepKeepsInv, PTL DEF Spec

-----------------------------------------------------------------------------
\* Its consequences.

\* Every variable has its type.
THEOREM TypeCorrect == Spec => []TypeOK
  <1>1. Inv => TypeOK
    BY DEF Inv
  <1>2. QED
    BY <1>1, Invariance, PTL

\* Twice the interval, but at least the minimum, is a window long enough for the
\* one sleep between the rows of two checks and rounds that keep to the Allowance,
\* whatever the intervals and however long a check takes (freshness_window).
THEOREM WindowIsLongEnough == Spec => []LastCheckHonoured
  <1>1. Inv => LastCheckHonoured
    <2> SUFFICES ASSUME Inv, enabled, ~missed, planned <= Effective(Hour), awake <= Allowance,
                        NEW n \in Nodes, rows[n] = "failed"
                 PROVE  n \in LeftOut
      BY DEF LastCheckHonoured
    <2>1. Slept <= planned
      BY DEF Inv, TypeOK, RoundsEnd, Slept
    <2>2. age <= awake + Slept
      BY DEF Inv, RowsAgeWithRounds
    <2>3. /\ Effective(Hour) \in Nat /\ planned \in Nat /\ Slept \in Nat
          /\ age \in Nat /\ awake \in Nat
      BY Intervals DEF Inv, TypeOK, Slept
    <2>4. age <= Allowance + Effective(Hour)
      BY <2>1, <2>2, <2>3, BoundsType DEF Allowance
    <2>5. Allowance + Effective(Hour) <= Window
      BY <2>3, BoundsType DEF Allowance, Window
    <2>6. age <= Window
      BY <2>3, <2>4, <2>5, BoundsType DEF Allowance, Window
    <2>7. QED
      BY <2>6 DEF LeftOut
  <1>2. QED
    BY <1>1, Invariance, PTL
=============================================================================
