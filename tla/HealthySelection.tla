-------------------------- MODULE HealthySelection --------------------------
(* Which nodes /clash-ha serves (public.py, ha_subscription): those that are *)
(* not known to have failed a recent check.  What is recent depends on the   *)
(* interval of the checks, which is another one at night (settings.py), and  *)
(* on the health scheduler (app.py), which computes its delay when it lies   *)
(* down.  Rows are replaced all at once, with one time of checking           *)
(* (health.py, db.py).                                                       *)
(*                                                                           *)
(* A tick is half a minute; the day is scaled down.  While the backup nodes  *)
(* are in use, /clash-ha is /clash, which leaves nothing out: not here.      *)
EXTENDS Integers, FiniteSets

CONSTANTS
    Nodes,          \* of the cached subscription
    Unprobed,       \* those of them that handshakes skip: UDP protocols
    Plans,          \* values of the settings of the health checks
    HoursPerDay, TicksPerHour,
    MinWindow,      \* 120 seconds
    FallbackDelay,  \* the delay when the settings cannot be read: an hour
    MaxCheck,       \* bound of one check, by OpenClash and then by handshakes
    MaxRefresh,     \* bound of an auto refresh after it
    AgeCap          \* bound: the age of the rows, and awake, saturate here

VARIABLES
    plan,       \* the stored settings: day and night intervals, the night
    enabled,    \* health_enabled
    clock,      \* the time of day
    alive,      \* the nodes a probe would find working
    rows,       \* node_health: what the last check found of each node
    age,        \* the time since their checked_at
    pc,         \* the health scheduler is at the top of a round, checks, judges
                \* what the check found (an auto refresh, if too few), or sleeps
    wake,       \* its wake event
    planned,    \* the delay it sleeps, or slept before this check
    elapsed,    \* ticks of this sleep, check or auto refresh
    flapped,    \* nodes that changed during this check
    missed,     \* history: the last round of the scheduler brought no rows
    awake       \* history: the time since checked_at that it did not sleep

settings == <<plan, enabled>>
table == <<rows, age>>
loop == <<pc, planned, elapsed>>
vars == <<settings, clock, alive, table, loop, wake, flapped, missed, awake>>

-----------------------------------------------------------------------------
Day == HoursPerDay * TicksPerHour
Hours == 0..HoursPerDay - 1
Hour == clock \div TicksPerHour

\* is_night
IsNight(hour) ==
    /\ plan.nightly
    /\ IF plan.start < plan.end
       THEN plan.start <= hour /\ hour < plan.end
       ELSE hour >= plan.start \/ hour < plan.end

\* effective_health_interval
Effective(hour) == IF IsNight(hour) THEN plan.night ELSE plan.day

\* Deviation: rows are recent for one interval.
WindowOfOne ==
    IF Effective(Hour) > MinWindow THEN Effective(Hour) ELSE MinWindow

\* freshness_window
Window ==
    IF 2 * Effective(Hour) > MinWindow THEN 2 * Effective(Hour) ELSE MinWindow

\* Deviation: a failure counts until the next check.
LeftOutForGood == IF enabled THEN {n \in Nodes : rows[n] = "failed"} ELSE {}

\* recent_unhealthy, for a request at this moment.
LeftOut == IF enabled /\ age <= Window THEN {n \in Nodes : rows[n] = "failed"} ELSE {}

ASSUME HealthyAssumption ==
    /\ Unprobed \subseteq Nodes
    /\ HoursPerDay \in Nat \ {0} /\ TicksPerHour \in Nat \ {0}
    /\ MinWindow \in Nat /\ FallbackDelay \in Nat
    /\ MaxCheck \in Nat /\ MaxRefresh \in Nat /\ AgeCap \in Nat
    /\ MinWindow < AgeCap /\ MaxCheck <= AgeCap
    /\ Plans # {}
    /\ \A p \in Plans :
        /\ p \in [day: Nat \ {0}, night: Nat \ {0}, nightly: BOOLEAN, start: Hours, end: Hours]
        /\ p.start # p.end
        /\ 2 * p.day < AgeCap /\ 2 * p.night < AgeCap

Rows == [Nodes -> {"none", "passed", "failed"}]

TypeOK ==
    /\ plan \in Plans /\ enabled \in BOOLEAN
    /\ clock \in 0..Day - 1
    /\ alive \in SUBSET Nodes /\ flapped \in SUBSET Nodes
    /\ rows \in Rows
    /\ age \in 0..AgeCap /\ awake \in 0..AgeCap
    /\ pc \in {"top", "checking", "judging", "sleeping"}
    /\ planned \in Nat /\ elapsed \in Nat
    /\ {wake, missed} \subseteq BOOLEAN

Init ==
    /\ plan \in Plans /\ enabled \in BOOLEAN
    /\ clock \in 0..Day - 1
    /\ alive = Nodes /\ flapped = {}
    /\ rows = [n \in Nodes |-> "none"] /\ age = AgeCap
    /\ pc = "top" /\ wake = FALSE
    /\ planned = Effective(Hour) /\ elapsed = 0
    /\ missed = TRUE /\ awake = 0

-----------------------------------------------------------------------------
\* The health scheduler: run_health, and a sleep.

\* A round is due: after the sleep, or at once.
Due == pc = "top" \/ (pc = "sleeping" /\ (wake \/ elapsed = planned))

\* The delay is the interval of this moment, or an hour if it cannot be read.
GoToSleep ==
    /\ pc' = "sleeping" /\ elapsed' = 0
    /\ planned' \in {Effective(Hour), FallbackDelay}

\* After the round: the next one at once, if reschedule() was called meanwhile.
EndRound ==
    IF wake THEN pc' = "top" /\ elapsed' = 0 /\ UNCHANGED planned ELSE GoToSleep

\* A round begins; the wake event is cleared first.
BeginCheck ==
    /\ Due /\ enabled
    /\ pc' = "checking" /\ elapsed' = 0
    /\ wake' = FALSE
    /\ UNCHANGED <<settings, clock, alive, table, planned, flapped, missed, awake>>

\* Checks are switched off.
SkipCheck ==
    /\ Due /\ ~enabled
    /\ GoToSleep
    /\ wake' = FALSE
    /\ missed' = TRUE
    /\ UNCHANGED <<settings, clock, alive, table, flapped, awake>>

\* What a check finds of a node that was well all the time, or ill.
Found(n) ==
    IF n \in flapped THEN {"passed", "failed"}
    ELSE IF n \in alive THEN {"passed"} ELSE {"failed"}

\* OpenClash measured, provider by provider, of which some may not have answered;
\* then the time was taken.
RowsByOpenClash ==
    /\ rows' \in {r \in Rows : \A n \in Nodes : r[n] \in Found(n) \cup {"none"}}
    /\ age' = 0

\* OpenClash, if it was asked, was of no use; the time was taken; then handshakes
\* tried what speaks TCP.
RowsByHandshake ==
    /\ rows' \in {r \in Rows :
                    \A n \in Nodes : r[n] \in IF n \in Unprobed THEN {"none"} ELSE Found(n)}
    /\ age' \in 0..elapsed

\* The check replaces the rows.
EndCheck ==
    /\ pc = "checking"
    /\ RowsByOpenClash \/ RowsByHandshake
    /\ awake' = age'
    /\ missed' = FALSE
    /\ pc' = "judging" /\ elapsed' = 0
    /\ flapped' = {}
    /\ UNCHANGED <<settings, clock, alive, planned, wake>>

\* No subscription is cached, or an error, which the scheduler logs.
EndCheckWithoutRows ==
    /\ pc = "checking"
    /\ missed' = TRUE
    /\ EndRound
    /\ flapped' = {}
    /\ UNCHANGED <<settings, clock, alive, table, wake, awake>>

\* Too few nodes were online and an auto refresh was made, or not.
EndJudging ==
    /\ pc = "judging"
    /\ EndRound
    /\ UNCHANGED <<settings, clock, alive, table, wake, flapped, missed, awake>>

-----------------------------------------------------------------------------
\* Everybody else.

\* A check for the admin, or in the hook of a refresh, whose handshakes, if it
\* was they, began some time ago.
CheckElsewhere ==
    /\ enabled
    /\ rows' = [n \in Nodes |-> IF n \in alive THEN "passed" ELSE "failed"]
    /\ age' \in 0..MaxCheck
    /\ awake' = age'
    /\ missed' = FALSE
    /\ UNCHANGED <<settings, clock, alive, loop, wake, flapped>>

\* PUT /settings with another plan wakes the health scheduler ...
ChangePlan(p) ==
    /\ p # plan
    /\ plan' = p
    /\ wake' = TRUE
    /\ UNCHANGED <<enabled, clock, alive, table, loop, flapped, missed, awake>>

\* ... but switching the checks on or off does not.
SwitchChecks ==
    /\ enabled' = ~enabled
    /\ UNCHANGED <<plan, clock, alive, table, loop, wake, flapped, missed, awake>>

\* A node stops to work, or works again.
Flap(n) ==
    /\ alive' = IF n \in alive THEN alive \ {n} ELSE alive \cup {n}
    /\ flapped' = IF pc = "checking" THEN flapped \cup {n} ELSE flapped
    /\ UNCHANGED <<settings, clock, table, loop, wake, missed, awake>>

Later(ticks) == IF ticks < AgeCap THEN ticks + 1 ELSE ticks

Tick ==
    /\ \/ pc = "checking" /\ elapsed < MaxCheck
       \/ pc = "judging" /\ elapsed < MaxRefresh
       \/ pc = "sleeping" /\ elapsed < planned /\ ~wake
    /\ clock' = (clock + 1) % Day
    /\ elapsed' = elapsed + 1
    /\ age' = Later(age)
    /\ awake' = IF pc = "sleeping" THEN awake ELSE Later(awake)
    /\ UNCHANGED <<settings, alive, rows, pc, planned, wake, flapped, missed>>

-----------------------------------------------------------------------------
Scheduler == BeginCheck \/ SkipCheck \/ EndCheck \/ EndCheckWithoutRows \/ EndJudging

Next ==
    \/ Scheduler
    \/ CheckElsewhere
    \/ \E p \in Plans : ChangePlan(p)
    \/ SwitchChecks
    \/ \E n \in Nodes : Flap(n)
    \/ Tick

Spec == Init /\ [][Next]_vars

\* The scheduler goes on, and time passes, whoever changes what.
LiveSpec == Spec /\ WF_vars(Scheduler) /\ SF_vars(Tick)

-----------------------------------------------------------------------------
\* What the window leaves for the rounds besides one sleep: an interval, or the
\* rest of 120 seconds.
Allowance ==
    LET interval == Effective(Hour)
    IN  IF 2 * interval > MinWindow THEN interval ELSE MinWindow - interval

(* A node that failed the last check is left out of /clash-ha until the next *)
(* check has brought its rows ("only nodes that passed the last check",      *)
(* README.md:116; public.py, freshness_window): one sleep lies between, and  *)
(* the window has room for it and for an Allowance.  Three cases are         *)
(* excepted, and real.  A round that brought no rows makes no verdict.  The  *)
(* delay was computed before the end of the night, before a change of the    *)
(* settings, or without them, and is longer than the interval of the window. *)
(* And the rounds themselves, in which OpenClash may be waited for a minute  *)
(* and more per provider (integration.py:91) before the handshakes begin,    *)
(* and a refresh be made after the rows are stored (integration.py:63), took *)
(* longer than the Allowance: intervals may be as short as 30 seconds.       *)
LastCheckHonoured ==
    enabled /\ ~missed /\ planned <= Effective(Hour) /\ awake <= Allowance =>
        \A n \in Nodes : rows[n] = "failed" => n \in LeftOut

(* A node that works from some time on is served from some time on, whether  *)
(* the checks go on, fail for ever or are switched off meanwhile             *)
(* (tests/test_openclash_api.py, test_clash_ha_fails_open_with_stale_health).*)
WorkingNodeServed == \A n \in Nodes : <>[](n \in alive) => <>[](n \notin LeftOut)
=============================================================================
