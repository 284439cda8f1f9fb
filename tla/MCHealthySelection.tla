------------------------- MODULE MCHealthySelection -------------------------
(* Small instances of HealthySelection for TLC. *)
EXTENDS HealthySelection

\* Nights within a day and over midnight, with the longer interval by day and by
\* night; the shorter one is less than a check may take.
MCPlans ==
    {[day |-> 1, night |-> 3, nightly |-> TRUE, start |-> 1, end |-> 0],
     [day |-> 3, night |-> 1, nightly |-> TRUE, start |-> 0, end |-> 1]}
=============================================================================
