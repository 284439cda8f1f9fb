--------------------------- MODULE LastGoodCache ---------------------------
(* What the subscription cache promises to whoever downloads from it,        *)
(* whatever the refresher does to keep the promise: the payload on offer is  *)
(* replaced in one step, only by a payload that was downloaded and validated *)
(* first, and once there is one it never goes away.  Failures, crashes and   *)
(* cleaning are invisible.                                                   *)

CONSTANTS
    Payloads,   \* validated subscription bodies, named by their digest
    None        \* no payload, and not one of them

VARIABLES
    served,     \* the payload a download is answered with
    candidate   \* a validated payload that is not published yet

vars == <<served, candidate>>

Init == served = None /\ candidate = None

\* A download passed validation.
Validate(p) ==
    /\ candidate = None
    /\ candidate' = p
    /\ UNCHANGED served

\* The candidate becomes what is served.
Publish ==
    /\ candidate # None
    /\ served' = candidate
    /\ candidate' = None

\* An error or a restart loses the candidate, never what is served.
Discard ==
    /\ candidate # None
    /\ candidate' = None
    /\ UNCHANGED served

Next == (\E p \in Payloads : Validate(p)) \/ Publish \/ Discard

Spec == Init /\ [][Next]_vars

\* No candidate is left pending for ever.
LiveSpec == Spec /\ WF_vars(Publish \/ Discard)
=============================================================================
