---------------------------- MODULE MCRefresher ----------------------------
(* Small instances of Refresher for TLC. *)
EXTENDS Refresher, TLC

\* Tasks and payloads are interchangeable; used by runs without liveness.
Symmetry == Permutations(Tasks) \cup Permutations(Payloads)
=============================================================================
