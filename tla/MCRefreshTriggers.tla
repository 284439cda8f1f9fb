------------------------- MODULE MCRefreshTriggers -------------------------
(* Small instances of RefreshTriggers for TLC. *)
EXTENDS RefreshTriggers, TLC

Symmetry == Permutations(Others)
=============================================================================
