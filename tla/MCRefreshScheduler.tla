------------------------- MODULE MCRefreshScheduler -------------------------
(* Small instances of RefreshScheduler for TLC. *)
EXTENDS RefreshScheduler
=============================================================================
