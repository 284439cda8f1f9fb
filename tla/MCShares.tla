------------------------------ MODULE MCShares ------------------------------
(* Small instances of Shares for TLC. *)
EXTENDS Shares, TLC

Symmetry == Permutations(Threads) \cup Permutations(Ids) \cup Permutations(Tokens)
=============================================================================
