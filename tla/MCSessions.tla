----------------------------- MODULE MCSessions -----------------------------
(* Small instances of Sessions for TLC. *)
EXTENDS Sessions, TLC

Symmetry == Permutations(Threads) \cup Permutations(Tokens) \cup Permutations(Keys)
            \cup Permutations(Modes)
=============================================================================
