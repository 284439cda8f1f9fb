-------------------------- MODULE MCConvertedCache --------------------------
(* Small instances of ConvertedCache for TLC. *)
EXTENDS ConvertedCache, TLC

Symmetry == Permutations(Tasks) \cup Permutations(Payloads) \cup Permutations(Renderers)
=============================================================================
