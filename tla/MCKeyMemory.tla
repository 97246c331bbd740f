---------------------------- MODULE MCKeyMemory -----------------------------
(* The instances of KeyMemory that TLC checks. *)
EXTENDS KeyMemory, TLC

Symmetry == Permutations(Key) \cup Permutations(Page)
=============================================================================
