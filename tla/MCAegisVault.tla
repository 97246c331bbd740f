--------------------------- MODULE MCAegisVault -----------------------------
(* The instances of AegisVault that TLC checks. *)
EXTENDS VaultImplementsRoster, TLC

(* unlock's salt is public, its costs are the caller's; with a memory cost
   of zero argon2 refuses. *)
Accepted == [salt |-> SaltOf(0, 16), memory_kib |-> 65536, iterations |-> 3]
Refused  == [salt |-> SaltOf(0, 16), memory_kib |-> 0, iterations |-> 3]

OneKdfParam  == {Accepted}
TwoKdfParams == {Accepted, Refused}

Symmetry == Permutations(Passphrase) \cup Permutations(Aad)
=============================================================================
