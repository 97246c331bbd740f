----------------------------- MODULE MCAegisCli -----------------------------
(* The instances of AegisCli that TLC checks. *)
EXTENDS CliImplementsVaultFile, TLC

Symmetry == Permutations(Terminal) \cup Permutations(Passphrase)
=============================================================================
