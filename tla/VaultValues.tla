---------------------------- MODULE VaultValues -----------------------------
(***************************************************************************)
(* lib.rs: a vault is a master key, the hierarchy derived from it and      *)
(* possibly a key-slot table.  These are the values its methods compute;   *)
(* AegisVault and AegisCli say when they are called.                       *)
(***************************************************************************)
EXTENDS KeyHierarchy, KeySlots

CONSTANT None    \* Rust's None

NewVault(master) ==
  [master |-> master, hierarchy |-> from_master(master), slots |-> None]

(* Fault: the hierarchy stays that of the vault before. *)
Rebuilt_KeepingHierarchy(v, master, table) ==
  [v EXCEPT !.master = master, !.slots = table]

(* The vault open_from_slots leaves behind when it succeeds in vault v. *)
Rebuilt(v, master, table) ==
  [v EXCEPT !.master = master, !.hierarchy = from_master(master), !.slots = table]

Rotated(v, master) ==
  [v EXCEPT !.master = master, !.hierarchy = from_master(master), !.slots = None]

(* Fault: the recovered master is not compared with the verifier. *)
OpenTable_WithoutVerifier(bytes, header_salt, passphrase) ==
  LET parsed   == from_bytes(bytes, header_salt)
      unsealed == unseal_with(parsed.val, passphrase)
  IN  IF ~parsed.ok THEN parsed
      ELSE IF ~unsealed.ok THEN unsealed
      ELSE Ok([master |-> unsealed.val.master, table |-> parsed.val])

(* What open_from_slots decides before it changes the vault. *)
OpenTable(bytes, header_salt, passphrase) ==
  LET parsed   == from_bytes(bytes, header_salt)
      unsealed == unseal_with(parsed.val, passphrase)
  IN  IF ~parsed.ok THEN parsed
      ELSE IF ~unsealed.ok THEN unsealed
      ELSE IF volume_verifier(unsealed.val.master) # parsed.val.verifier
      THEN Err("VolumeMismatch")
      ELSE Ok([master |-> unsealed.val.master, table |-> parsed.val])

domain(v, d) == v.hierarchy[d]

Encrypted(v, d, plaintext, aad, algo, draw) ==
  seal(algo, domain(v, d), draw, plaintext, aad)

Decrypted(v, d, nonce, ct, aad, algo) == open(algo, domain(v, d), nonce, ct, aad)

verify_volume_result(v) ==
  v.slots # None /\ volume_verifier(v.master) = v.slots.verifier

Serialized(table) == [bytes |-> to_bytes(table), header_salt |-> table.header_salt]
=============================================================================
