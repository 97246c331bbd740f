----------------------------- MODULE Primitives -----------------------------
(***************************************************************************)
(* The cryptographic primitives the crate is built from (kdf.rs, aead.rs   *)
(* and the BLAKE3 keyed hash), as terms.  The output of a primitive is the *)
(* record of its inputs: it is a function of them, and two outputs are     *)
(* equal only if all inputs are.  Collisions, forged tags and repeated     *)
(* random numbers, whose probability is negligible, are left out.          *)
(***************************************************************************)
EXTENDS Naturals

(* Rust's Result: Ok(value) or Err(AegisError). *)
Ok(v)  == [ok |-> TRUE, val |-> v]
Err(e) == [ok |-> FALSE, err |-> e]

(* Unwinding out of a library call, which no Result reports. *)
Panic  == Err("panic")

-----------------------------------------------------------------------------
(* kdf.rs                                                                  *)

(* A salt is its identity and its length in bytes. *)
SaltOf(id, len) == [id |-> id, len |-> len]

(* What the argon2 crate accepts: Params::new wants at least 8 KiB and one
   iteration, hash_password_into a salt of at least 8 bytes. *)
Argon2Accepts(salt, memory_kib, iterations) ==
  /\ memory_kib >= 8
  /\ iterations >= 1
  /\ salt.len >= 8

argon2id_root(passphrase, salt, memory_kib, iterations) ==
  IF Argon2Accepts(salt, memory_kib, iterations)
  THEN Ok([kdf |-> "argon2id", passphrase |-> passphrase, salt |-> salt,
           m_cost |-> memory_kib, t_cost |-> iterations])
  ELSE Err("Argon2")

(* The expansion is 32 bytes long, far below the limit at which
   Hkdf::expand reports an error: the function always answers. *)
hkdf_sha256(ikm, salt, info) ==
  [kdf |-> "hkdf", ikm |-> ikm, salt |-> salt, info |-> info]

-----------------------------------------------------------------------------
(* aead.rs                                                                 *)

AeadAlgo == {"Aes256Gcm", "XChaCha20Poly1305"}

NonceLen(algo) == IF algo = "Aes256Gcm" THEN 12 ELSE 24

(* The nonce a draw of OsRng yields for algo. *)
FreshNonce(algo, draw) == [draw |-> draw, len |-> NonceLen(algo)]

(* A ciphertext: the message under its key, bound to nonce and aad. *)
Ciphertext(algo, key, nonce, msg, aad) ==
  [algo |-> algo, key |-> key, nonce |-> nonce, msg |-> msg, aad |-> aad]

(* 48 zero bytes: no key authenticates them. *)
ZeroCt == [zeroed |-> TRUE]

seal(algo, key, draw, plaintext, aad) ==
  LET nonce == FreshNonce(algo, draw)
  IN  [nonce |-> nonce, ct |-> Ciphertext(algo, key, nonce, plaintext, aad)]

(* The aes-gcm and chacha20poly1305 crates: from_slice panics on a nonce of
   another length, decrypt answers only for the exact inputs of encrypt. *)
AeadDecrypt(algo, key, nonce, ct, aad) ==
  IF nonce.len # NonceLen(algo)
  THEN Panic
  ELSE IF "msg" \in DOMAIN ct /\ ct = Ciphertext(algo, key, nonce, ct.msg, aad)
       THEN Ok(ct.msg)
       ELSE Err("AeadOpen")

(* Fault: the nonce-length test is left to the cipher crate. *)
open_WithoutLengthTest(algo, key, nonce, ct, aad) ==
  AeadDecrypt(algo, key, nonce, ct, aad)

open(algo, key, nonce, ct, aad) ==
  IF nonce.len # NonceLen(algo)
  THEN Err("AeadOpen")
  ELSE AeadDecrypt(algo, key, nonce, ct, aad)

-----------------------------------------------------------------------------
(* blake3                                                                  *)

keyed_hash(key, data) == [hash |-> "blake3", key |-> key, data |-> data]
=============================================================================
