---------------------------- MODULE KeyHierarchy ----------------------------
(***************************************************************************)
(* hierarchy.rs: the keys derived from a master key, one for each domain,  *)
(* and the sub-keys derived from a domain key.                             *)
(***************************************************************************)
EXTENDS Primitives

MASTER_SALT == "soteria-kh-v1/master-salt"
SUBKEY_SALT == "soteria-kh-v1/subkey-salt"

Domain == {"Enc", "Auth", "Meta", "Shard", "Xts", "Handle"}

(* The HKDF info label of a domain. *)
info_tag(d) ==
  CASE d = "Enc"    -> "soteria-kh-v1/k-enc/aead-bulk"
    [] d = "Auth"   -> "soteria-kh-v1/k-auth/block-mac"
    [] d = "Meta"   -> "soteria-kh-v1/k-meta/metadata"
    [] d = "Shard"  -> "soteria-kh-v1/k-shard/erasure-coding"
    [] d = "Xts"    -> "soteria-kh-v1/k-xts/fde-sector"
    [] d = "Handle" -> "soteria-kh-v1/k-handle/identity"

derive(master, tag) == hkdf_sha256(master, MASTER_SALT, tag)

(* One key for all domains, as in older volumes. *)
legacy_single_key(master) == [d \in Domain |-> master]

(* Every derivation answers, so from_master never reports an error. *)
from_master(master) == [d \in Domain |-> derive(master, info_tag(d))]

subkey(key, context) == hkdf_sha256(key, SUBKEY_SALT, context)
=============================================================================
