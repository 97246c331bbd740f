----------------------------- MODULE AegisVault -----------------------------
(***************************************************************************)
(* lib.rs: the vaults of a program.  It creates and drops vaults, calls    *)
(* their methods in any order, keeps the serialized tables it asked for,   *)
(* and opens any of them again, in any vault, long after they were written *)
(* and also damaged: with the body, the MAC and the header salt of         *)
(* different writes.                                                       *)
(*                                                                         *)
(* Every call is one step: a method runs on &self or &mut self, and no     *)
(* two threads have the same vault.                                        *)
(***************************************************************************)
EXTENDS VaultValues

CONSTANTS
  Handle,       \* the variables of the program that can hold a vault
  Passphrase,   \* the passphrases its users have
  KdfParam,     \* the arguments of unlock: records of salt, memory_kib, iterations
  RawMaster,    \* the 256-bit keys given to from_master_key
  Plaintext, Aad,
  MaxDraws,     \* bound: calls that draw from OsRng
  MaxSaved,     \* bound: serialized tables the program keeps
  MaxBlobs      \* bound: ciphertexts the program keeps

ASSUME KdfParamAssumption ==
  \A p \in KdfParam : p.memory_kib \in Nat /\ p.iterations \in Nat

ASSUME BoundsAssumption ==
  /\ MaxDraws \in Nat
  /\ MaxSaved \in Nat
  /\ MaxBlobs \in Nat

VARIABLES
  vault,    \* the vault of each Handle
  saved,    \* the serialized tables, each with its header salt
  blobs,    \* the ciphertexts, each with its nonce
  draws,    \* how many calls have drawn from OsRng
  ret,      \* the last call: for whom, about which slot, and its outcome
  retired   \* history: the masters that rotate_master replaced

vars == <<vault, saved, blobs, draws, ret, retired>>

-----------------------------------------------------------------------------
(* The calls                                                               *)

Outcome(result) == IF result.ok THEN "Ok" ELSE result.err

(* A call with the passphrase of a user, or about the slot idx. *)
Replies(op, out, passphrase, idx) ==
  ret' = [op |-> op, out |-> out, by |-> passphrase, idx |-> idx]

Returns(op, result) == Replies(op, Outcome(result), None, None)

Draw == draws < MaxDraws /\ draws' = draws + 1

(* Room to keep one more serialized table. *)
Keep(s) == Cardinality(saved \cup {s}) <= MaxSaved /\ saved' = saved \cup {s}

from_master_key(h, raw) ==
  /\ vault[h] = None
  /\ vault' = [vault EXCEPT ![h] = NewVault(raw)]
  /\ Returns("from_master_key", Ok({}))
  /\ UNCHANGED <<saved, blobs, draws, retired>>

unlock(h, passphrase, p) ==
  LET root == argon2id_root(passphrase, p.salt, p.memory_kib, p.iterations)
  IN  /\ vault[h] = None
      /\ vault' = IF root.ok THEN [vault EXCEPT ![h] = NewVault(root.val)] ELSE vault
      /\ Returns("unlock", root)
      /\ UNCHANGED <<saved, blobs, draws, retired>>

seal_slots(h, passphrase) ==
  /\ vault[h] # None
  /\ Draw
  /\ vault' = [vault EXCEPT ![h].slots = new_initial(vault[h].master, passphrase, draws')]
  /\ Replies("seal_slots", "Ok", passphrase, None)
  /\ UNCHANGED <<saved, blobs, retired>>

(* A vault without a table gets one, with a single slot. *)
add_first_slot(h, passphrase) ==
  /\ vault[h] # None
  /\ vault[h].slots = None
  /\ Draw
  /\ vault' = [vault EXCEPT ![h].slots = new_initial(vault[h].master, passphrase, draws')]
  /\ Replies("add_slot", "Ok", passphrase, 0)
  /\ UNCHANGED <<saved, blobs, retired>>

(* A full table is refused before anything is drawn. *)
add_next_slot(h, passphrase) ==
  /\ vault[h] # None
  /\ vault[h].slots # None
  /\ LET added == table_add_slot(vault[h].slots, vault[h].master, passphrase, draws + 1)
     IN  /\ IF added.ok
            THEN Draw /\ vault' = [vault EXCEPT ![h].slots = added.val.table]
            ELSE UNCHANGED <<draws, vault>>
         /\ Replies("add_slot", Outcome(added), passphrase,
                    IF added.ok THEN added.val.idx ELSE None)
  /\ UNCHANGED <<saved, blobs, retired>>

add_slot(h, passphrase) == add_first_slot(h, passphrase) \/ add_next_slot(h, passphrase)

revoke_slot(h, idx) ==
  /\ vault[h] # None
  /\ LET revoked == IF vault[h].slots = None THEN Err("LastSlotRevocation")
                    ELSE table_revoke_slot(vault[h].slots, idx)
     IN  /\ vault' = IF revoked.ok THEN [vault EXCEPT ![h].slots = revoked.val] ELSE vault
         /\ Replies("revoke_slot", Outcome(revoked), None, idx)
  /\ UNCHANGED <<saved, blobs, draws, retired>>

(* The body, the MAC and the salt the caller passes may be of different
   writes s1, s2 and s3. *)
open_from_slots(h, s1, s2, s3, passphrase) ==
  /\ vault[h] # None
  /\ LET bytes  == [body |-> s1.bytes.body, mac |-> s2.bytes.mac]
         opened == OpenTable(bytes, s3.header_salt, passphrase)
     IN  /\ vault' = IF opened.ok
                     THEN [vault EXCEPT ![h] = Rebuilt(@, opened.val.master, opened.val.table)]
                     ELSE vault
         /\ Replies("open_from_slots", Outcome(opened), passphrase, None)
  /\ UNCHANGED <<saved, blobs, draws, retired>>

verify_volume(h) ==
  /\ vault[h] # None
  /\ Replies("verify_volume", IF verify_volume_result(vault[h]) THEN "true" ELSE "false",
             None, None)
  /\ UNCHANGED <<vault, saved, blobs, draws, retired>>

(* slots_to_bytes and slots_header_salt; the caller keeps what they give. *)
slots_to_bytes(h) ==
  /\ vault[h] # None
  /\ vault[h].slots # None
  /\ Keep(Serialized(vault[h].slots))
  /\ Returns("slots_to_bytes", Ok({}))
  /\ UNCHANGED <<vault, blobs, draws, retired>>

rotate_master(h) ==
  /\ vault[h] # None
  /\ Draw
  /\ vault' = [vault EXCEPT ![h] = Rotated(@, rotate(draws'))]
  /\ retired' = retired \cup {vault[h].master}
  /\ Returns("rotate_master", Ok({}))
  /\ UNCHANGED <<saved, blobs>>

(* The ciphertext is kept with the domain and the master it was made for. *)
encrypt(h, d, plaintext, aad, algo) ==
  /\ vault[h] # None
  /\ Cardinality(blobs) < MaxBlobs
  /\ Draw
  /\ LET sealed == Encrypted(vault[h], d, plaintext, aad, algo, draws')
     IN  blobs' = blobs \cup {[nonce |-> sealed.nonce, ct |-> sealed.ct,
                               domain |-> d, master |-> vault[h].master]}
  /\ Returns("encrypt", Ok({}))
  /\ UNCHANGED <<vault, saved, retired>>

decrypt(h, d, blob, aad, algo) ==
  /\ vault[h] # None
  /\ Returns("decrypt", Decrypted(vault[h], d, blob.nonce, blob.ct, aad, algo))
  /\ UNCHANGED <<vault, saved, blobs, draws, retired>>

(* The vault goes out of scope, or its process dies. *)
Drop(h) ==
  /\ vault[h] # None
  /\ vault' = [vault EXCEPT ![h] = None]
  /\ Returns("drop", Ok({}))
  /\ UNCHANGED <<saved, blobs, draws, retired>>

-----------------------------------------------------------------------------
(* The public KeySlotTable on its own: parse a kept table, change it and
   serialize it again.  add_slot takes its caller's word for the master.   *)

TableAddSlot(s, master, passphrase) ==
  /\ Draw
  /\ LET parsed == from_bytes(s.bytes, s.header_salt)
         added  == table_add_slot(parsed.val, master, passphrase, draws')
     IN  parsed.ok /\ added.ok /\ Keep(Serialized(added.val.table))
  /\ Returns("KeySlotTable::add_slot", Ok({}))
  /\ UNCHANGED <<vault, blobs, retired>>

TableRevokeSlot(s, idx) ==
  /\ LET parsed  == from_bytes(s.bytes, s.header_salt)
         revoked == table_revoke_slot(parsed.val, idx)
     IN  parsed.ok /\ revoked.ok /\ Keep(Serialized(revoked.val))
  /\ Returns("KeySlotTable::revoke_slot", Ok({}))
  /\ UNCHANGED <<vault, blobs, draws, retired>>

-----------------------------------------------------------------------------
Init ==
  /\ vault = [h \in Handle |-> None]
  /\ saved = {}
  /\ blobs = {}
  /\ draws = 0
  /\ ret = [op |-> "none", out |-> "Ok", by |-> None, idx |-> None]
  /\ retired = {}

Lifecycle(h) ==
  \/ \E raw \in RawMaster : from_master_key(h, raw)
  \/ \E pw \in Passphrase, p \in KdfParam : unlock(h, pw, p)
  \/ rotate_master(h)
  \/ Drop(h)

Slots(h) ==
  \/ \E pw \in Passphrase : seal_slots(h, pw)
  \/ \E pw \in Passphrase : add_slot(h, pw)
  \/ \E idx \in 0 .. MAX_SLOTS : revoke_slot(h, idx)
  \/ slots_to_bytes(h)
  \/ \E s1, s2, s3 \in saved, pw \in Passphrase : open_from_slots(h, s1, s2, s3, pw)
  \/ verify_volume(h)

Data(h) ==
  \/ \E d \in Domain, msg \in Plaintext, aad \in Aad, algo \in AeadAlgo :
       encrypt(h, d, msg, aad, algo)
  \/ \E d \in Domain, b \in blobs, aad \in Aad, algo \in AeadAlgo :
       decrypt(h, d, b, aad, algo)

DirectTableUse ==
  \E s \in saved :
    \/ \E h \in Handle, pw \in Passphrase :
         vault[h] # None /\ TableAddSlot(s, vault[h].master, pw)
    \/ \E idx \in 0 .. MAX_SLOTS : TableRevokeSlot(s, idx)

(* The vaults on their own. *)
Next == \E h \in Handle : Lifecycle(h) \/ Slots(h) \/ Data(h)

Spec == Init /\ [][Next]_vars

(* With callers that also change kept tables behind the vaults' back. *)
OpenNext == Next \/ DirectTableUse

OpenSpec == Init /\ [][OpenNext]_vars
-----------------------------------------------------------------------------
(* Types                                                                   *)

SaltOfSlot == [id : Nat, len : {16}]

Salt == SaltOfSlot \cup {p.salt : p \in KdfParam}

Master ==
  RawMaster \cup [random : Nat]
            \cup [kdf : {"argon2id"}, passphrase : Passphrase, salt : Salt,
                  m_cost : Nat, t_cost : Nat]

Nonce  == [draw : Nat, len : {12, 24}]

SlotCt ==
  {ZeroCt} \cup
  [algo : {"Aes256Gcm"}, key : Master, nonce : Nonce, msg : Master, aad : {HEADER_MAGIC}]

KeySlot == [salt : SaltOfSlot, nonce : Nonce, ct : SlotCt, enabled : BOOLEAN]

Verifier == [hash : {"blake3"}, key : {"volume-verifier-v1"}, data : Master]

Body == [slots : Seq(KeySlot), verifier : Verifier]

KeySlotTable == [header_salt : Nat, slots : Seq(KeySlot), verifier : Verifier]

HkdfKey ==
  [kdf : {"hkdf"}, ikm : Master, salt : {MASTER_SALT}, info : {info_tag(d) : d \in Domain}]

Vault == [master : Master, hierarchy : [Domain -> HkdfKey], slots : KeySlotTable \cup {None}]

SavedTable ==
  [bytes : [body : Body, mac : [hash : {"blake3"}, key : Nat, data : Body]],
   header_salt : Nat]

Blob ==
  [nonce : Nonce, domain : Domain, master : Master,
   ct : [algo : AeadAlgo, key : HkdfKey, nonce : Nonce, msg : Plaintext, aad : Aad]]

(* The errors of error.rs that these calls can report.  A panic is none. *)
AegisError ==
  {"Argon2", "AeadOpen", "SlotTableFull", "SlotUnseal", "LastSlotRevocation",
   "NoSlotUnsealed", "HeaderIntegrity", "VolumeMismatch"}

Operation ==
  {"none", "from_master_key", "unlock", "seal_slots", "add_slot", "revoke_slot",
   "open_from_slots", "verify_volume", "slots_to_bytes", "rotate_master", "encrypt",
   "decrypt", "drop", "KeySlotTable::add_slot", "KeySlotTable::revoke_slot"}

Returned ==
  [op : Operation, out : AegisError \cup {"Ok", "true", "false"},
   by : Passphrase \cup {None}, idx : Nat \cup {None}]

(* Every variable holds a value of the Rust type it stands for, and every call has
   returned with a value or an error of error.rs: no cipher crate was given a nonce
   of another length, at which it panics (aead.rs:98-100).  A table is parsed as a
   structure here; the parser of its bytes, which can panic, is SlotTableFormat. *)
TypeOK ==
  /\ vault \in [Handle -> Vault \cup {None}]
  /\ saved \subseteq SavedTable
  /\ blobs \subseteq Blob
  /\ draws \in Nat
  /\ ret \in Returned
  /\ retired \subseteq Master

-----------------------------------------------------------------------------
(* Safety                                                                  *)

(* The tables in existence: those of the vaults and the serialized ones. *)
LiveTables  == {vault[h].slots : h \in {g \in Handle : vault[g] # None}} \ {None}
Kept(s)     == [header_salt |-> s.header_salt, slots |-> s.bytes.body.slots,
                verifier |-> s.bytes.body.verifier]
Tables      == LiveTables \cup {Kept(s) : s \in saved}

Coherent(v) ==
  /\ v.hierarchy = from_master(v.master)
  /\ v.slots # None => verify_volume_result(v)

(* Whatever is called in whatever order, with intact or damaged tables, also
   with tables changed behind its back, the three parts of a vault belong
   together: every domain key is derived from the live master, and the
   verifier of the table is that of the live master, so that verify_volume
   answers false only without a table (lib.rs:142-174, 188-195). *)
VaultCoherent == \A h \in Handle : vault[h] # None => Coherent(vault[h])

(* A revoked slot is empty: no passphrase opens it, even if its enabled bit
   were set again in the raw table (slots.rs:229-232). *)
RevokedSlotsAreEmpty ==
  \A t \in Tables : \A i \in DOMAIN t.slots \ enabled_slots(t) :
    \A pw \in Passphrase : ~unseal(t.slots[i], pw).ok

(* No sequence of calls locks the users out: every table, live or kept, has
   an enabled slot, and the passphrase of every enabled slot opens the table
   in any vault (slots.rs:218-234, lib.rs:108-125). *)
MembersAdmitted ==
  \A t \in Tables :
    /\ enabled_slots(t) # {}
    /\ \A i \in enabled_slots(t) : \E pw \in Passphrase :
         /\ unseal(t.slots[i], pw).ok
         /\ OpenTable(to_bytes(t), t.header_salt, pw).ok

Opened == ret'.op = "open_from_slots" /\ ret'.out = "Ok"

(* A table is opened exactly as it was once serialized, or refused: a body, a
   MAC and a header salt of different writes never make up a table
   (slots.rs:276-290, lib.rs:142-158). *)
TablesOpenedWhole ==
  [][\A h \in Handle :
       vault'[h] # vault[h] /\ Opened => vault'[h].slots \in {Kept(s) : s \in saved}]_vars

(* A ciphertext opens in exactly the vaults with the master it was made under,
   for its own domain, algorithm and associated data, whether that master was
   derived, rotated in or recovered from a slot; every other attempt is the
   error AeadOpen (lib.rs:93-106, aead.rs:80-115). *)
CiphertextsOpenAtHome ==
  \A h \in Handle, b \in blobs : vault[h] # None =>
    \A d \in Domain, aad \in Aad, algo \in AeadAlgo :
      Decrypted(vault[h], d, b.nonce, b.ct, aad, algo) =
        IF /\ b.master = vault[h].master
           /\ b.domain = d
           /\ b.ct.aad = aad
           /\ b.ct.algo = algo
        THEN Ok(b.ct.msg)
        ELSE Err("AeadOpen")

(* A rotation starts afresh: no table opens to a master that rotate_master drew
   at or after the making of the table, kept or live, not even when a slot for
   that master was added to the kept table behind the vault's back: the verifier
   is that of an earlier master (lib.rs:142-158, 188-195, slots.rs:189-211). *)
RotationStartsAfresh ==
  \A t \in Tables, pw \in Passphrase :
    LET opened == OpenTable(to_bytes(t), t.header_salt, pw)
    IN  opened.ok => \A d \in t.header_salt .. draws : opened.val.master # rotate(d)

SameTable(v, w) ==
  /\ v # None /\ v.slots # None
  /\ w # None /\ w.slots # None
  /\ v.slots.header_salt = w.slots.header_salt

(* The index add_slot returned names the same slot for as long as the table
   lives, and a revoked slot stays revoked: revoke_slot never meets another
   user's slot.  Only opening a kept, older table turns this back
   (slots.rs:202-234). *)
SlotIndicesStable ==
  [][\A h \in Handle :
       SameTable(vault[h], vault'[h]) /\ ~Opened =>
         \A i \in DOMAIN vault[h].slots.slots :
           LET old == vault[h].slots.slots[i]
               new == vault'[h].slots.slots[i]
           IN  /\ i \in DOMAIN vault'[h].slots.slots
               /\ new.salt = old.salt
               /\ new.enabled => old.enabled]_vars

-----------------------------------------------------------------------------
(* What the documentation says and the code does not do                    *)

(* "The previous slot table is invalidated" (lib.rs:186-187): opening a table
   never brings back a master that rotate_master replaced. *)
RotationInvalidatesTable ==
  [][\A h \in Handle :
       vault'[h] # vault[h] /\ Opened => vault'[h].master \notin retired]_vars
=============================================================================
