--------------------------- MODULE AegisVaultProofs --------------------------
(***************************************************************************)
(* Theorems of the vaults, for any number of handles, passphrases, slots,  *)
(* kept tables and ciphertexts.  The first part says what the operators of *)
(* the model return: their types, what a slot opens to, and what a         *)
(* successful answer implies.                                              *)
(***************************************************************************)
EXTENDS AegisVault, FiniteSetTheorems, SequenceTheorems, TLAPS

(* A Result whose value is in S. *)
Answers(result, S) ==
  \/ result.ok = TRUE /\ result.val \in S
  \/ result.ok = FALSE /\ result.err \in AegisError

(* A nonempty set of numbers has a least element. *)
LEMMA LeastNumber ==
  ASSUME NEW T \in SUBSET Nat, T # {}
  PROVE  \E j \in T : \A k \in T : j <= k
<1>1. \E j \in T : \A k \in T : <<k, j>> \notin OpToRel(<, Nat)
  BY NatLessThanWellFounded, WFMin, Zenon
<1>2. PICK j \in T : \A k \in T : <<k, j>> \notin OpToRel(<, Nat)
  BY <1>1, Zenon
<1>3. \A k \in T : ~(k < j)
  BY <1>2, Zenon DEF OpToRel
<1>4. \A k \in T : j <= k
  BY <1>3
<1>. QED
  BY <1>4

-----------------------------------------------------------------------------
(* Keys                                                                    *)

(* The derivation of a slot key always answers, with a Master. *)
LEMMA SlotKeyType ==
  ASSUME NEW pw \in Passphrase, NEW salt \in SaltOfSlot
  PROVE  /\ SlotKey(pw, salt) = [kdf |-> "argon2id", passphrase |-> pw, salt |-> salt,
                                 m_cost |-> 64, t_cost |-> 3]
         /\ SlotKey(pw, salt) \in Master
<1>1. Argon2Accepts(salt, SLOT_M_COST, SLOT_T_COST)
  BY DEF Argon2Accepts, SLOT_M_COST, SLOT_T_COST, SaltOfSlot
<1>2. SlotKey(pw, salt) = [kdf |-> "argon2id", passphrase |-> pw, salt |-> salt,
                           m_cost |-> 64, t_cost |-> 3]
  BY <1>1 DEF SlotKey, argon2id_root, Ok, SLOT_M_COST, SLOT_T_COST
<1>. QED
  BY <1>2 DEF Master, Salt

(* unlock gives a Master or reports the error of argon2. *)
LEMMA RootType ==
  ASSUME NEW pw \in Passphrase, NEW p \in KdfParam
  PROVE  Answers(argon2id_root(pw, p.salt, p.memory_kib, p.iterations), Master)
<1>1. /\ p.memory_kib \in Nat
      /\ p.iterations \in Nat
      /\ p.salt \in Salt
  BY KdfParamAssumption DEF Salt
<1>2. [kdf |-> "argon2id", passphrase |-> pw, salt |-> p.salt,
       m_cost |-> p.memory_kib, t_cost |-> p.iterations] \in Master
  BY <1>1 DEF Master
<1>3. CASE Argon2Accepts(p.salt, p.memory_kib, p.iterations)
  BY <1>2, <1>3 DEF argon2id_root, Ok, Answers
<1>4. CASE ~Argon2Accepts(p.salt, p.memory_kib, p.iterations)
  BY <1>4 DEF argon2id_root, Err, Answers, AegisError
<1>. QED
  BY <1>3, <1>4

(* The hierarchy of a master is a tree of HKDF keys. *)
LEMMA HierarchyType ==
  ASSUME NEW master \in Master
  PROVE  from_master(master) \in [Domain -> HkdfKey]
BY DEF from_master, derive, hkdf_sha256, HkdfKey

-----------------------------------------------------------------------------
(* Slots                                                                   *)

(* A new slot is enabled and holds the master sealed under its own key. *)
LEMMA NewSlot ==
  ASSUME NEW master \in Master, NEW pw \in Passphrase, NEW n \in Nat
  PROVE  LET slot == KeySlot_create(master, pw, n)
         IN  /\ slot \in KeySlot
             /\ is_enabled(slot)
             /\ slot.salt = SlotSalt(n)
             /\ slot.nonce = FreshNonce("Aes256Gcm", n)
             /\ slot.ct = Ciphertext("Aes256Gcm", SlotKey(pw, SlotSalt(n)),
                                     FreshNonce("Aes256Gcm", n), master, HEADER_MAGIC)
             /\ slot.ct.msg = master
<1>. DEFINE slot == KeySlot_create(master, pw, n)
<1>1. SlotSalt(n) \in SaltOfSlot
  BY DEF SlotSalt, SaltOf, SaltOfSlot
<1>2. SlotKey(pw, SlotSalt(n)) \in Master
  BY <1>1, SlotKeyType
<1>3. FreshNonce("Aes256Gcm", n) \in Nonce
  BY DEF FreshNonce, NonceLen, Nonce
<1>4. slot = [salt |-> SlotSalt(n), nonce |-> FreshNonce("Aes256Gcm", n),
              ct |-> Ciphertext("Aes256Gcm", SlotKey(pw, SlotSalt(n)),
                                FreshNonce("Aes256Gcm", n), master, HEADER_MAGIC),
              enabled |-> TRUE]
  BY DEF KeySlot_create, seal
<1>5. Ciphertext("Aes256Gcm", SlotKey(pw, SlotSalt(n)), FreshNonce("Aes256Gcm", n),
                 master, HEADER_MAGIC) \in SlotCt
  BY <1>2, <1>3 DEF Ciphertext, SlotCt
<1>6. slot \in KeySlot
  BY <1>1, <1>3, <1>4, <1>5 DEF KeySlot
<1>7. slot.ct.msg = master
  BY <1>4 DEF Ciphertext
<1>. QED
  BY <1>4, <1>6, <1>7 DEF is_enabled

(* Unsealing answers with what was sealed, or with SlotUnseal. *)
LEMMA UnsealType ==
  ASSUME NEW slot \in KeySlot, NEW pw
  PROVE  \/ /\ unseal(slot, pw).ok = TRUE
            /\ unseal(slot, pw).val = slot.ct.msg
            /\ slot.ct # ZeroCt
            /\ slot.ct.msg \in Master
         \/ unseal(slot, pw).ok = FALSE
<1>. DEFINE opened == open("Aes256Gcm", SlotKey(pw, slot.salt), slot.nonce,
                           slot.ct, HEADER_MAGIC)
<1>1. \/ opened = Ok(slot.ct.msg) /\ "msg" \in DOMAIN slot.ct
      \/ opened.ok = FALSE
  BY DEF open, AeadDecrypt, Err, Panic
<1>2. slot.ct \in SlotCt
  BY DEF KeySlot
<1>3. "msg" \in DOMAIN slot.ct => slot.ct # ZeroCt /\ slot.ct.msg \in Master
  BY <1>2 DEF SlotCt, ZeroCt
<1>. QED
  BY <1>1, <1>3 DEF unseal, Ok, Err

-----------------------------------------------------------------------------
(* Slot tables                                                             *)

(* A new table has one slot, the one that was asked for, enabled. *)
LEMMA NewTable ==
  ASSUME NEW master \in Master, NEW pw \in Passphrase, NEW n \in Nat
  PROVE  /\ new_initial(master, pw, n) \in KeySlotTable
         /\ new_initial(master, pw, n).slots = <<KeySlot_create(master, pw, n)>>
         /\ new_initial(master, pw, n).verifier = volume_verifier(master)
         /\ new_initial(master, pw, n).header_salt = n
<1>1. KeySlot_create(master, pw, n) \in KeySlot
  BY NewSlot
<1>2. <<KeySlot_create(master, pw, n)>> \in Seq(KeySlot)
  BY <1>1
<1>3. volume_verifier(master) \in Verifier
  BY DEF volume_verifier, keyed_hash, Verifier
<1>. QED
  BY <1>2, <1>3 DEF new_initial, KeySlotTable

(* add_slot appends a slot and gives its index, or reports that the table is
   full. *)
LEMMA AddSlotType ==
  ASSUME NEW t \in KeySlotTable, NEW master \in Master, NEW pw \in Passphrase,
         NEW n \in Nat
  PROVE  LET added == table_add_slot(t, master, pw, n)
         IN  \/ /\ added.ok = TRUE
                /\ Len(t.slots) < MAX_SLOTS
                /\ added.val.idx = Len(t.slots)
                /\ added.val.table =
                     [t EXCEPT !.slots = Append(t.slots, KeySlot_create(master, pw, n))]
                /\ added.val.table \in KeySlotTable
             \/ /\ added.ok = FALSE
                /\ Len(t.slots) >= MAX_SLOTS
                /\ added.err = "SlotTableFull"
                /\ added.err \in AegisError
<1>. DEFINE longer == Append(t.slots, KeySlot_create(master, pw, n))
<1>1. KeySlot_create(master, pw, n) \in KeySlot
  BY NewSlot
<1>2. t.slots \in Seq(KeySlot)
  BY DEF KeySlotTable
<1>3. longer \in Seq(KeySlot)
  BY <1>1, <1>2, AppendProperties
<1>4. [t EXCEPT !.slots = longer] \in KeySlotTable
  BY <1>3 DEF KeySlotTable
<1>. QED
  BY <1>2, <1>4, MaxSlotsAssumption DEF table_add_slot, Ok, Err, AegisError

(* The enabled slots of a table are finitely many indices. *)
LEMMA EnabledSlots ==
  ASSUME NEW t \in KeySlotTable
  PROVE  /\ DOMAIN t.slots = 1 .. Len(t.slots)
         /\ Len(t.slots) \in Nat
         /\ enabled_slots(t) \subseteq 1 .. Len(t.slots)
         /\ enabled_slots(t) \in SUBSET Nat
         /\ IsFiniteSet(enabled_slots(t))
         /\ enabled_count(t) \in Nat
<1>1. /\ t.slots \in Seq(KeySlot)
      /\ DOMAIN t.slots = 1 .. Len(t.slots)
      /\ Len(t.slots) \in Nat
  BY DEF KeySlotTable
<1>2. enabled_slots(t) \subseteq 1 .. Len(t.slots)
  BY <1>1 DEF enabled_slots
<1>3. IsFiniteSet(1 .. Len(t.slots))
  BY <1>1, FS_Interval
<1>4. IsFiniteSet(enabled_slots(t))
  BY <1>2, <1>3, FS_Subset
<1>5. enabled_count(t) \in Nat
  BY <1>4, FS_CardinalityType DEF enabled_count
<1>. QED
  BY <1>1, <1>2, <1>4, <1>5

(* revoke_slot leaves the table alone, disables one enabled slot of several,
   or reports an error. *)
LEMMA RevokeSlotType ==
  ASSUME NEW t \in KeySlotTable, NEW idx \in Nat
  PROVE  LET revoked == table_revoke_slot(t, idx)
         IN  \/ /\ revoked.ok = TRUE
                /\ idx + 1 \in DOMAIN t.slots \ enabled_slots(t)
                /\ revoked.val = t
             \/ /\ revoked.ok = TRUE
                /\ idx + 1 \in enabled_slots(t)
                /\ enabled_count(t) > 1
                /\ revoked.val = [t EXCEPT !.slots =
                                    [t.slots EXCEPT ![idx + 1] = Disable(t.slots[idx + 1])]]
                /\ revoked.val \in KeySlotTable
             \/ /\ revoked.ok = FALSE
                /\ \/ idx + 1 \notin DOMAIN t.slots
                   \/ idx + 1 \in enabled_slots(t) /\ enabled_count(t) <= 1
                /\ revoked.err \in {"SlotUnseal", "LastSlotRevocation"}
                /\ revoked.err \in AegisError
<1>. DEFINE fewer == [t.slots EXCEPT ![idx + 1] = Disable(t.slots[idx + 1])]
<1>1. CASE idx >= Len(t.slots)
  BY <1>1, EnabledSlots DEF table_revoke_slot, Err, AegisError
<1>2. CASE ~(idx >= Len(t.slots)) /\ ~is_enabled(t.slots[idx + 1])
  BY <1>2, EnabledSlots DEF table_revoke_slot, Ok, enabled_slots
<1>3. CASE /\ ~(idx >= Len(t.slots))
           /\ is_enabled(t.slots[idx + 1])
           /\ enabled_count(t) <= 1
  BY <1>3, EnabledSlots DEF table_revoke_slot, Err, AegisError, enabled_slots
<1>4. CASE /\ ~(idx >= Len(t.slots))
           /\ is_enabled(t.slots[idx + 1])
           /\ ~(enabled_count(t) <= 1)
  <2>1. idx + 1 \in DOMAIN t.slots
    BY <1>4, EnabledSlots
  <2>2. /\ t.slots \in Seq(KeySlot)
        /\ t.slots[idx + 1] \in KeySlot
    BY <2>1 DEF KeySlotTable
  <2>3. Disable(t.slots[idx + 1]) \in KeySlot
    BY <2>2 DEF Disable, KeySlot, SlotCt
  <2>4. fewer \in Seq(KeySlot)
    BY <2>1, <2>2, <2>3, ExceptSeq
  <2>5. [t EXCEPT !.slots = fewer] \in KeySlotTable
    BY <2>4 DEF KeySlotTable
  <2>6. table_revoke_slot(t, idx) = Ok([t EXCEPT !.slots = fewer])
    BY <1>4 DEF table_revoke_slot
  <2>7. enabled_count(t) > 1
    BY <1>4, EnabledSlots
  <2>8. idx + 1 \in enabled_slots(t)
    BY <1>4, <2>1 DEF enabled_slots
  <2>. QED
    BY <2>5, <2>6, <2>7, <2>8 DEF Ok
<1>. QED
  BY <1>1, <1>2, <1>3, <1>4

(* unseal_with answers with the master of the first slot that opens, and
   answers whenever some enabled slot opens. *)
LEMMA UnsealWithType ==
  ASSUME NEW t \in KeySlotTable, NEW pw
  PROVE  \/ /\ unseal_with(t, pw).ok = TRUE
            /\ \E i \in Opens(t, pw) :
                 /\ i \in enabled_slots(t)
                 /\ t.slots[i] \in KeySlot
                 /\ t.slots[i].ct.msg \in Master
                 /\ unseal(t.slots[i], pw).ok = TRUE
                 /\ unseal_with(t, pw).val.master = t.slots[i].ct.msg
         \/ /\ unseal_with(t, pw).ok = FALSE
            /\ unseal_with(t, pw).err \in AegisError
            /\ Opens(t, pw) = {}
<1>1. CASE Opens(t, pw) = {}
  BY <1>1 DEF unseal_with, Err, AegisError
<1>2. CASE Opens(t, pw) # {}
  <2>1. Opens(t, pw) \in SUBSET Nat
    BY EnabledSlots DEF Opens
  <2>2. \E j \in Opens(t, pw) : \A k \in Opens(t, pw) : j <= k
    BY <1>2, <2>1, LeastNumber
  <2>. DEFINE i == CHOOSE j \in Opens(t, pw) : \A k \in Opens(t, pw) : j <= k
  <2>3. i \in Opens(t, pw)
    BY <2>2, Zenon
  <2>4. unseal_with(t, pw) = Ok([idx |-> i - 1, master |-> unseal(t.slots[i], pw).val])
    BY <1>2, Zenon DEF unseal_with
  <2>. HIDE DEF i
  <2>5. i \in enabled_slots(t) /\ unseal(t.slots[i], pw).ok
    BY <2>3 DEF Opens
  <2>6. t.slots[i] \in KeySlot
    BY <2>5, EnabledSlots DEF KeySlotTable
  <2>7. /\ unseal(t.slots[i], pw).ok = TRUE
        /\ unseal(t.slots[i], pw).val = t.slots[i].ct.msg
        /\ t.slots[i].ct.msg \in Master
    BY <2>5, <2>6, UnsealType
  <2>. QED
    BY <2>3, <2>4, <2>5, <2>6, <2>7 DEF Ok
<1>. QED
  BY <1>1, <1>2

-----------------------------------------------------------------------------
(* Serialized tables                                                       *)

(* What can be put before the parser: a body and a MAC, as in SavedTable. *)
Bytes == [body : Body, mac : [hash : {"blake3"}, key : Nat, data : Body]]

(* Serializing a table gives a body, the MAC over it and the header salt. *)
LEMMA SerializedType ==
  ASSUME NEW t \in KeySlotTable
  PROVE  /\ Serialized(t) \in SavedTable
         /\ Kept(Serialized(t)) = t
BY DEF Serialized, to_bytes, keyed_hash, KeySlotTable, SavedTable, Body, Kept

(* Parsing reports HeaderIntegrity unless the MAC is the one over the body
   under the salt. *)
LEMMA FromBytesType ==
  ASSUME NEW data \in Bytes, NEW salt \in Nat
  PROVE  \/ /\ from_bytes(data, salt).ok = TRUE
            /\ data.mac = keyed_hash(salt, data.body)
            /\ from_bytes(data, salt).val =
                 [header_salt |-> salt, slots |-> data.body.slots,
                  verifier |-> data.body.verifier]
            /\ from_bytes(data, salt).val \in KeySlotTable
         \/ /\ from_bytes(data, salt).ok = FALSE
            /\ from_bytes(data, salt).err \in AegisError
<1>1. data.body \in Body
  BY DEF Bytes
<1>2. [header_salt |-> salt, slots |-> data.body.slots, verifier |-> data.body.verifier]
        \in KeySlotTable
  BY <1>1 DEF Body, KeySlotTable
<1>. QED
  BY <1>2 DEF from_bytes, Ok, Err, AegisError

(* What open_from_slots recovers: the table that was parsed, and a master that
   an enabled slot gives to the passphrase and its verifier was made from. *)
LEMMA OpenTableType ==
  ASSUME NEW data \in Bytes, NEW salt \in Nat, NEW pw
  PROVE  LET opened == OpenTable(data, salt, pw)
         IN  \/ /\ opened.ok = TRUE
                /\ data.mac = keyed_hash(salt, data.body)
                /\ opened.val.table =
                     [header_salt |-> salt, slots |-> data.body.slots,
                      verifier |-> data.body.verifier]
                /\ opened.val.table \in KeySlotTable
                /\ opened.val.master \in Master
                /\ volume_verifier(opened.val.master) = opened.val.table.verifier
                /\ Opens(opened.val.table, pw) # {}
             \/ /\ opened.ok = FALSE
                /\ opened.err \in AegisError
<1>. DEFINE parsed   == from_bytes(data, salt)
            unsealed == unseal_with(parsed.val, pw)
<1>1. CASE parsed.ok = FALSE
  BY <1>1, FromBytesType DEF OpenTable
<1>2. CASE parsed.ok = TRUE
  <2>1. /\ parsed.val \in KeySlotTable
        /\ data.mac = keyed_hash(salt, data.body)
        /\ parsed.val = [header_salt |-> salt, slots |-> data.body.slots,
                         verifier |-> data.body.verifier]
    BY <1>2, FromBytesType
  <2>2. CASE unsealed.ok = FALSE
    BY <1>2, <2>1, <2>2, UnsealWithType DEF OpenTable
  <2>3. CASE unsealed.ok = TRUE
    <3>1. unsealed.val.master \in Master /\ Opens(parsed.val, pw) # {}
      BY <2>1, <2>3, UnsealWithType
    <3>2. CASE volume_verifier(unsealed.val.master) # parsed.val.verifier
      BY <1>2, <2>3, <3>2 DEF OpenTable, Err, AegisError
    <3>3. CASE volume_verifier(unsealed.val.master) = parsed.val.verifier
      <4>1. OpenTable(data, salt, pw) =
              Ok([master |-> unsealed.val.master, table |-> parsed.val])
        BY <1>2, <2>3, <3>3 DEF OpenTable
      <4>2. /\ OpenTable(data, salt, pw).ok = TRUE
            /\ OpenTable(data, salt, pw).val.table = parsed.val
            /\ OpenTable(data, salt, pw).val.master = unsealed.val.master
        BY <4>1 DEF Ok
      <4>. HIDE DEF parsed, unsealed
      <4>. QED
        BY <2>1, <3>1, <3>3, <4>2
    <3>. QED
      BY <3>2, <3>3
  <2>. QED
    BY <2>1, <2>2, <2>3, UnsealWithType
<1>. QED
  BY <1>1, <1>2, FromBytesType

-----------------------------------------------------------------------------
(* Types and coherence of the vaults                                       *)

(* The outcome of a call: that of one which cannot fail, that of a Result. *)
LEMMA OutcomeType ==
  /\ Outcome(Ok({})) = "Ok"
  /\ \A result : result.ok = TRUE => Outcome(result) = "Ok"
  /\ \A result : result.ok = FALSE => Outcome(result) = result.err
BY DEF Outcome, Ok

(* The vault a handle holds. *)
LEMMA HeldVault ==
  ASSUME TypeOK, NEW h \in Handle, vault[h] # None
  PROVE  /\ vault[h] \in Vault
         /\ vault[h].master \in Master
         /\ vault[h].hierarchy \in [Domain -> HkdfKey]
         /\ vault[h].slots # None => vault[h].slots \in KeySlotTable
BY DEF TypeOK, Vault

(* Putting a well-typed vault or None in one handle. *)
LEMMA VaultUpdateType ==
  ASSUME TypeOK, NEW h \in Handle, NEW v \in Vault \cup {None}
  PROVE  [vault EXCEPT ![h] = v] \in [Handle -> Vault \cup {None}]
BY DEF TypeOK

(* Changing the slots of the vault in one handle. *)
LEMMA SlotsUpdateType ==
  ASSUME TypeOK, NEW h \in Handle, vault[h] # None, NEW t \in KeySlotTable
  PROVE  /\ [vault EXCEPT ![h].slots = t] = [vault EXCEPT ![h] = [vault[h] EXCEPT !.slots = t]]
         /\ [vault EXCEPT ![h].slots = t] \in [Handle -> Vault \cup {None}]
<1>1. [vault[h] EXCEPT !.slots = t] \in Vault
  BY HeldVault DEF Vault
<1>2. [vault EXCEPT ![h].slots = t] = [vault EXCEPT ![h] = [vault[h] EXCEPT !.slots = t]]
  OBVIOUS
<1>. QED
  BY <1>1, <1>2, VaultUpdateType

(* A new vault has no table and is well-typed (lib.rs:68-72). *)
LEMMA NewVaultType ==
  ASSUME NEW master \in Master
  PROVE  NewVault(master) \in Vault
BY HierarchyType DEF NewVault, Vault

-----------------------------------------------------------------------------
(* TypeOK is preserved by every call. *)

(* Creating, rotating and dropping vaults keeps the types
   (lib.rs:68-80, 188-195). *)
LEMMA TypeLifecycle ==
  ASSUME TypeOK, NEW h \in Handle, Lifecycle(h)
  PROVE  TypeOK'
<1>1. ASSUME NEW raw \in RawMaster, from_master_key(h, raw)
      PROVE  TypeOK'
  <2>1. NewVault(raw) \in Vault
    BY NewVaultType DEF Master
  <2>2. vault' \in [Handle -> Vault \cup {None}]
    BY <1>1, <2>1, VaultUpdateType DEF from_master_key
  <2>3. ret' \in Returned
    BY <1>1, OutcomeType DEF from_master_key, Returns, Replies, Returned, Operation
  <2>. QED
    BY <1>1, <2>2, <2>3 DEF TypeOK, from_master_key
<1>2. ASSUME NEW pw \in Passphrase, NEW p \in KdfParam, unlock(h, pw, p)
      PROVE  TypeOK'
  <2>. DEFINE root == argon2id_root(pw, p.salt, p.memory_kib, p.iterations)
  <2>1. Answers(root, Master)
    BY RootType
  <2>2. vault' \in [Handle -> Vault \cup {None}]
    <3>1. CASE root.ok = TRUE
      <4>1. NewVault(root.val) \in Vault
        BY <2>1, <3>1, NewVaultType DEF Answers
      <4>2. vault' = [vault EXCEPT ![h] = NewVault(root.val)]
        BY <1>2, <3>1 DEF unlock
      <4>. QED
        BY <4>1, <4>2, VaultUpdateType
    <3>2. CASE root.ok = FALSE
      BY <1>2, <3>2 DEF unlock, TypeOK
    <3>. QED
      BY <2>1, <3>1, <3>2 DEF Answers
  <2>3. ret' \in Returned
    <3>1. ret' = [op |-> "unlock", out |-> Outcome(root), by |-> None, idx |-> None]
      BY <1>2 DEF unlock, Returns, Replies
    <3>2. Outcome(root) \in AegisError \cup {"Ok"}
      BY <2>1, OutcomeType DEF Answers
    <3>. QED
      BY <3>1, <3>2 DEF Returned, Operation
  <2>. QED
    BY <1>2, <2>2, <2>3 DEF TypeOK, unlock
<1>3. ASSUME rotate_master(h)
      PROVE  TypeOK'
  <2>. DEFINE fresh == rotate(draws')
  <2>1. draws' \in Nat
    BY <1>3 DEF rotate_master, Draw, TypeOK
  <2>2. fresh \in Master
    BY <2>1 DEF Master, rotate
  <2>3. Rotated(vault[h], fresh) \in Vault
    BY <1>3, <2>2, HeldVault, HierarchyType DEF rotate_master, Rotated, Vault
  <2>4. vault' \in [Handle -> Vault \cup {None}]
    BY <1>3, <2>3, VaultUpdateType DEF rotate_master
  <2>5. retired' \subseteq Master
    BY <1>3, HeldVault DEF rotate_master, TypeOK
  <2>6. ret' \in Returned
    BY <1>3, OutcomeType DEF rotate_master, Returns, Replies, Returned, Operation
  <2>. QED
    BY <1>3, <2>1, <2>4, <2>5, <2>6 DEF TypeOK, rotate_master
<1>4. ASSUME Drop(h)
      PROVE  TypeOK'
  <2>1. vault' \in [Handle -> Vault \cup {None}]
    BY <1>4, VaultUpdateType DEF Drop
  <2>. QED
    BY <1>4, <2>1, OutcomeType DEF TypeOK, Drop, Returns, Replies, Returned, Operation
<1>. QED
  BY <1>1, <1>2, <1>3, <1>4 DEF Lifecycle

(* The methods on slot tables keep the types (lib.rs:108-184). *)
LEMMA TypeSlots ==
  ASSUME TypeOK, NEW h \in Handle, Slots(h)
  PROVE  TypeOK'
<1>1. ASSUME NEW pw \in Passphrase, seal_slots(h, pw) \/ add_first_slot(h, pw)
      PROVE  TypeOK'
  <2>1. vault[h] # None /\ draws' \in Nat
    BY <1>1 DEF seal_slots, add_first_slot, Draw, TypeOK
  <2>2. vault' = [vault EXCEPT ![h].slots = new_initial(vault[h].master, pw, draws')]
    BY <1>1 DEF seal_slots, add_first_slot
  <2>3. new_initial(vault[h].master, pw, draws') \in KeySlotTable
    BY <2>1, HeldVault, NewTable
  <2>4. vault' \in [Handle -> Vault \cup {None}]
    BY <2>1, <2>2, <2>3, SlotsUpdateType
  <2>5. ret' \in Returned
    BY <1>1, OutcomeType DEF seal_slots, add_first_slot, Replies, Returned, Operation
  <2>. QED
    BY <1>1, <2>1, <2>4, <2>5 DEF TypeOK, seal_slots, add_first_slot
<1>2. ASSUME NEW pw \in Passphrase, add_next_slot(h, pw)
      PROVE  TypeOK'
  <2>. DEFINE added == table_add_slot(vault[h].slots, vault[h].master, pw, draws + 1)
  <2>1. /\ vault[h] # None
        /\ vault[h].slots \in KeySlotTable
        /\ vault[h].master \in Master
        /\ draws + 1 \in Nat
    BY <1>2, HeldVault DEF add_next_slot, TypeOK
  <2>2. \/ /\ added.ok = TRUE
           /\ added.val.table \in KeySlotTable
           /\ added.val.idx \in Nat
        \/ added.ok = FALSE /\ added.err \in AegisError
    BY <2>1, AddSlotType, EnabledSlots
  <2>3. IF added.ok
        THEN Draw /\ vault' = [vault EXCEPT ![h].slots = added.val.table]
        ELSE UNCHANGED <<draws, vault>>
    BY <1>2 DEF add_next_slot
  <2>4. ret' = [op |-> "add_slot", out |-> Outcome(added), by |-> pw,
                idx |-> IF added.ok THEN added.val.idx ELSE None]
    BY <1>2 DEF add_next_slot, Replies
  <2>. HIDE DEF added
  <2>5. vault' \in [Handle -> Vault \cup {None}] /\ draws' \in Nat
    <3>1. CASE added.ok = TRUE
      <4>1. /\ Draw
            /\ vault' = [vault EXCEPT ![h].slots = added.val.table]
            /\ added.val.table \in KeySlotTable
        BY <2>2, <2>3, <3>1
      <4>2. vault' \in [Handle -> Vault \cup {None}]
        BY <2>1, <4>1, SlotsUpdateType
      <4>3. draws' \in Nat
        BY <2>1, <4>1 DEF Draw
      <4>. QED
        BY <4>2, <4>3
    <3>2. CASE added.ok = FALSE
      BY <2>3, <3>2 DEF TypeOK
    <3>. QED
      BY <2>2, <3>1, <3>2
  <2>6. ret' \in Returned
    BY <2>2, <2>4, OutcomeType DEF Returned, Operation
  <2>. QED
    BY <1>2, <2>5, <2>6 DEF TypeOK, add_next_slot
<1>3. ASSUME NEW idx \in 0 .. MAX_SLOTS, revoke_slot(h, idx)
      PROVE  TypeOK'
  <2>. DEFINE revoked == IF vault[h].slots = None THEN Err("LastSlotRevocation")
                         ELSE table_revoke_slot(vault[h].slots, idx)
  <2>1. /\ vault[h] # None
        /\ vault[h].slots # None => vault[h].slots \in KeySlotTable
        /\ idx \in Nat
    BY <1>3, HeldVault DEF revoke_slot
  <2>2. \/ revoked.ok = TRUE /\ revoked.val \in KeySlotTable
        \/ revoked.ok = FALSE /\ revoked.err \in AegisError
    <3>1. CASE vault[h].slots = None
      BY <3>1 DEF Err, AegisError
    <3>2. CASE vault[h].slots # None
      BY <2>1, <3>2, RevokeSlotType
    <3>. QED
      BY <3>1, <3>2
  <2>3. vault' = IF revoked.ok THEN [vault EXCEPT ![h].slots = revoked.val] ELSE vault
    BY <1>3 DEF revoke_slot
  <2>4. ret' = [op |-> "revoke_slot", out |-> Outcome(revoked), by |-> None, idx |-> idx]
    BY <1>3 DEF revoke_slot, Replies
  <2>. HIDE DEF revoked
  <2>5. vault' \in [Handle -> Vault \cup {None}]
    <3>1. CASE revoked.ok = TRUE
      BY <2>1, <2>2, <2>3, <3>1, SlotsUpdateType
    <3>2. CASE revoked.ok = FALSE
      BY <2>3, <3>2 DEF TypeOK
    <3>. QED
      BY <2>2, <3>1, <3>2
  <2>6. ret' \in Returned
    BY <2>1, <2>2, <2>4, OutcomeType DEF Returned, Operation
  <2>. QED
    BY <1>3, <2>5, <2>6 DEF TypeOK, revoke_slot
<1>4. ASSUME slots_to_bytes(h)
      PROVE  TypeOK'
  <2>1. Serialized(vault[h].slots) \in SavedTable
    BY <1>4, HeldVault, SerializedType DEF slots_to_bytes
  <2>2. saved' \subseteq SavedTable
    BY <1>4, <2>1 DEF slots_to_bytes, Keep, TypeOK
  <2>3. ret' \in Returned
    BY <1>4, OutcomeType DEF slots_to_bytes, Returns, Replies, Returned, Operation
  <2>. QED
    BY <1>4, <2>2, <2>3 DEF TypeOK, slots_to_bytes
<1>5. ASSUME NEW s1 \in saved, NEW s2 \in saved, NEW s3 \in saved,
             NEW pw \in Passphrase, open_from_slots(h, s1, s2, s3, pw)
      PROVE  TypeOK'
  <2>. DEFINE bytes  == [body |-> s1.bytes.body, mac |-> s2.bytes.mac]
              opened == OpenTable(bytes, s3.header_salt, pw)
  <2>1. bytes \in Bytes /\ s3.header_salt \in Nat
    BY DEF TypeOK, SavedTable, Bytes
  <2>2. \/ /\ opened.ok = TRUE
           /\ opened.val.master \in Master
           /\ opened.val.table \in KeySlotTable
        \/ opened.ok = FALSE /\ opened.err \in AegisError
    BY <2>1, OpenTableType
  <2>3. vault' = IF opened.ok
                 THEN [vault EXCEPT ![h] = Rebuilt(vault[h], opened.val.master,
                                                   opened.val.table)]
                 ELSE vault
    BY <1>5 DEF open_from_slots
  <2>4. ret' = [op |-> "open_from_slots", out |-> Outcome(opened), by |-> pw, idx |-> None]
    BY <1>5 DEF open_from_slots, Replies
  <2>. HIDE DEF opened
  <2>5. vault' \in [Handle -> Vault \cup {None}]
    <3>1. CASE opened.ok = TRUE
      <4>1. vault[h] # None
        BY <1>5 DEF open_from_slots
      <4>2. Rebuilt(vault[h], opened.val.master, opened.val.table) \in Vault
        BY <2>2, <3>1, <4>1, HeldVault, HierarchyType DEF Rebuilt, Vault
      <4>. QED
        BY <2>3, <3>1, <4>2, VaultUpdateType
    <3>2. CASE opened.ok = FALSE
      BY <2>3, <3>2 DEF TypeOK
    <3>. QED
      BY <2>2, <3>1, <3>2
  <2>6. ret' \in Returned
    BY <2>2, <2>4, OutcomeType DEF Returned, Operation
  <2>. QED
    BY <1>5, <2>5, <2>6 DEF TypeOK, open_from_slots
<1>6. ASSUME verify_volume(h)
      PROVE  TypeOK'
  <2>1. ret' \in Returned
    BY <1>6 DEF verify_volume, Replies, Returned, Operation
  <2>. QED
    BY <1>6, <2>1 DEF TypeOK, verify_volume
<1>. QED
  BY <1>1, <1>2, <1>3, <1>4, <1>5, <1>6 DEF Slots, add_slot

(* encrypt and decrypt keep the types (lib.rs:93-106). *)
LEMMA TypeData ==
  ASSUME TypeOK, NEW h \in Handle, Data(h)
  PROVE  TypeOK'
<1>1. ASSUME NEW d \in Domain, NEW msg \in Plaintext, NEW aad \in Aad,
             NEW algo \in AeadAlgo, encrypt(h, d, msg, aad, algo)
      PROVE  TypeOK'
  <2>. DEFINE key   == vault[h].hierarchy[d]
              nonce == FreshNonce(algo, draws')
              blob  == [nonce |-> nonce, ct |-> Ciphertext(algo, key, nonce, msg, aad),
                        domain |-> d, master |-> vault[h].master]
  <2>1. vault[h] # None /\ draws' \in Nat
    BY <1>1 DEF encrypt, Draw, TypeOK
  <2>2. key \in HkdfKey /\ vault[h].master \in Master
    BY <2>1, HeldVault
  <2>3. nonce \in Nonce
    BY <2>1 DEF FreshNonce, NonceLen, Nonce
  <2>4. blob \in Blob
    BY <2>2, <2>3 DEF Ciphertext, Blob
  <2>5. blobs' = blobs \cup {blob}
    BY <1>1 DEF encrypt, Encrypted, domain, seal
  <2>6. ret' \in Returned
    BY <1>1, OutcomeType DEF encrypt, Returns, Replies, Returned, Operation
  <2>. QED
    BY <1>1, <2>1, <2>4, <2>5, <2>6 DEF TypeOK, encrypt
<1>2. ASSUME NEW d \in Domain, NEW b \in blobs, NEW aad \in Aad,
             NEW algo \in AeadAlgo, decrypt(h, d, b, aad, algo)
      PROVE  TypeOK'
  <2>. DEFINE opened == Decrypted(vault[h], d, b.nonce, b.ct, aad, algo)
  <2>1. \/ opened.ok = TRUE
        \/ opened.ok = FALSE /\ opened.err \in AegisError
    BY DEF Decrypted, open, AeadDecrypt, Ok, Err, AegisError
  <2>2. ret' = [op |-> "decrypt", out |-> Outcome(opened), by |-> None, idx |-> None]
    BY <1>2 DEF decrypt, Returns, Replies
  <2>. HIDE DEF opened
  <2>3. ret' \in Returned
    BY <2>1, <2>2, OutcomeType DEF Returned, Operation
  <2>. QED
    BY <1>2, <2>3 DEF TypeOK, decrypt
<1>. QED
  BY <1>1, <1>2 DEF Data

(* Using a KeySlotTable without a vault keeps the types
   (slots.rs:204-234). *)
LEMMA TypeDirectTableUse ==
  ASSUME TypeOK, DirectTableUse
  PROVE  TypeOK'
<1>1. ASSUME NEW s \in saved, NEW h \in Handle, NEW pw \in Passphrase,
             vault[h] # None, TableAddSlot(s, vault[h].master, pw)
      PROVE  TypeOK'
  <2>. DEFINE parsed == from_bytes(s.bytes, s.header_salt)
              added  == table_add_slot(parsed.val, vault[h].master, pw, draws')
  <2>1. /\ s.bytes \in Bytes
        /\ s.header_salt \in Nat
        /\ vault[h].master \in Master
        /\ draws' \in Nat
    BY <1>1, HeldVault DEF TypeOK, SavedTable, Bytes, TableAddSlot, Draw
  <2>2. parsed.ok /\ added.ok /\ Keep(Serialized(added.val.table))
    BY <1>1 DEF TableAddSlot
  <2>3. parsed.val \in KeySlotTable
    BY <2>1, <2>2, FromBytesType
  <2>. HIDE DEF parsed
  <2>4. added.val.table \in KeySlotTable
    BY <2>1, <2>2, <2>3, AddSlotType
  <2>. HIDE DEF added
  <2>5. saved' \subseteq SavedTable
    BY <2>2, <2>4, SerializedType DEF Keep, TypeOK
  <2>. QED
    BY <1>1, <2>1, <2>5, OutcomeType
       DEF TypeOK, TableAddSlot, Returns, Replies, Returned, Operation
<1>2. ASSUME NEW s \in saved, NEW idx \in 0 .. MAX_SLOTS, TableRevokeSlot(s, idx)
      PROVE  TypeOK'
  <2>. DEFINE parsed  == from_bytes(s.bytes, s.header_salt)
              revoked == table_revoke_slot(parsed.val, idx)
  <2>1. /\ s.bytes \in Bytes
        /\ s.header_salt \in Nat
        /\ idx \in Nat
    BY DEF TypeOK, SavedTable, Bytes
  <2>2. parsed.ok /\ revoked.ok /\ Keep(Serialized(revoked.val))
    BY <1>2 DEF TableRevokeSlot
  <2>3. parsed.val \in KeySlotTable
    BY <2>1, <2>2, FromBytesType
  <2>. HIDE DEF parsed
  <2>4. revoked.val \in KeySlotTable
    BY <2>1, <2>2, <2>3, RevokeSlotType
  <2>. HIDE DEF revoked
  <2>5. saved' \subseteq SavedTable
    BY <2>2, <2>4, SerializedType DEF Keep, TypeOK
  <2>. QED
    BY <1>2, <2>5, OutcomeType
       DEF TypeOK, TableRevokeSlot, Returns, Replies, Returned, Operation
<1>. QED
  BY <1>1, <1>2 DEF DirectTableUse

(* Every variable keeps its type, whatever is called in whatever order, also
   by callers that change kept tables on their own; and every call of these ends
   with a value or an error, decrypt in particular whatever nonce it is given
   (lib.rs, aead.rs:98-100).  Tables are structures here: what the parser of their
   bytes does is said in SlotTableProofs. *)
THEOREM TypeCorrect == OpenSpec => []TypeOK
<1>1. Init => TypeOK
  BY DEF Init, TypeOK, Returned, Operation
<1>2. TypeOK /\ [OpenNext]_vars => TypeOK'
  <2>1. ASSUME TypeOK, Next
        PROVE  TypeOK'
    BY <2>1, TypeLifecycle, TypeSlots, TypeData DEF Next
  <2>2. ASSUME TypeOK, UNCHANGED vars
        PROVE  TypeOK'
    BY <2>2 DEF TypeOK, vars
  <2>. QED
    BY <2>1, <2>2, TypeDirectTableUse DEF OpenNext
<1>. QED
  BY <1>1, <1>2, PTL DEF OpenSpec

-----------------------------------------------------------------------------
(* What a step does to the vaults, and that it keeps them coherent.        *)

(* Putting a coherent vault or None in one handle. *)
LEMMA CoherentUpdate ==
  ASSUME TypeOK, VaultCoherent, NEW h \in Handle, NEW v, v # None => Coherent(v),
         vault' = [vault EXCEPT ![h] = v]
  PROVE  VaultCoherent'
<1>1. \A g \in Handle : vault'[g] = IF g = h THEN v ELSE vault[g]
  BY DEF TypeOK
<1>. QED
  BY <1>1 DEF VaultCoherent

(* Giving the vault in one handle a table with the verifier of its master. *)
LEMMA CoherentTable ==
  ASSUME TypeOK, VaultCoherent, NEW h \in Handle, vault[h] # None,
         NEW t \in KeySlotTable, t.verifier = volume_verifier(vault[h].master),
         vault' = [vault EXCEPT ![h].slots = t]
  PROVE  VaultCoherent'
<1>. DEFINE v == [vault[h] EXCEPT !.slots = t]
<1>1. vault' = [vault EXCEPT ![h] = v]
  BY SlotsUpdateType
<1>2. /\ v.master = vault[h].master
      /\ v.hierarchy = vault[h].hierarchy
      /\ v.slots = t
  BY HeldVault DEF Vault
<1>3. vault[h].hierarchy = from_master(vault[h].master)
  BY DEF VaultCoherent, Coherent
<1>4. Coherent(v)
  BY <1>2, <1>3 DEF Coherent, verify_volume_result
<1>. QED
  BY <1>1, <1>4, CoherentUpdate

(* Creating, rotating and dropping vaults leaves every vault coherent
   (lib.rs:68-80, 188-195). *)
LEMMA CoherentLifecycle ==
  ASSUME TypeOK, VaultCoherent, NEW h \in Handle, Lifecycle(h)
  PROVE  VaultCoherent'
<1>1. \A master : Coherent(NewVault(master))
  BY DEF Coherent, NewVault
<1>2. ASSUME NEW raw \in RawMaster, from_master_key(h, raw)
      PROVE  VaultCoherent'
  BY <1>1, <1>2, CoherentUpdate DEF from_master_key
<1>3. ASSUME NEW pw \in Passphrase, NEW p \in KdfParam, unlock(h, pw, p)
      PROVE  VaultCoherent'
  <2>. DEFINE root == argon2id_root(pw, p.salt, p.memory_kib, p.iterations)
  <2>1. vault' = IF root.ok THEN [vault EXCEPT ![h] = NewVault(root.val)] ELSE vault
    BY <1>3 DEF unlock
  <2>. HIDE DEF root
  <2>2. CASE vault' = [vault EXCEPT ![h] = NewVault(root.val)]
    BY <1>1, <2>2, CoherentUpdate
  <2>3. CASE vault' = vault
    BY <2>3 DEF VaultCoherent
  <2>. QED
    BY <2>1, <2>2, <2>3
<1>4. ASSUME rotate_master(h)
      PROVE  VaultCoherent'
  <2>1. vault[h] \in Vault
    BY <1>4, HeldVault DEF rotate_master
  <2>2. Coherent(Rotated(vault[h], rotate(draws')))
    BY <2>1 DEF Coherent, Rotated, Vault
  <2>. QED
    BY <1>4, <2>2, CoherentUpdate DEF rotate_master
<1>5. ASSUME Drop(h)
      PROVE  VaultCoherent'
  BY <1>5, CoherentUpdate DEF Drop
<1>. QED
  BY <1>2, <1>3, <1>4, <1>5 DEF Lifecycle

(* The methods on slot tables leave every vault coherent (lib.rs:108-184). *)
LEMMA CoherentSlots ==
  ASSUME TypeOK, VaultCoherent, NEW h \in Handle, Slots(h)
  PROVE  VaultCoherent'
<1>1. ASSUME NEW pw \in Passphrase, seal_slots(h, pw) \/ add_first_slot(h, pw)
      PROVE  VaultCoherent'
  <2>1. vault[h] # None /\ draws' \in Nat
    BY <1>1 DEF seal_slots, add_first_slot, Draw, TypeOK
  <2>2. vault' = [vault EXCEPT ![h].slots = new_initial(vault[h].master, pw, draws')]
    BY <1>1 DEF seal_slots, add_first_slot
  <2>3. /\ new_initial(vault[h].master, pw, draws') \in KeySlotTable
        /\ new_initial(vault[h].master, pw, draws').verifier =
             volume_verifier(vault[h].master)
    BY <2>1, HeldVault, NewTable
  <2>. QED
    BY <2>1, <2>2, <2>3, CoherentTable
<1>2. ASSUME NEW pw \in Passphrase, add_next_slot(h, pw)
      PROVE  VaultCoherent'
  <2>. DEFINE t     == vault[h].slots
              added == table_add_slot(t, vault[h].master, pw, draws + 1)
  <2>1. /\ vault[h] # None
        /\ t # None
        /\ t \in KeySlotTable
        /\ vault[h].master \in Master
        /\ draws + 1 \in Nat
    BY <1>2, HeldVault DEF add_next_slot, TypeOK
  <2>2. t.verifier = volume_verifier(vault[h].master)
    BY <2>1 DEF VaultCoherent, Coherent, verify_volume_result
  <2>3. added.ok = TRUE =>
          /\ added.val.table \in KeySlotTable
          /\ added.val.table.verifier = t.verifier
    BY <2>1, AddSlotType DEF KeySlotTable
  <2>4. \/ added.ok = TRUE /\ vault' = [vault EXCEPT ![h].slots = added.val.table]
        \/ vault' = vault
    BY <1>2, <2>1, AddSlotType DEF add_next_slot
  <2>. HIDE DEF t, added
  <2>5. CASE added.ok = TRUE /\ vault' = [vault EXCEPT ![h].slots = added.val.table]
    BY <2>1, <2>2, <2>3, <2>5, CoherentTable
  <2>6. CASE vault' = vault
    BY <2>6 DEF VaultCoherent
  <2>. QED
    BY <2>4, <2>5, <2>6
<1>3. ASSUME NEW idx \in 0 .. MAX_SLOTS, revoke_slot(h, idx)
      PROVE  VaultCoherent'
  <2>1. CASE vault' = vault
    BY <2>1 DEF VaultCoherent
  <2>2. CASE vault' # vault
    <3>. DEFINE t       == vault[h].slots
                revoked == table_revoke_slot(t, idx)
    <3>0. t # None
      BY <1>3, <2>2 DEF revoke_slot, Err
    <3>1. /\ vault[h] # None
          /\ t # None
          /\ t \in KeySlotTable
          /\ idx \in Nat
          /\ revoked.ok
          /\ vault' = [vault EXCEPT ![h].slots = revoked.val]
      <4>1. /\ vault[h] # None
            /\ vault' = IF revoked.ok THEN [vault EXCEPT ![h].slots = revoked.val]
                        ELSE vault
        BY <1>3, <3>0 DEF revoke_slot
      <4>2. revoked.ok
        BY <2>2, <4>1
      <4>. QED
        BY <3>0, <4>1, <4>2, HeldVault
    <3>2. t.verifier = volume_verifier(vault[h].master)
      BY <3>1 DEF VaultCoherent, Coherent, verify_volume_result
    <3>3. /\ revoked.val \in KeySlotTable
          /\ revoked.val.verifier = t.verifier
      BY <3>1, RevokeSlotType DEF KeySlotTable
    <3>. HIDE DEF t, revoked
    <3>. QED
      BY <3>1, <3>2, <3>3, CoherentTable
  <2>. QED
    BY <2>1, <2>2
<1>4. ASSUME slots_to_bytes(h) \/ verify_volume(h)
      PROVE  VaultCoherent'
  BY <1>4 DEF slots_to_bytes, verify_volume, VaultCoherent
<1>5. ASSUME NEW s1 \in saved, NEW s2 \in saved, NEW s3 \in saved,
             NEW pw \in Passphrase, open_from_slots(h, s1, s2, s3, pw)
      PROVE  VaultCoherent'
  <2>. DEFINE bytes  == [body |-> s1.bytes.body, mac |-> s2.bytes.mac]
              opened == OpenTable(bytes, s3.header_salt, pw)
              v      == Rebuilt(vault[h], opened.val.master, opened.val.table)
  <2>1. bytes \in Bytes /\ s3.header_salt \in Nat
    BY DEF TypeOK, SavedTable, Bytes
  <2>2. /\ opened.ok \in BOOLEAN
        /\ opened.ok => volume_verifier(opened.val.master) = opened.val.table.verifier
    BY <2>1, OpenTableType
  <2>3. vault[h] \in Vault
    BY <1>5, HeldVault DEF open_from_slots
  <2>4. vault' = IF opened.ok THEN [vault EXCEPT ![h] = v] ELSE vault
    BY <1>5 DEF open_from_slots
  <2>. HIDE DEF opened
  <2>5. /\ v.master = opened.val.master
        /\ v.hierarchy = from_master(opened.val.master)
        /\ v.slots = opened.val.table
    BY <2>3 DEF Rebuilt, Vault
  <2>6. opened.ok => Coherent(v)
    BY <2>2, <2>5 DEF Coherent, verify_volume_result
  <2>. HIDE DEF v
  <2>7. CASE opened.ok = TRUE
    BY <2>4, <2>6, <2>7, CoherentUpdate
  <2>8. CASE opened.ok = FALSE
    BY <2>4, <2>8 DEF VaultCoherent
  <2>. QED
    BY <2>2, <2>7, <2>8
<1>. QED
  BY <1>1, <1>2, <1>3, <1>4, <1>5 DEF Slots, add_slot

(* The master, the hierarchy and the table of a vault always belong together:
   no sequence of unlocking, sealing, opening of intact or damaged tables and
   rotation leaves keys of another master behind (lib.rs:142-195). *)
THEOREM AlwaysCoherent == OpenSpec => []VaultCoherent
<1>1. Init => VaultCoherent
  BY DEF Init, VaultCoherent
<1>2. TypeOK /\ VaultCoherent /\ [OpenNext]_vars => VaultCoherent'
  <2>1. ASSUME TypeOK, VaultCoherent, Next
        PROVE  VaultCoherent'
    <3>1. ASSUME NEW h \in Handle, Data(h)
          PROVE  VaultCoherent'
      BY <2>1, <3>1 DEF Data, encrypt, decrypt, VaultCoherent
    <3>. QED
      BY <2>1, <3>1, CoherentLifecycle, CoherentSlots DEF Next
  <2>2. ASSUME VaultCoherent, DirectTableUse \/ UNCHANGED vars
        PROVE  VaultCoherent'
    BY <2>2 DEF DirectTableUse, TableAddSlot, TableRevokeSlot, vars, VaultCoherent
  <2>. QED
    BY <2>1, <2>2 DEF OpenNext
<1>. QED
  BY <1>1, <1>2, TypeCorrect, PTL DEF OpenSpec
-----------------------------------------------------------------------------
(* The key hierarchy, and the data encrypted under it.                     *)

(* The labels of two domains differ (hierarchy.rs:30-43). *)
LEMMA LabelsDiffer ==
  ASSUME NEW d \in Domain, NEW e \in Domain, info_tag(d) = info_tag(e)
  PROVE  d = e
BY DEF Domain, info_tag

(* What a domain key is expanded from. *)
LEMMA DomainKey ==
  ASSUME NEW m, NEW d \in Domain
  PROVE  /\ from_master(m)[d].ikm = m
         /\ from_master(m)[d].salt = MASTER_SALT
         /\ from_master(m)[d].info = info_tag(d)
BY DEF from_master, derive, hkdf_sha256

(* Domain keys are equal only for the same master and domain. *)
LEMMA DomainKeysSeparated ==
  ASSUME NEW m, NEW n, NEW d \in Domain, NEW e \in Domain,
         from_master(m)[d] = from_master(n)[e]
  PROVE  m = n /\ d = e
<1>1. from_master(m)[d].ikm = m /\ from_master(m)[d].info = info_tag(d)
  BY DomainKey
<1>2. from_master(n)[e].ikm = n /\ from_master(n)[e].info = info_tag(e)
  BY DomainKey
<1>3. m = n /\ info_tag(d) = info_tag(e)
  BY <1>1, <1>2
<1>. QED
  BY <1>3, LabelsDiffer

(* No key of the tree has two uses: domain keys are equal only for the same
   master and domain, sub-keys only for the same parent and context, and no
   sub-key is a domain key of any master (hierarchy.rs:25-133). *)
THEOREM KeysSeparated ==
  /\ \A m, n : \A d, e \in Domain : from_master(m)[d] = from_master(n)[e] => m = n /\ d = e
  /\ \A k, l, c, x : subkey(k, c) = subkey(l, x) => k = l /\ c = x
  /\ \A k, c, m : \A d \in Domain : subkey(k, c) # from_master(m)[d]
<1>1. ASSUME NEW k, NEW c, NEW m, NEW d \in Domain
      PROVE  subkey(k, c) # from_master(m)[d]
  <2>1. from_master(m)[d].salt = MASTER_SALT
    BY DomainKey
  <2>2. subkey(k, c).salt = SUBKEY_SALT
    BY DEF subkey, hkdf_sha256
  <2>. QED
    BY <2>1, <2>2 DEF MASTER_SALT, SUBKEY_SALT
<1>2. \A k, l, c, x : subkey(k, c) = subkey(l, x) => k = l /\ c = x
  BY DEF subkey, hkdf_sha256
<1>. QED
  BY <1>1, <1>2, DomainKeysSeparated

-----------------------------------------------------------------------------
(* A kept ciphertext is what encrypt made for its domain and master. *)
BlobsAsEncrypted ==
  \A b \in blobs :
    /\ b.ct = Ciphertext(b.ct.algo, from_master(b.master)[b.domain], b.nonce,
                         b.ct.msg, b.ct.aad)
    /\ b.nonce.len = NonceLen(b.ct.algo)

(* Every step keeps the ciphertexts as they were encrypted. *)
LEMMA BlobsStep ==
  ASSUME TypeOK, VaultCoherent, BlobsAsEncrypted, [OpenNext]_vars
  PROVE  BlobsAsEncrypted'
<1>1. CASE UNCHANGED blobs
  BY <1>1 DEF BlobsAsEncrypted
<1>2. ASSUME NEW h \in Handle, NEW d \in Domain, NEW msg \in Plaintext, NEW aad \in Aad,
             NEW algo \in AeadAlgo, encrypt(h, d, msg, aad, algo)
      PROVE  BlobsAsEncrypted'
  <2>. DEFINE key   == from_master(vault[h].master)[d]
              nonce == FreshNonce(algo, draws')
              blob  == [nonce |-> nonce, ct |-> Ciphertext(algo, key, nonce, msg, aad),
                        domain |-> d, master |-> vault[h].master]
  <2>1. vault[h] # None /\ vault[h].hierarchy = from_master(vault[h].master)
    BY <1>2 DEF encrypt, VaultCoherent, Coherent
  <2>2. blobs' = blobs \cup {blob}
    BY <1>2, <2>1 DEF encrypt, Encrypted, domain, seal
  <2>3. nonce.len = NonceLen(algo)
    BY DEF FreshNonce
  <2>. HIDE DEF nonce
  <2>4. /\ blob.nonce = nonce
        /\ blob.ct = Ciphertext(algo, key, nonce, msg, aad)
        /\ blob.ct.algo = algo /\ blob.ct.msg = msg /\ blob.ct.aad = aad
        /\ key = from_master(blob.master)[blob.domain]
    BY DEF Ciphertext
  <2>. HIDE DEF blob, key
  <2>. QED
    BY <2>2, <2>3, <2>4 DEF BlobsAsEncrypted
<1>3. ASSUME NEW h \in Handle, Data(h)
      PROVE  BlobsAsEncrypted'
  <2>1. ASSUME NEW d, NEW b, NEW aad, NEW algo, decrypt(h, d, b, aad, algo)
        PROVE  UNCHANGED blobs
    BY <2>1 DEF decrypt
  <2>. QED
    BY <1>1, <1>2, <1>3, <2>1 DEF Data
<1>4. ASSUME NEW h \in Handle, Lifecycle(h) \/ Slots(h)
      PROVE  UNCHANGED blobs
  BY <1>4 DEF Lifecycle, from_master_key, unlock, rotate_master, Drop,
              Slots, seal_slots, add_slot, add_first_slot, add_next_slot, revoke_slot,
              slots_to_bytes, open_from_slots, verify_volume
<1>5. ASSUME DirectTableUse
      PROVE  UNCHANGED blobs
  BY <1>5 DEF DirectTableUse, TableAddSlot, TableRevokeSlot
<1>. QED
  BY <1>1, <1>3, <1>4, <1>5 DEF OpenNext, Next, vars

(* The ciphertexts are always as they were encrypted. *)
LEMMA AlwaysAsEncrypted == OpenSpec => []BlobsAsEncrypted
<1>1. Init => BlobsAsEncrypted
  BY DEF Init, BlobsAsEncrypted
<1>. QED
  BY <1>1, BlobsStep, TypeCorrect, AlwaysCoherent, PTL DEF OpenSpec

(* The two algorithms have nonces of different lengths. *)
LEMMA NonceLengthsDiffer ==
  ASSUME NEW a \in AeadAlgo, NEW b \in AeadAlgo, NonceLen(a) = NonceLen(b)
  PROVE  a = b
BY DEF AeadAlgo, NonceLen

(* A ciphertext opens in exactly the vaults with the master it was made under,
   for its own domain, algorithm and associated data; every other attempt is
   the error AeadOpen, a nonce of the wrong length included
   (lib.rs:93-106, aead.rs:80-115). *)
THEOREM AlwaysOpenAtHome == OpenSpec => []CiphertextsOpenAtHome
<1>1. ASSUME TypeOK, VaultCoherent, BlobsAsEncrypted
      PROVE  CiphertextsOpenAtHome
  <2>1. SUFFICES ASSUME NEW h \in Handle, NEW b \in blobs, vault[h] # None,
                        NEW d \in Domain, NEW aad \in Aad, NEW algo \in AeadAlgo
                 PROVE  Decrypted(vault[h], d, b.nonce, b.ct, aad, algo) =
                          IF /\ b.master = vault[h].master
                             /\ b.domain = d
                             /\ b.ct.aad = aad
                             /\ b.ct.algo = algo
                          THEN Ok(b.ct.msg)
                          ELSE Err("AeadOpen")
    BY DEF CiphertextsOpenAtHome
  <2>. DEFINE key  == from_master(vault[h].master)[d]
              home == from_master(b.master)[b.domain]
  <2>2. Decrypted(vault[h], d, b.nonce, b.ct, aad, algo) =
          open(algo, key, b.nonce, b.ct, aad)
    BY <1>1, <2>1 DEF Decrypted, domain, VaultCoherent, Coherent
  <2>3. /\ b.ct = Ciphertext(b.ct.algo, home, b.nonce, b.ct.msg, b.ct.aad)
        /\ b.nonce.len = NonceLen(b.ct.algo)
        /\ b.ct.algo \in AeadAlgo
        /\ b.domain \in Domain
        /\ "msg" \in DOMAIN b.ct
    BY <1>1 DEF BlobsAsEncrypted, TypeOK, Blob
  <2>4. key = home <=> vault[h].master = b.master /\ d = b.domain
    BY <2>3, DomainKeysSeparated
  <2>. HIDE DEF key, home
  <2>5. b.ct = Ciphertext(algo, key, b.nonce, b.ct.msg, aad)
          <=> b.ct.algo = algo /\ home = key /\ b.ct.aad = aad
    BY <2>3 DEF Ciphertext
  <2>6. b.nonce.len = NonceLen(algo) <=> b.ct.algo = algo
    BY <2>3, NonceLengthsDiffer
  <2>7. CASE b.ct.algo = algo /\ home = key /\ b.ct.aad = aad
    <3>1. open(algo, key, b.nonce, b.ct, aad) = Ok(b.ct.msg)
      BY <2>3, <2>5, <2>6, <2>7 DEF open, AeadDecrypt
    <3>. QED
      BY <2>2, <2>4, <2>7, <3>1
  <2>8. CASE ~(b.ct.algo = algo /\ home = key /\ b.ct.aad = aad)
    <3>1. open(algo, key, b.nonce, b.ct, aad) = Err("AeadOpen")
      BY <2>5, <2>6, <2>8 DEF open, AeadDecrypt
    <3>. QED
      BY <2>2, <2>4, <2>8, <3>1
  <2>. QED
    BY <2>7, <2>8
<1>. QED
  BY <1>1, TypeCorrect, AlwaysCoherent, AlwaysAsEncrypted, PTL
=============================================================================
