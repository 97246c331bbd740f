--------------------------- MODULE AegisTableProofs --------------------------
(***************************************************************************)
(* Theorems of the key-slot tables, live and kept: where a table can come  *)
(* from, and what therefore holds of its slots.                            *)
(***************************************************************************)
EXTENDS VaultImplementsRoster, AegisVaultProofs

(* What holds whatever callers do to kept tables holds of the vaults alone. *)
LEMMA SpecIsOpen == Spec => OpenSpec
<1>1. [Next]_vars => [OpenNext]_vars
  BY DEF OpenNext
<1>. QED
  BY <1>1, PTL DEF Spec, OpenSpec

(* The MAC of a kept table is the one over its body. *)
SavedIntact ==
  \A s \in saved : s.bytes.mac = keyed_hash(s.header_salt, s.bytes.body)

(* The body, the MAC and the salt of kept tables, put together by a caller,
   pass for a table only if they are those of one kept table. *)
LEMMA MixedTables ==
  ASSUME TypeOK, SavedIntact, NEW s1 \in saved, NEW s2 \in saved, NEW s3 \in saved,
         s2.bytes.mac = keyed_hash(s3.header_salt, s1.bytes.body)
  PROVE  [header_salt |-> s3.header_salt, slots |-> s1.bytes.body.slots,
          verifier |-> s1.bytes.body.verifier] = Kept(s2)
<1>1. keyed_hash(s2.header_salt, s2.bytes.body) = keyed_hash(s3.header_salt, s1.bytes.body)
  BY DEF SavedIntact
<1>2. s2.header_salt = s3.header_salt /\ s2.bytes.body = s1.bytes.body
  BY <1>1 DEF keyed_hash
<1>. QED
  BY <1>2 DEF Kept

(* What opening a kept table does: it is refused, or the passphrase opens a slot
   of it. *)
LEMMA OpenStep ==
  ASSUME TypeOK, SavedIntact, NEW h \in Handle, NEW s1 \in saved, NEW s2 \in saved,
         NEW s3 \in saved, NEW pw \in Passphrase, open_from_slots(h, s1, s2, s3, pw)
  PROVE  \/ vault' = vault /\ ret'.out # "Ok"
         \/ /\ ret'.out = "Ok"
            /\ Opens(Kept(s2), pw) # {}
            /\ \E v \in Vault : /\ vault' = [vault EXCEPT ![h] = v]
                                /\ v.slots = Kept(s2)
<1>. DEFINE bytes  == [body |-> s1.bytes.body, mac |-> s2.bytes.mac]
            opened == OpenTable(bytes, s3.header_salt, pw)
            v      == Rebuilt(vault[h], opened.val.master, opened.val.table)
<1>1. bytes \in Bytes /\ s3.header_salt \in Nat
  BY DEF TypeOK, SavedTable, Bytes
<1>2. vault' = IF opened.ok THEN [vault EXCEPT ![h] = v] ELSE vault
  BY DEF open_from_slots
<1>3. vault[h] \in Vault
  BY HeldVault DEF open_from_slots
<1>4. ASSUME opened.ok = TRUE
      PROVE  v \in Vault /\ v.slots = Kept(s2) /\ Opens(Kept(s2), pw) # {}
  <2>1. /\ bytes.mac = keyed_hash(s3.header_salt, bytes.body)
        /\ opened.val.table = [header_salt |-> s3.header_salt, slots |-> bytes.body.slots,
                               verifier |-> bytes.body.verifier]
        /\ opened.val.table \in KeySlotTable
        /\ opened.val.master \in Master
        /\ Opens(opened.val.table, pw) # {}
    BY <1>1, <1>4, OpenTableType
  <2>2. opened.val.table = Kept(s2)
    BY <2>1, MixedTables
  <2>. HIDE DEF opened
  <2>3. v \in Vault /\ v.slots = opened.val.table
    BY <1>3, <2>1, HierarchyType DEF Rebuilt, Vault
  <2>. QED
    BY <2>1, <2>2, <2>3
<1>5. /\ opened.ok = TRUE => ret'.out = "Ok"
      /\ opened.ok = FALSE => ret'.out = opened.err
  BY DEF open_from_slots, Replies, Outcome
<1>6. \/ opened.ok = TRUE
      \/ opened.ok = FALSE /\ opened.err \in AegisError
  BY <1>1, OpenTableType
<1>7. "Ok" \notin AegisError
  BY DEF AegisError
<1>. HIDE DEF opened, v
<1>. QED
  BY <1>2, <1>4, <1>5, <1>6, <1>7

(* Every step keeps the MAC of each kept table the one under its salt
   (slots.rs:251-273). *)
LEMMA SavedIntactStep ==
  ASSUME SavedIntact, [OpenNext]_vars
  PROVE  SavedIntact'
<1>1. ASSUME NEW t, saved' = saved \cup {Serialized(t)}
      PROVE  SavedIntact'
  <2>1. Serialized(t).bytes.mac = keyed_hash(Serialized(t).header_salt,
                                             Serialized(t).bytes.body)
    BY DEF Serialized, to_bytes
  <2>. QED
    BY <1>1, <2>1 DEF SavedIntact
<1>2. saved' = saved \/ \E t : saved' = saved \cup {Serialized(t)}
  <2>1. ASSUME NEW h \in Handle, Lifecycle(h) \/ Data(h)
        PROVE  saved' = saved
    BY <2>1 DEF Lifecycle, from_master_key, unlock, rotate_master, Drop,
                Data, encrypt, decrypt
  <2>2. ASSUME NEW h \in Handle, Slots(h)
        PROVE  saved' = saved \/ \E t : saved' = saved \cup {Serialized(t)}
    BY <2>2 DEF Slots, seal_slots, add_slot, add_first_slot, add_next_slot, revoke_slot,
                slots_to_bytes, open_from_slots, verify_volume, Keep
  <2>3. ASSUME DirectTableUse
        PROVE  \E t : saved' = saved \cup {Serialized(t)}
    BY <2>3 DEF DirectTableUse, TableAddSlot, TableRevokeSlot, Keep
  <2>. QED
    BY <2>1, <2>2, <2>3 DEF OpenNext, Next, vars
<1>. QED
  BY <1>1, <1>2 DEF SavedIntact

(* The MAC binds a kept table to its salt, from the beginning. *)
LEMMA AlwaysSavedIntact == OpenSpec => []SavedIntact
<1>1. Init => SavedIntact
  BY DEF Init, SavedIntact
<1>. QED
  BY <1>1, SavedIntactStep, PTL DEF OpenSpec

(* Only open_from_slots reports that it opened a table. *)
LEMMA OpenedByOpening ==
  ASSUME OpenNext, Opened
  PROVE  \E h \in Handle, s1, s2, s3 \in saved, pw \in Passphrase :
           open_from_slots(h, s1, s2, s3, pw)
<1>1. ret'.op = "open_from_slots"
  BY DEF Opened
<1>2. ASSUME NEW h \in Handle, Lifecycle(h)
      PROVE  FALSE
  BY <1>1, <1>2 DEF Lifecycle, from_master_key, unlock, rotate_master, Drop, Returns, Replies
<1>3. ASSUME NEW h \in Handle, Data(h)
      PROVE  FALSE
  BY <1>1, <1>3 DEF Data, encrypt, decrypt, Returns, Replies
<1>4. ~DirectTableUse
  BY <1>1 DEF DirectTableUse, TableAddSlot, TableRevokeSlot, Returns, Replies
<1>5. ASSUME NEW h \in Handle, Slots(h)
      PROVE  \E s1, s2, s3 \in saved, pw \in Passphrase : open_from_slots(h, s1, s2, s3, pw)
  BY <1>1, <1>5 DEF Slots, seal_slots, add_slot, add_first_slot, add_next_slot,
                    revoke_slot, slots_to_bytes, verify_volume, Returns, Replies
<1>. QED
  BY <1>2, <1>3, <1>4, <1>5 DEF OpenNext, Next

(* A table is opened exactly as it was once serialized, whatever body, MAC and
   salt a caller puts together (slots.rs:276-290, lib.rs:142-158). *)
THEOREM OpenedWhole == OpenSpec => TablesOpenedWhole
<1>1. ASSUME TypeOK, SavedIntact, [OpenNext]_vars
      PROVE  [\A h \in Handle :
                vault'[h] # vault[h] /\ Opened =>
                  vault'[h].slots \in {Kept(s) : s \in saved}]_vars
  <2>1. SUFFICES ASSUME OpenNext, Opened, NEW h \in Handle, vault'[h] # vault[h]
                 PROVE  vault'[h].slots \in {Kept(s) : s \in saved}
    BY <1>1
  <2>2. PICK g \in Handle, s1 \in saved, s2 \in saved, s3 \in saved, pw \in Passphrase :
             open_from_slots(g, s1, s2, s3, pw)
    BY <2>1, OpenedByOpening
  <2>3. PICK v \in Vault : /\ vault' = [vault EXCEPT ![g] = v]
                           /\ v.slots = Kept(s2)
    BY <1>1, <2>1, <2>2, OpenStep
  <2>4. h = g /\ vault'[h] = v
    BY <1>1, <2>1, <2>3 DEF TypeOK
  <2>. QED
    BY <2>3, <2>4
<1>. QED
  BY <1>1, TypeCorrect, AlwaysSavedIntact, PTL DEF OpenSpec, TablesOpenedWhole

-----------------------------------------------------------------------------
(* Where a table comes from                                                *)

(* A new table holds the master of a vault, and has the number this step draws
   as its header salt. *)
Founded(t) ==
  \E m \in Master, pw \in Passphrase, n \in Nat :
    /\ \E h \in Handle : vault[h] # None /\ vault[h].master = m
    /\ draws < n /\ n = draws'
    /\ t = new_initial(m, pw, n)

Extended(t0, t, m) ==
  \E pw \in Passphrase, n \in Nat :
    t = [t0 EXCEPT !.slots = Append(t0.slots, KeySlot_create(m, pw, n))]

Reduced(t0, t) ==
  \E i \in enabled_slots(t0) :
    /\ enabled_count(t0) > 1
    /\ t = [t0 EXCEPT !.slots = [t0.slots EXCEPT ![i] = Disable(t0.slots[i])]]

(* t is new, or made from a table in existence by one call; in a vault, a
   slot added to t0 holds the master of the verifier of t0. *)
Derived(t) ==
  \/ t \in Tables
  \/ Founded(t)
  \/ \E t0 \in Tables, m \in Master : t0.verifier = volume_verifier(m) /\ Extended(t0, t, m)
  \/ \E t0 \in Tables : Reduced(t0, t)

(* The tables in existence are well-typed. *)
LEMMA TablesType ==
  ASSUME TypeOK
  PROVE  Tables \subseteq KeySlotTable
<1>1. \A s \in saved : Kept(s) \in KeySlotTable
  BY DEF TypeOK, SavedTable, Body, Kept, KeySlotTable
<1>2. LiveTables \subseteq KeySlotTable
  BY HeldVault DEF LiveTables
<1>. QED
  BY <1>1, <1>2 DEF Tables

(* The tables after one vault was replaced. *)
LEMMA TablesUpdate ==
  ASSUME TypeOK, NEW h \in Handle, NEW v, vault' = [vault EXCEPT ![h] = v],
         UNCHANGED saved
  PROVE  \A t \in Tables' : t \in Tables \/ (v # None /\ v.slots # None /\ t = v.slots)
<1>1. \A g \in Handle : vault'[g] = IF g = h THEN v ELSE vault[g]
  BY DEF TypeOK
<1>2. \A t \in LiveTables' : t \in LiveTables \/ (v # None /\ v.slots # None /\ t = v.slots)
  BY <1>1 DEF LiveTables
<1>. QED
  BY <1>2 DEF Tables

(* The tables after one table was serialized and kept. *)
LEMMA TablesKept ==
  ASSUME UNCHANGED vault, NEW t0 \in KeySlotTable, saved' = saved \cup {Serialized(t0)}
  PROVE  \A t \in Tables' : t \in Tables \/ t = t0
BY SerializedType DEF Tables, LiveTables

(* The tables after the table of one vault was replaced. *)
LEMMA TablesReplaced ==
  ASSUME TypeOK, NEW h \in Handle, vault[h] # None, NEW t0 \in KeySlotTable,
         vault' = [vault EXCEPT ![h].slots = t0], UNCHANGED saved
  PROVE  \A t \in Tables' : t \in Tables \/ t = t0
<1>. DEFINE v == [vault[h] EXCEPT !.slots = t0]
<1>1. vault' = [vault EXCEPT ![h] = v]
  BY SlotsUpdateType
<1>2. v.slots = t0
  BY HeldVault DEF Vault
<1>. HIDE DEF v
<1>. QED
  BY <1>1, <1>2, TablesUpdate

(* Every table is new or made from an earlier one. *)
LEMMA TablesAfterNext ==
  ASSUME TypeOK, VaultCoherent, SavedIntact, [Next]_vars
  PROVE  \A t \in Tables' : Derived(t)
<1>1. ASSUME UNCHANGED <<vault, saved>>
      PROVE  \A t \in Tables' : Derived(t)
  BY <1>1 DEF Tables, LiveTables, Derived
<1>2. ASSUME NEW h \in Handle, Lifecycle(h)
      PROVE  \A t \in Tables' : Derived(t)
  <2>1. UNCHANGED saved
    BY <1>2 DEF Lifecycle, from_master_key, unlock, rotate_master, Drop
  <2>2. \/ UNCHANGED vault
        \/ \E v : vault' = [vault EXCEPT ![h] = v] /\ (v # None => v.slots = None)
    <3>1. \A m : NewVault(m).slots = None
      BY DEF NewVault
    <3>2. ASSUME rotate_master(h)
          PROVE  Rotated(vault[h], rotate(draws')).slots = None
      <4>1. vault[h] \in Vault
        BY <3>2, HeldVault DEF rotate_master
      <4>. QED
        BY <4>1 DEF Rotated, Vault
    <3>. QED
      BY <1>2, <3>1, <3>2 DEF Lifecycle, from_master_key, unlock, rotate_master, Drop
  <2>. QED
    BY <1>1, <2>1, <2>2, TablesUpdate DEF Derived
<1>3. ASSUME NEW h \in Handle, NEW pw \in Passphrase,
             seal_slots(h, pw) \/ add_first_slot(h, pw)
      PROVE  \A t \in Tables' : Derived(t)
  <2>. DEFINE t0 == new_initial(vault[h].master, pw, draws')
  <2>1. vault[h] # None /\ draws' \in Nat /\ draws < draws'
    BY <1>3 DEF seal_slots, add_first_slot, Draw, TypeOK
  <2>2. vault' = [vault EXCEPT ![h].slots = t0] /\ UNCHANGED saved
    BY <1>3 DEF seal_slots, add_first_slot
  <2>3. t0 \in KeySlotTable /\ Founded(t0)
    BY <2>1, HeldVault, NewTable DEF Founded
  <2>. HIDE DEF t0
  <2>. QED
    BY <2>1, <2>2, <2>3, TablesReplaced DEF Derived
<1>4. ASSUME NEW h \in Handle, NEW pw \in Passphrase, add_next_slot(h, pw)
      PROVE  \A t \in Tables' : Derived(t)
  <2>. DEFINE t0    == vault[h].slots
              m     == vault[h].master
              added == table_add_slot(t0, m, pw, draws + 1)
              t1    == [t0 EXCEPT !.slots =
                          Append(t0.slots, KeySlot_create(m, pw, draws + 1))]
  <2>1. /\ vault[h] # None
        /\ t0 # None
        /\ t0 \in KeySlotTable
        /\ m \in Master
        /\ draws + 1 \in Nat
    BY <1>4, HeldVault DEF add_next_slot, TypeOK
  <2>2. t0 \in Tables /\ t0.verifier = volume_verifier(m)
    BY <2>1 DEF Tables, LiveTables, VaultCoherent, Coherent, verify_volume_result
  <2>3. Extended(t0, t1, m)
    BY <2>1 DEF Extended
  <2>4. \/ added.ok = TRUE /\ added.val.table = t1 /\ t1 \in KeySlotTable
        \/ added.ok = FALSE
    BY <2>1, AddSlotType
  <2>5. /\ UNCHANGED saved
        /\ IF added.ok THEN vault' = [vault EXCEPT ![h].slots = added.val.table]
                       ELSE UNCHANGED vault
    BY <1>4 DEF add_next_slot
  <2>. HIDE DEF t0, m, added, t1
  <2>6. CASE added.ok = TRUE
    BY <2>1, <2>2, <2>3, <2>4, <2>5, <2>6, TablesReplaced DEF Derived
  <2>7. CASE added.ok = FALSE
    BY <1>1, <2>5, <2>7
  <2>. QED
    BY <2>4, <2>6, <2>7
<1>5. ASSUME NEW h \in Handle, NEW idx \in 0 .. MAX_SLOTS, revoke_slot(h, idx)
      PROVE  \A t \in Tables' : Derived(t)
  <2>. DEFINE t0      == vault[h].slots
              revoked == table_revoke_slot(t0, idx)
  <2>1. vault[h] # None /\ UNCHANGED saved /\ idx \in Nat
    BY <1>5 DEF revoke_slot
  <2>2. CASE t0 = None
    <3>1. UNCHANGED vault
      BY <1>5, <2>2 DEF revoke_slot, Err
    <3>. QED
      BY <1>1, <2>1, <3>1
  <2>3. CASE t0 # None
    <3>1. t0 \in KeySlotTable /\ t0 \in Tables
      BY <2>1, <2>3, HeldVault DEF Tables, LiveTables
    <3>2. vault' = IF revoked.ok THEN [vault EXCEPT ![h].slots = revoked.val] ELSE vault
      BY <1>5, <2>3 DEF revoke_slot
    <3>3. \/ revoked.ok = TRUE /\ revoked.val = t0
          \/ revoked.ok = TRUE /\ Reduced(t0, revoked.val) /\ revoked.val \in KeySlotTable
          \/ revoked.ok = FALSE
      BY <2>1, <3>1, RevokeSlotType DEF Reduced
    <3>. HIDE DEF t0, revoked
    <3>4. CASE revoked.ok = TRUE
      BY <2>1, <3>1, <3>2, <3>3, <3>4, TablesReplaced DEF Derived
    <3>5. CASE revoked.ok = FALSE
      BY <1>1, <2>1, <3>2, <3>5
    <3>. QED
      BY <3>3, <3>4, <3>5
  <2>. QED
    BY <2>2, <2>3
<1>6. ASSUME NEW h \in Handle, slots_to_bytes(h)
      PROVE  \A t \in Tables' : Derived(t)
  <2>1. /\ vault[h] # None
        /\ vault[h].slots # None
        /\ UNCHANGED vault
        /\ saved' = saved \cup {Serialized(vault[h].slots)}
    BY <1>6 DEF slots_to_bytes, Keep
  <2>2. vault[h].slots \in KeySlotTable /\ vault[h].slots \in Tables
    BY <2>1, HeldVault DEF Tables, LiveTables
  <2>. QED
    BY <2>1, <2>2, TablesKept DEF Derived
<1>7. ASSUME NEW h \in Handle, NEW s1 \in saved, NEW s2 \in saved, NEW s3 \in saved,
             NEW pw \in Passphrase, open_from_slots(h, s1, s2, s3, pw)
      PROVE  \A t \in Tables' : Derived(t)
  <2>1. UNCHANGED saved
    BY <1>7 DEF open_from_slots
  <2>2. CASE UNCHANGED vault
    BY <1>1, <2>1, <2>2
  <2>3. CASE \E v \in Vault : vault' = [vault EXCEPT ![h] = v] /\ v.slots = Kept(s2)
    <3>1. PICK v \in Vault : vault' = [vault EXCEPT ![h] = v] /\ v.slots = Kept(s2)
      BY <2>3
    <3>2. Kept(s2) \in Tables
      BY DEF Tables
    <3>. QED
      BY <2>1, <3>1, <3>2, TablesUpdate DEF Derived
  <2>. QED
    BY <1>7, <2>2, <2>3, OpenStep
<1>8. ASSUME NEW h \in Handle, Data(h) \/ verify_volume(h)
      PROVE  \A t \in Tables' : Derived(t)
  BY <1>1, <1>8 DEF Data, encrypt, decrypt, verify_volume
<1>. QED
  BY <1>1, <1>2, <1>3, <1>4, <1>5, <1>6, <1>7, <1>8 DEF Next, Slots, add_slot, vars

-----------------------------------------------------------------------------
(* Every table admits its members                                          *)

(* A table has an enabled slot, and its enabled slots all hold the master its
   verifier was made from. *)
WellFilled(t) ==
  /\ enabled_slots(t) # {}
  /\ \A i \in enabled_slots(t) : \E m \in Master, pw \in Passphrase, n \in Nat :
       t.verifier = volume_verifier(m) /\ t.slots[i] = KeySlot_create(m, pw, n)

(* A new slot opens with its passphrase. *)
LEMMA UnsealNewSlot ==
  ASSUME NEW m \in Master, NEW pw \in Passphrase, NEW n \in Nat
  PROVE  unseal(KeySlot_create(m, pw, n), pw).ok = TRUE
<1>. DEFINE slot  == KeySlot_create(m, pw, n)
            key   == SlotKey(pw, SlotSalt(n))
            nonce == FreshNonce("Aes256Gcm", n)
<1>1. /\ slot.salt = SlotSalt(n)
      /\ slot.nonce = nonce
      /\ slot.ct = Ciphertext("Aes256Gcm", key, nonce, m, HEADER_MAGIC)
  BY NewSlot
<1>2. nonce.len = NonceLen("Aes256Gcm")
  BY DEF FreshNonce
<1>. HIDE DEF slot, key, nonce
<1>3. slot.ct.msg = m /\ "msg" \in DOMAIN slot.ct
  BY <1>1 DEF Ciphertext
<1>4. open("Aes256Gcm", key, nonce, slot.ct, HEADER_MAGIC) = Ok(m)
  BY <1>1, <1>2, <1>3 DEF open, AeadDecrypt
<1>5. open("Aes256Gcm", SlotKey(pw, slot.salt), slot.nonce, slot.ct, HEADER_MAGIC) = Ok(m)
  BY <1>1, <1>4 DEF key
<1>6. Ok(m).ok = TRUE
  BY DEF Ok
<1>7. unseal(slot, pw) = Ok(m)
  BY <1>5, <1>6 DEF unseal
<1>. QED
  BY <1>6, <1>7 DEF slot

(* A table with the one slot for its own master. *)
LEMMA FilledByOne ==
  ASSUME NEW m \in Master, NEW pw \in Passphrase, NEW n \in Nat, NEW t,
         t.slots = <<KeySlot_create(m, pw, n)>>, t.verifier = volume_verifier(m)
  PROVE  WellFilled(t)
<1>1. is_enabled(KeySlot_create(m, pw, n))
  BY NewSlot
<1>2. enabled_slots(t) = {1} /\ t.slots[1] = KeySlot_create(m, pw, n)
  BY <1>1 DEF enabled_slots
<1>. QED
  BY <1>2 DEF WellFilled

(* The slot of a new table holds the table's master (slots.rs:191-200). *)
LEMMA FoundedWellFilled ==
  ASSUME NEW t, Founded(t)
  PROVE  WellFilled(t)
<1>1. PICK m \in Master, pw \in Passphrase, n \in Nat : t = new_initial(m, pw, n)
  BY DEF Founded
<1>2. /\ t.slots = <<KeySlot_create(m, pw, n)>>
      /\ t.verifier = volume_verifier(m)
  BY <1>1, NewTable
<1>. QED
  BY <1>2, FilledByOne

(* A slot that is added holds the table's master, and the earlier ones are
   as before (slots.rs:204-211). *)
LEMMA ExtendedWellFilled ==
  ASSUME NEW t0 \in KeySlotTable, WellFilled(t0), NEW m \in Master,
         t0.verifier = volume_verifier(m), NEW t, Extended(t0, t, m)
  PROVE  WellFilled(t)
<1>1. PICK pw \in Passphrase, n \in Nat :
             t = [t0 EXCEPT !.slots = Append(t0.slots, KeySlot_create(m, pw, n))]
  BY DEF Extended
<1>. DEFINE slot == KeySlot_create(m, pw, n)
<1>2. t.slots = Append(t0.slots, slot) /\ t.verifier = t0.verifier
  BY <1>1 DEF KeySlotTable
<1>3. slot \in KeySlot /\ t0.slots \in Seq(KeySlot)
  BY NewSlot DEF KeySlotTable
<1>. HIDE DEF slot
<1>4. /\ DOMAIN t.slots = DOMAIN t0.slots \cup {Len(t0.slots) + 1}
      /\ \A i \in DOMAIN t0.slots : t.slots[i] = t0.slots[i]
      /\ t.slots[Len(t0.slots) + 1] = slot
  BY <1>2, <1>3
<1>5. /\ enabled_slots(t0) \subseteq enabled_slots(t)
      /\ enabled_slots(t) \subseteq enabled_slots(t0) \cup {Len(t0.slots) + 1}
      /\ enabled_slots(t0) \subseteq DOMAIN t0.slots
  BY <1>4 DEF enabled_slots
<1>. QED
  BY <1>2, <1>4, <1>5 DEF WellFilled, slot

(* The slots a revocation leaves enabled hold the table's master, and one is
   left (slots.rs:219-234). *)
LEMMA ReducedWellFilled ==
  ASSUME NEW t0 \in KeySlotTable, WellFilled(t0), NEW t, Reduced(t0, t)
  PROVE  WellFilled(t)
<1>1. PICK i \in enabled_slots(t0) :
        /\ enabled_count(t0) > 1
        /\ t = [t0 EXCEPT !.slots = [t0.slots EXCEPT ![i] = Disable(t0.slots[i])]]
  BY DEF Reduced
<1>2. /\ t.slots = [t0.slots EXCEPT ![i] = Disable(t0.slots[i])]
      /\ t.verifier = t0.verifier
  BY <1>1 DEF KeySlotTable
<1>3. i \in DOMAIN t0.slots /\ t0.slots[i] \in KeySlot
  BY EnabledSlots DEF KeySlotTable
<1>4. ~is_enabled(Disable(t0.slots[i]))
  BY <1>3 DEF is_enabled, Disable, KeySlot
<1>5. /\ DOMAIN t.slots = DOMAIN t0.slots
      /\ t.slots[i] = Disable(t0.slots[i])
      /\ \A j \in DOMAIN t0.slots \ {i} : t.slots[j] = t0.slots[j]
  BY <1>2, <1>3
<1>6. enabled_slots(t) = enabled_slots(t0) \ {i}
  BY <1>4, <1>5 DEF enabled_slots
<1>7. enabled_slots(t0) # {i}
  BY <1>1, FS_Singleton DEF enabled_count
<1>8. enabled_slots(t) # {}
  BY <1>6, <1>7
<1>9. \A j \in enabled_slots(t) : j \in enabled_slots(t0) /\ t.slots[j] = t0.slots[j]
  BY <1>5, <1>6 DEF enabled_slots
<1>. QED
  BY <1>2, <1>8, <1>9 DEF WellFilled

(* A table whose slots hold its own master opens with any of their
   passphrases, whichever slot is the first that opens. *)
LEMMA WellFilledAdmits ==
  ASSUME NEW t \in KeySlotTable, WellFilled(t), NEW i \in enabled_slots(t)
  PROVE  \E pw \in Passphrase :
           /\ unseal(t.slots[i], pw).ok
           /\ OpenTable(to_bytes(t), t.header_salt, pw).ok
<1>1. PICK m \in Master, pw \in Passphrase, n \in Nat : t.slots[i] = KeySlot_create(m, pw, n)
  BY DEF WellFilled
<1>2. unseal(t.slots[i], pw).ok = TRUE
  BY <1>1, UnsealNewSlot
<1>3. Opens(t, pw) # {}
  BY <1>2 DEF Opens
<1>4. PICK j \in enabled_slots(t) :
        /\ unseal_with(t, pw).ok = TRUE
        /\ unseal_with(t, pw).val.master = t.slots[j].ct.msg
  BY <1>3, UnsealWithType
<1>5. volume_verifier(t.slots[j].ct.msg) = t.verifier
  <2>1. PICK m2 \in Master, pw2 \in Passphrase, n2 \in Nat :
          t.verifier = volume_verifier(m2) /\ t.slots[j] = KeySlot_create(m2, pw2, n2)
    BY DEF WellFilled
  <2>2. t.slots[j].ct.msg = m2
    BY <2>1, NewSlot
  <2>. QED
    BY <2>1, <2>2
<1>6. from_bytes(to_bytes(t), t.header_salt) = Ok(t)
  BY DEF from_bytes, to_bytes, KeySlotTable, Ok
<1>7. OpenTable(to_bytes(t), t.header_salt, pw).ok = TRUE
  BY <1>4, <1>5, <1>6 DEF OpenTable, Ok
<1>. QED
  BY <1>2, <1>7

(* Every enabled slot in existence holds the master of its table. *)
AllWellFilled == \A t \in Tables : WellFilled(t)

(* In every table, live or kept, each enabled slot holds the table's master
   (slots.rs:191-234). *)
LEMMA AlwaysWellFilled == Spec => []AllWellFilled
<1>1. Init => AllWellFilled
  BY DEF Init, AllWellFilled, Tables, LiveTables
<1>2. ASSUME TypeOK, VaultCoherent, SavedIntact, AllWellFilled, [Next]_vars
      PROVE  AllWellFilled'
  <2>1. SUFFICES ASSUME NEW t \in Tables'
                 PROVE  WellFilled(t)
    BY DEF AllWellFilled, WellFilled, enabled_slots
  <2>2. Derived(t)
    BY <1>2, <2>1, TablesAfterNext
  <2>. QED
    BY <1>2, <2>2, TablesType, FoundedWellFilled, ExtendedWellFilled, ReducedWellFilled
       DEF Derived, AllWellFilled
<1>. QED
  BY <1>1, <1>2, SpecIsOpen, TypeCorrect, AlwaysCoherent, AlwaysSavedIntact, PTL DEF Spec

(* No sequence of calls of the vaults locks the users out of a table: every
   table, live or kept, has an enabled slot, and the passphrase of every enabled
   slot opens the table in any vault (slots.rs:218-234, lib.rs:108-125). *)
THEOREM AlwaysAdmitted == Spec => []MembersAdmitted
<1>1. ASSUME TypeOK, AllWellFilled
      PROVE  MembersAdmitted
  BY <1>1, TablesType, WellFilledAdmits DEF AllWellFilled, MembersAdmitted, WellFilled
<1>. QED
  BY <1>1, SpecIsOpen, TypeCorrect, AlwaysWellFilled, PTL

-----------------------------------------------------------------------------
(* Revoked slots are empty                                                 *)

(* The sealed master of a disabled slot is wiped. *)
Wiped(t) == \A i \in DOMAIN t.slots : is_enabled(t.slots[i]) \/ t.slots[i].ct = ZeroCt

(* Every disabled slot in existence is wiped. *)
AllWiped == \A t \in Tables : Wiped(t)

(* Adding a slot leaves the revoked ones wiped. *)
LEMMA ExtendedWiped ==
  ASSUME NEW t0 \in KeySlotTable, Wiped(t0), NEW m \in Master, NEW t, Extended(t0, t, m)
  PROVE  Wiped(t)
<1>1. PICK pw \in Passphrase, n \in Nat :
             t = [t0 EXCEPT !.slots = Append(t0.slots, KeySlot_create(m, pw, n))]
  BY DEF Extended
<1>. DEFINE slot == KeySlot_create(m, pw, n)
<1>2. t.slots = Append(t0.slots, slot)
  BY <1>1 DEF KeySlotTable
<1>3. slot \in KeySlot /\ is_enabled(slot) /\ t0.slots \in Seq(KeySlot)
  BY NewSlot DEF KeySlotTable
<1>. HIDE DEF slot
<1>4. /\ DOMAIN t.slots = DOMAIN t0.slots \cup {Len(t0.slots) + 1}
      /\ \A i \in DOMAIN t0.slots : t.slots[i] = t0.slots[i]
      /\ t.slots[Len(t0.slots) + 1] = slot
  BY <1>2, <1>3
<1>. QED
  BY <1>3, <1>4 DEF Wiped

(* Revoking a slot wipes it. *)
LEMMA ReducedWiped ==
  ASSUME NEW t0 \in KeySlotTable, Wiped(t0), NEW t, Reduced(t0, t)
  PROVE  Wiped(t)
<1>1. PICK i \in enabled_slots(t0) :
        t = [t0 EXCEPT !.slots = [t0.slots EXCEPT ![i] = Disable(t0.slots[i])]]
  BY DEF Reduced
<1>2. t.slots = [t0.slots EXCEPT ![i] = Disable(t0.slots[i])]
  BY <1>1 DEF KeySlotTable
<1>3. i \in DOMAIN t0.slots /\ t0.slots[i] \in KeySlot
  BY EnabledSlots DEF KeySlotTable
<1>4. Disable(t0.slots[i]).ct = ZeroCt
  BY <1>3 DEF Disable, KeySlot
<1>. QED
  BY <1>2, <1>3, <1>4 DEF Wiped

(* What a call on a kept table adds to the tables in existence. *)
LEMMA TablesAfterDirectUse ==
  ASSUME TypeOK, SavedIntact, DirectTableUse
  PROVE  \A t \in Tables' :
           \/ t \in Tables
           \/ \E t0 \in Tables, m \in Master : Extended(t0, t, m)
           \/ \E t0 \in Tables : Reduced(t0, t)
<1>1. ASSUME NEW s \in saved
      PROVE  /\ from_bytes(s.bytes, s.header_salt) = Ok(Kept(s))
             /\ Ok(Kept(s)).val = Kept(s)
             /\ Kept(s) \in Tables
             /\ Kept(s) \in KeySlotTable
  <2>1. Kept(s) \in Tables
    BY DEF Tables
  <2>. QED
    BY <2>1, TablesType DEF SavedIntact, from_bytes, Kept, Ok
<1>2. ASSUME NEW s \in saved, NEW m \in Master, NEW pw \in Passphrase,
             TableAddSlot(s, m, pw)
      PROVE  \E t1 \in KeySlotTable :
               /\ Extended(Kept(s), t1, m)
               /\ UNCHANGED vault /\ saved' = saved \cup {Serialized(t1)}
  <2>. DEFINE t0    == Kept(s)
              added == table_add_slot(t0, m, pw, draws')
  <2>1. /\ draws' \in Nat
        /\ UNCHANGED vault
        /\ added.ok
        /\ saved' = saved \cup {Serialized(added.val.table)}
    BY <1>1, <1>2 DEF TableAddSlot, Draw, TypeOK, Keep
  <2>2. t0 \in KeySlotTable
    BY <1>1
  <2>3. added.val.table \in KeySlotTable /\ Extended(t0, added.val.table, m)
    BY <2>1, <2>2, AddSlotType DEF Extended
  <2>. HIDE DEF added
  <2>. QED
    BY <2>1, <2>3
<1>3. ASSUME NEW s \in saved, NEW idx \in 0 .. MAX_SLOTS, TableRevokeSlot(s, idx)
      PROVE  \E t1 \in KeySlotTable :
               /\ t1 = Kept(s) \/ Reduced(Kept(s), t1)
               /\ UNCHANGED vault /\ saved' = saved \cup {Serialized(t1)}
  <2>. DEFINE t0      == Kept(s)
              revoked == table_revoke_slot(t0, idx)
  <2>1. /\ UNCHANGED vault
        /\ revoked.ok
        /\ saved' = saved \cup {Serialized(revoked.val)}
    BY <1>1, <1>3 DEF TableRevokeSlot, Keep
  <2>2. t0 \in KeySlotTable /\ idx \in Nat
    BY <1>1
  <2>3. /\ revoked.val \in KeySlotTable
        /\ revoked.val = t0 \/ Reduced(t0, revoked.val)
    BY <2>1, <2>2, RevokeSlotType DEF Reduced
  <2>. HIDE DEF revoked
  <2>. QED
    BY <2>1, <2>3
<1>4. ASSUME NEW s \in saved, NEW h \in Handle, NEW pw \in Passphrase,
             vault[h] # None, TableAddSlot(s, vault[h].master, pw)
      PROVE  \E m \in Master, t1 \in KeySlotTable :
               /\ Extended(Kept(s), t1, m)
               /\ UNCHANGED vault /\ saved' = saved \cup {Serialized(t1)}
  BY <1>2, <1>4, HeldVault
<1>. QED
  BY <1>1, <1>3, <1>4, TablesKept DEF DirectTableUse

(* Every table is new or made from an earlier one by one call, also behind
   the vaults' back; then a slot may hold any vault's master. *)
LEMMA TablesAfterOpenNext ==
  ASSUME TypeOK, VaultCoherent, SavedIntact, [OpenNext]_vars
  PROVE  \A t \in Tables' :
           \/ t \in Tables
           \/ Founded(t)
           \/ \E t0 \in Tables, m \in Master : Extended(t0, t, m)
           \/ \E t0 \in Tables : Reduced(t0, t)
BY TablesAfterNext, TablesAfterDirectUse DEF OpenNext, Derived

(* A table changed by one call keeps its header salt and its verifier. *)
LEMMA SameOrigin ==
  ASSUME NEW t0 \in KeySlotTable, NEW t,
         Reduced(t0, t) \/ (\E m \in Master : Extended(t0, t, m))
  PROVE  t.header_salt = t0.header_salt /\ t.verifier = t0.verifier
BY DEF Extended, Reduced, KeySlotTable

(* In every table, live or kept, a disabled slot has been wiped
   (slots.rs:219-234). *)
LEMMA AlwaysWiped == OpenSpec => []AllWiped
<1>1. Init => AllWiped
  BY DEF Init, AllWiped, Tables, LiveTables
<1>2. ASSUME NEW t, Founded(t)
      PROVE  Wiped(t)
  BY <1>2, NewTable, NewSlot DEF Founded, Wiped
<1>3. ASSUME TypeOK, VaultCoherent, SavedIntact, AllWiped, [OpenNext]_vars
      PROVE  AllWiped'
  <2>1. SUFFICES ASSUME NEW t \in Tables'
                 PROVE  Wiped(t)
    BY DEF AllWiped, Wiped, is_enabled
  <2>. QED
    BY <1>2, <1>3, <2>1, TablesAfterOpenNext, TablesType, ExtendedWiped, ReducedWiped DEF AllWiped
<1>. QED
  BY <1>1, <1>3, TypeCorrect, AlwaysCoherent, AlwaysSavedIntact, PTL DEF OpenSpec

(* No passphrase opens a revoked slot again, not even by its raw ciphertext
   and whatever its enabled bit says (slots.rs:229-232). *)
THEOREM AlwaysEmpty == OpenSpec => []RevokedSlotsAreEmpty
<1>1. ASSUME TypeOK, AllWiped
      PROVE  RevokedSlotsAreEmpty
  <2>1. SUFFICES ASSUME NEW t \in Tables, NEW i \in DOMAIN t.slots \ enabled_slots(t),
                        NEW pw \in Passphrase
                 PROVE  ~unseal(t.slots[i], pw).ok
    BY DEF RevokedSlotsAreEmpty
  <2>2. t.slots[i].ct = ZeroCt
    BY <1>1 DEF AllWiped, Wiped, enabled_slots
  <2>3. t.slots[i] \in KeySlot
    BY <1>1, TablesType DEF KeySlotTable
  <2>. QED
    BY <2>2, <2>3, UnsealType
<1>. QED
  BY <1>1, TypeCorrect, AlwaysWiped, PTL
-----------------------------------------------------------------------------
(* An index names the same slot while the table lives                      *)

(* No table has a header salt that is yet to be drawn. *)
SaltsDrawn == \A t \in Tables : t.header_salt <= draws

(* A step draws from OsRng once or not at all (slots.rs:191-193, aead.rs:46-66). *)
LEMMA NextDraws ==
  ASSUME [OpenNext]_vars
  PROVE  draws' = draws \/ Draw
<1>1. ASSUME NEW h \in Handle, Lifecycle(h) \/ Data(h)
      PROVE  draws' = draws \/ Draw
  BY <1>1 DEF Lifecycle, Data, from_master_key, unlock, rotate_master, Drop, encrypt, decrypt
<1>2. ASSUME NEW h \in Handle, NEW pw \in Passphrase, seal_slots(h, pw) \/ add_slot(h, pw)
      PROVE  draws' = draws \/ Draw
  BY <1>2 DEF seal_slots, add_slot, add_first_slot, add_next_slot
<1>3. ASSUME NEW h \in Handle, Slots(h)
      PROVE  draws' = draws \/ Draw
  BY <1>2, <1>3 DEF Slots, revoke_slot, slots_to_bytes, open_from_slots, verify_volume
<1>4. ASSUME DirectTableUse
      PROVE  draws' = draws \/ Draw
  BY <1>4 DEF DirectTableUse, TableAddSlot, TableRevokeSlot
<1>. QED
  BY <1>1, <1>3, <1>4 DEF OpenNext, Next, vars

(* So the number of draws grows. *)
LEMMA DrawsGrow ==
  ASSUME TypeOK, [OpenNext]_vars
  PROVE  draws' \in Nat /\ draws <= draws'
BY NextDraws DEF Draw, TypeOK

(* A table keeps its header salt for as long as it lives, and a new one gets
   one that no table has (slots.rs:191-193). *)
LEMMA AlwaysSaltsDrawn == OpenSpec => []SaltsDrawn
<1>1. Init => SaltsDrawn
  BY DEF Init, SaltsDrawn, Tables, LiveTables
<1>2. ASSUME TypeOK, VaultCoherent, SavedIntact, SaltsDrawn, [OpenNext]_vars
      PROVE  SaltsDrawn'
  <2>1. SUFFICES ASSUME NEW t \in Tables'
                 PROVE  t.header_salt <= draws'
    BY DEF SaltsDrawn
  <2>2. draws \in Nat /\ draws' \in Nat /\ draws <= draws'
    BY <1>2, DrawsGrow DEF TypeOK
  <2>3. ASSUME Founded(t)
        PROVE  t.header_salt = draws'
    BY <2>3, NewTable DEF Founded
  <2>4. t.header_salt = draws' \/ \E t0 \in Tables : t.header_salt = t0.header_salt
    <3>1. Tables \subseteq KeySlotTable
      BY <1>2, TablesType
    <3>. QED
      BY <1>2, <2>1, <2>3, <3>1, TablesAfterOpenNext, SameOrigin
  <2>5. \A t0 \in Tables : t0.header_salt \in Nat /\ t0.header_salt <= draws
    BY <1>2, TablesType DEF SaltsDrawn, KeySlotTable
  <2>. QED
    BY <2>2, <2>4, <2>5
<1>. QED
  BY <1>1, <1>2, TypeCorrect, AlwaysCoherent, AlwaysSavedIntact, PTL DEF OpenSpec

(* The slots of t0 are in their places in t, and no revoked one is enabled. *)
Stable(t0, t) ==
  \A i \in DOMAIN t0.slots :
    /\ i \in DOMAIN t.slots
    /\ t.slots[i].salt = t0.slots[i].salt
    /\ t.slots[i].enabled => t0.slots[i].enabled

(* A slot that is added goes behind the others (slots.rs:210). *)
LEMMA ExtendedStable ==
  ASSUME NEW t0 \in KeySlotTable, NEW m \in Master, NEW t, Extended(t0, t, m)
  PROVE  Stable(t0, t)
<1>1. PICK pw \in Passphrase, n \in Nat :
             t = [t0 EXCEPT !.slots = Append(t0.slots, KeySlot_create(m, pw, n))]
  BY DEF Extended
<1>. DEFINE slot == KeySlot_create(m, pw, n)
<1>2. t.slots = Append(t0.slots, slot)
  BY <1>1 DEF KeySlotTable
<1>3. slot \in KeySlot /\ t0.slots \in Seq(KeySlot)
  BY NewSlot DEF KeySlotTable
<1>. HIDE DEF slot
<1>4. \A i \in DOMAIN t0.slots : i \in DOMAIN t.slots /\ t.slots[i] = t0.slots[i]
  BY <1>2, <1>3
<1>. QED
  BY <1>4 DEF Stable

(* A revoked slot keeps its place and its salt (slots.rs:229-232). *)
LEMMA ReducedStable ==
  ASSUME NEW t0 \in KeySlotTable, NEW t, Reduced(t0, t)
  PROVE  Stable(t0, t)
<1>1. PICK i \in enabled_slots(t0) :
        t = [t0 EXCEPT !.slots = [t0.slots EXCEPT ![i] = Disable(t0.slots[i])]]
  BY DEF Reduced
<1>2. t.slots = [t0.slots EXCEPT ![i] = Disable(t0.slots[i])]
  BY <1>1 DEF KeySlotTable
<1>3. i \in DOMAIN t0.slots /\ t0.slots[i] \in KeySlot
  BY EnabledSlots DEF KeySlotTable
<1>4. /\ Disable(t0.slots[i]).salt = t0.slots[i].salt
      /\ Disable(t0.slots[i]).enabled = FALSE
  BY <1>3 DEF Disable, KeySlot
<1>. QED
  BY <1>2, <1>3, <1>4 DEF Stable

(* What one step does to the table of one vault, if the header salt stays and
   no table is opened. *)
LEMMA TableSteps ==
  ASSUME TypeOK, SaltsDrawn, Next, ~Opened, NEW h \in Handle,
         SameTable(vault[h], vault'[h])
  PROVE  \/ vault'[h].slots = vault[h].slots
         \/ \E m \in Master : Extended(vault[h].slots, vault'[h].slots, m)
         \/ Reduced(vault[h].slots, vault'[h].slots)
<1>. DEFINE t0 == vault[h].slots
            t  == vault'[h].slots
            Goal == \/ t = t0
                    \/ \E m \in Master : Extended(t0, t, m)
                    \/ Reduced(t0, t)
<1>1. /\ vault[h] # None /\ t0 # None
      /\ vault'[h] # None /\ t # None
      /\ t.header_salt = t0.header_salt
  BY DEF SameTable
<1>2. /\ vault[h] \in Vault /\ vault[h].master \in Master
      /\ t0 \in KeySlotTable
  BY <1>1, HeldVault
<1>3. t0.header_salt <= draws /\ t0.header_salt \in Nat /\ draws \in Nat
  BY <1>1, <1>2 DEF SaltsDrawn, Tables, LiveTables, KeySlotTable, TypeOK
<1>4. \A v : vault' = [vault EXCEPT ![h] = v] => vault'[h] = v
  BY DEF TypeOK
<1>5. \A g \in Handle : \A v : g # h /\ vault' = [vault EXCEPT ![g] = v] => vault'[h] = vault[h]
  BY DEF TypeOK
<1>6. \A x : vault' = [vault EXCEPT ![h].slots = x] => t = x
  BY <1>2 DEF TypeOK, Vault
<1>7. \A g \in Handle : \A x : g # h /\ vault' = [vault EXCEPT ![g].slots = x]
                             => vault'[h] = vault[h]
  BY DEF TypeOK
<1>8. PICK g \in Handle : Lifecycle(g) \/ Slots(g) \/ Data(g)
  BY DEF Next
<1>9. ASSUME Lifecycle(g)
      PROVE  Goal
  <2>1. \A m : NewVault(m).slots = None
    BY DEF NewVault
  <2>2. ASSUME rotate_master(h)
        PROVE  Rotated(vault[h], rotate(draws')).slots = None
    BY <1>2 DEF Rotated, Vault
  <2>3. CASE g = h
    BY <1>1, <1>4, <1>9, <2>1, <2>2, <2>3
       DEF Lifecycle, from_master_key, unlock, rotate_master, Drop
  <2>4. CASE g # h
    BY <1>5, <1>9, <2>4 DEF Lifecycle, from_master_key, unlock, rotate_master, Drop
  <2>. QED
    BY <2>3, <2>4
<1>10. ASSUME NEW pw \in Passphrase, seal_slots(g, pw) \/ add_first_slot(g, pw)
       PROVE  Goal
  <2>1. CASE g # h
    BY <1>7, <1>10, <2>1 DEF seal_slots, add_first_slot
  <2>2. CASE g = h
    <3>1. draws' = draws + 1 /\ t = new_initial(vault[h].master, pw, draws')
      BY <1>6, <1>10, <2>2 DEF seal_slots, add_first_slot, Draw
    <3>2. t.header_salt = draws + 1
      BY <1>2, <1>3, <3>1, NewTable
    <3>. QED
      BY <1>1, <1>3, <3>2
  <2>. QED
    BY <2>1, <2>2
<1>11. ASSUME NEW pw \in Passphrase, add_next_slot(g, pw)
       PROVE  Goal
  <2>1. CASE g # h
    BY <1>7, <1>11, <2>1 DEF add_next_slot
  <2>2. CASE g = h
    <3>. DEFINE m     == vault[h].master
                added == table_add_slot(t0, m, pw, draws + 1)
    <3>1. IF added.ok THEN vault' = [vault EXCEPT ![h].slots = added.val.table]
                      ELSE UNCHANGED vault
      BY <1>11, <2>2 DEF add_next_slot
    <3>2. draws + 1 \in Nat
      BY <1>3
    <3>3. \/ added.ok = TRUE /\ Extended(t0, added.val.table, m)
          \/ added.ok = FALSE
      BY <1>2, <3>2, AddSlotType DEF Extended
    <3>. HIDE DEF added
    <3>4. CASE added.ok = TRUE
      <4>1. t = added.val.table
        BY <1>6, <3>1, <3>4
      <4>. QED
        BY <1>2, <3>3, <3>4, <4>1
    <3>5. CASE added.ok = FALSE
      BY <3>1, <3>5
    <3>. QED
      BY <3>3, <3>4, <3>5
  <2>. QED
    BY <2>1, <2>2
<1>12. ASSUME NEW idx \in 0 .. MAX_SLOTS, revoke_slot(g, idx)
       PROVE  Goal
  <2>1. CASE g # h
    BY <1>7, <1>12, <2>1 DEF revoke_slot
  <2>2. CASE g = h
    <3>. DEFINE revoked == table_revoke_slot(t0, idx)
    <3>1. vault' = IF revoked.ok THEN [vault EXCEPT ![h].slots = revoked.val] ELSE vault
      BY <1>1, <1>12, <2>2 DEF revoke_slot
    <3>2. idx \in Nat
      OBVIOUS
    <3>3. \/ revoked.ok = TRUE /\ revoked.val = t0
          \/ revoked.ok = TRUE /\ Reduced(t0, revoked.val)
          \/ revoked.ok = FALSE
      BY <1>2, <3>2, RevokeSlotType DEF Reduced
    <3>. HIDE DEF revoked
    <3>. QED
      BY <1>6, <3>1, <3>3
  <2>. QED
    BY <2>1, <2>2
<1>13. ASSUME NEW s1 \in saved, NEW s2 \in saved, NEW s3 \in saved, NEW pw \in Passphrase,
              open_from_slots(g, s1, s2, s3, pw)
       PROVE  Goal
  <2>. DEFINE bytes  == [body |-> s1.bytes.body, mac |-> s2.bytes.mac]
              opened == OpenTable(bytes, s3.header_salt, pw)
  <2>1. /\ ret'.op = "open_from_slots"
        /\ opened.ok => ret'.out = "Ok"
        /\ ~opened.ok => UNCHANGED vault
    BY <1>13 DEF open_from_slots, Replies, Outcome
  <2>. HIDE DEF opened
  <2>. QED
    BY <2>1 DEF Opened
<1>14. ASSUME Data(g) \/ slots_to_bytes(g) \/ verify_volume(g)
       PROVE  Goal
  BY <1>14 DEF Data, encrypt, decrypt, slots_to_bytes, verify_volume
<1>. QED
  BY <1>8, <1>9, <1>10, <1>11, <1>12, <1>13, <1>14 DEF Slots, add_slot

(* The index add_slot returned names the same slot for as long as the table
   lives, whatever else is called, and a revoked slot stays revoked; only
   opening a kept, older table turns this back (slots.rs:202-234). *)
THEOREM IndicesStable == OpenSpec => SlotIndicesStable
<1>1. ASSUME TypeOK, SaltsDrawn, [OpenNext]_vars
      PROVE  [\A h \in Handle :
                SameTable(vault[h], vault'[h]) /\ ~Opened =>
                  Stable(vault[h].slots, vault'[h].slots)]_vars
  <2>1. SUFFICES ASSUME OpenNext, ~Opened, NEW h \in Handle, SameTable(vault[h], vault'[h])
                 PROVE  Stable(vault[h].slots, vault'[h].slots)
    BY <1>1
  <2>2. vault[h].slots \in KeySlotTable
    BY <1>1, <2>1, HeldVault DEF SameTable
  <2>3. ASSUME vault'[h].slots = vault[h].slots
        PROVE  Stable(vault[h].slots, vault'[h].slots)
    BY <2>3 DEF Stable
  <2>4. CASE DirectTableUse
    BY <2>3, <2>4 DEF DirectTableUse, TableAddSlot, TableRevokeSlot
  <2>5. CASE Next
    BY <1>1, <2>1, <2>2, <2>3, <2>5, TableSteps, ExtendedStable, ReducedStable
  <2>. QED
    BY <2>1, <2>4, <2>5 DEF OpenNext
<1>2. [\A h \in Handle :
         SameTable(vault[h], vault'[h]) /\ ~Opened =>
           Stable(vault[h].slots, vault'[h].slots)]_vars =>
      [\A h \in Handle :
         SameTable(vault[h], vault'[h]) /\ ~Opened =>
           \A i \in DOMAIN vault[h].slots.slots :
             LET old == vault[h].slots.slots[i]
                 new == vault'[h].slots.slots[i]
             IN  /\ i \in DOMAIN vault'[h].slots.slots
                 /\ new.salt = old.salt
                 /\ new.enabled => old.enabled]_vars
  BY DEF Stable
<1>. QED
  BY <1>1, <1>2, TypeCorrect, AlwaysSaltsDrawn, PTL DEF OpenSpec, SlotIndicesStable
-----------------------------------------------------------------------------
(* The vaults implement the roster: every initial state maps to one of     *)
(* VaultRoster, and every step to a step of it or to none.                 *)

(* The mapping. *)
Held    == [h \in Handle |-> HeldAs(vault[h])]
Archive == {Filed(s) : s \in saved}

-----------------------------------------------------------------------------
(* What a step of the vaults does to their tables and to the kept ones, and *)
(* what it answers.                                                         *)

Answered(call, user, place, granted) ==
  AnswerOf(ret') = [call |-> call, user |-> user, place |-> place, granted |-> granted]

Quiet == Answered("none", None, 0, TRUE)

Acquires(h, m) ==
  /\ vault[h] = None
  /\ vault' = [vault EXCEPT ![h] = NewVault(m)]
  /\ UNCHANGED saved
  /\ Quiet

Gives(h) ==
  /\ vault[h] # None
  /\ vault' = [vault EXCEPT ![h] = None]
  /\ UNCHANGED saved
  /\ Quiet

Rotates(h) ==
  /\ vault[h] # None
  /\ draws' = draws + 1
  /\ vault' = [vault EXCEPT ![h] = Rotated(vault[h], [random |-> draws + 1])]
  /\ UNCHANGED saved
  /\ Quiet

Files(h) ==
  /\ vault[h] # None
  /\ vault[h].slots # None
  /\ saved' = saved \cup {Serialized(vault[h].slots)}
  /\ UNCHANGED vault
  /\ Quiet

Retables(h, t) ==
  /\ vault[h] # None
  /\ vault' = [vault EXCEPT ![h].slots = t]
  /\ UNCHANGED saved

Founds(h, pw, t) ==
  /\ Retables(h, t)
  /\ \E n \in Nat : t = new_initial(vault[h].master, pw, n)
  /\ \/ Answered("found", pw, 0, TRUE)
     \/ vault[h].slots = None /\ Answered("join", pw, 1, TRUE)

Grows(h, pw, t) ==
  LET t0 == vault[h].slots
  IN  /\ t0 # None
      /\ Len(t0.slots) < MAX_SLOTS
      /\ Retables(h, t)
      /\ \E n \in Nat :
           t = [t0 EXCEPT !.slots = Append(t0.slots, KeySlot_create(vault[h].master, pw, n))]
      /\ Answered("join", pw, Len(t0.slots) + 1, TRUE)

Shrinks(h, i, t) ==
  LET t0 == vault[h].slots
  IN  /\ t0 # None
      /\ i \in enabled_slots(t0)
      /\ enabled_count(t0) > 1
      /\ Retables(h, t)
      /\ t = [t0 EXCEPT !.slots = [t0.slots EXCEPT ![i] = Disable(t0.slots[i])]]
      /\ Answered("strike", None, i, TRUE)

Edits(h, t) ==
  \/ \E pw \in Passphrase : Founds(h, pw, t) \/ Grows(h, pw, t)
  \/ \E i \in 1 .. MAX_SLOTS + 1 : Shrinks(h, i, t)

Reopens(h, s, pw) ==
  /\ vault[h] # None
  /\ \E v \in Vault : /\ vault' = [vault EXCEPT ![h] = v]
                      /\ v.slots = Kept(s)
                      /\ v.master = Kept(s).verifier.data
  /\ UNCHANGED saved
  /\ Opens(Kept(s), pw) # {}
  /\ Answered("restore", pw, 0, TRUE)

(* The calls that leave everything as it is. *)

RefusesUser(h, pw) ==
  /\ vault[h].slots # None
  /\ Len(vault[h].slots.slots) >= MAX_SLOTS
  /\ Answered("join", pw, 0, FALSE)

StrikesAgain(h, i) ==
  /\ vault[h].slots # None
  /\ i \in DOMAIN vault[h].slots.slots \ enabled_slots(vault[h].slots)
  /\ Answered("strike", None, i, TRUE)

KeepsUser(h, i) ==
  /\ \/ vault[h].slots = None
     \/ i \notin DOMAIN vault[h].slots.slots
     \/ i \in enabled_slots(vault[h].slots) /\ enabled_count(vault[h].slots) <= 1
  /\ Answered("strike", None, i, FALSE)

Declines(pw) == Answered("restore", pw, 0, FALSE)

Rests(h) ==
  /\ UNCHANGED <<vault, saved>>
  /\ \/ Quiet
     \/ /\ vault[h] # None
        /\ \/ \E pw \in Passphrase : RefusesUser(h, pw) \/ Declines(pw)
           \/ \E i \in 1 .. MAX_SLOTS + 1 : StrikesAgain(h, i) \/ KeepsUser(h, i)

Changes(h) ==
  \/ Rests(h)
  \/ \E m \in RawMaster \cup DerivedMasters : Acquires(h, m)
  \/ Gives(h)
  \/ Rotates(h)
  \/ Files(h)
  \/ \E t \in KeySlotTable : Edits(h, t)
  \/ \E s \in saved, pw \in Passphrase : Reopens(h, s, pw)

(* The call of the roster that stands for a method. *)
LEMMA CallOfEach ==
  /\ DOMAIN CallOf = {"seal_slots", "add_slot", "revoke_slot", "open_from_slots"}
  /\ CallOf["seal_slots"] = "found"
  /\ CallOf["add_slot"] = "join"
  /\ CallOf["revoke_slot"] = "strike"
  /\ CallOf["open_from_slots"] = "restore"
BY DEF CallOf

(* The answers of the methods about users. *)
LEMMA UsersAnswered ==
  ASSUME NEW pw, NEW idx \in Nat \cup {None}, NEW out, NEW op \in DOMAIN CallOf,
         Replies(op, out, pw, idx)
  PROVE  /\ idx = None /\ out = "Ok" => Answered(CallOf[op], pw, 0, TRUE)
         /\ idx = None /\ out # "Ok" => Answered(CallOf[op], pw, 0, FALSE)
         /\ idx # None /\ out = "Ok" => Answered(CallOf[op], pw, idx + 1, TRUE)
         /\ idx # None /\ out # "Ok" => Answered(CallOf[op], pw, idx + 1, FALSE)
<1>1. AnswerOf(ret') = [call |-> CallOf[op], user |-> pw,
                        place |-> IF idx = None THEN 0 ELSE idx + 1,
                        granted |-> out = "Ok"]
  BY DEF Replies, AnswerOf
<1>2. (out # "Ok") => (out = "Ok") = FALSE
  OBVIOUS
<1>. QED
  BY <1>1, <1>2 DEF Answered

(* The methods that are about no user. *)
LEMMA OthersQuiet ==
  ASSUME NEW op, NEW result, Returns(op, result),
         op \notin {"seal_slots", "add_slot", "revoke_slot", "open_from_slots"}
  PROVE  Quiet
BY DEF Returns, Replies, Quiet, Answered, AnswerOf, CallOf

(* The master unlock makes is one of DerivedMasters. *)
LEMMA UnlockedMaster ==
  ASSUME NEW pw \in Passphrase, NEW p \in KdfParam,
         argon2id_root(pw, p.salt, p.memory_kib, p.iterations).ok
  PROVE  argon2id_root(pw, p.salt, p.memory_kib, p.iterations).val \in DerivedMasters
<1>1. Argon2Accepts(p.salt, p.memory_kib, p.iterations)
  BY DEF argon2id_root, Err
<1>. QED
  BY <1>1 DEF DerivedMasters

(* Derived masters are masters. *)
LEMMA DerivedType == DerivedMasters \subseteq Master
<1>1. ASSUME NEW pw \in Passphrase, NEW p \in KdfParam,
             Argon2Accepts(p.salt, p.memory_kib, p.iterations)
      PROVE  argon2id_root(pw, p.salt, p.memory_kib, p.iterations).val \in Master
  BY <1>1, RootType DEF Answers, argon2id_root, Ok
<1>. QED
  BY <1>1 DEF DerivedMasters

(* Lifecycle calls make or end a vault, or replace its master. *)
LEMMA LifecycleChanges ==
  ASSUME NEW h \in Handle, Lifecycle(h)
  PROVE  Changes(h)
<1>1. ASSUME NEW raw \in RawMaster, from_master_key(h, raw)
      PROVE  Changes(h)
  BY <1>1, OthersQuiet DEF from_master_key, Changes, Acquires
<1>2. ASSUME NEW pw \in Passphrase, NEW p \in KdfParam, unlock(h, pw, p)
      PROVE  Changes(h)
  <2>. DEFINE root == argon2id_root(pw, p.salt, p.memory_kib, p.iterations)
  <2>1. /\ vault[h] = None
        /\ vault' = IF root.ok THEN [vault EXCEPT ![h] = NewVault(root.val)] ELSE vault
        /\ UNCHANGED saved
    BY <1>2 DEF unlock
  <2>2. root.ok => root.val \in DerivedMasters
    BY UnlockedMaster
  <2>3. Quiet
    BY <1>2, OthersQuiet DEF unlock
  <2>. HIDE DEF root
  <2>. QED
    BY <2>1, <2>2, <2>3 DEF Changes, Acquires, Rests
<1>3. ASSUME rotate_master(h)
      PROVE  Changes(h)
  BY <1>3, OthersQuiet DEF rotate_master, rotate, Draw, Changes, Rotates
<1>4. ASSUME Drop(h)
      PROVE  Changes(h)
  BY <1>4, OthersQuiet DEF Drop, Changes, Gives
<1>. QED
  BY <1>1, <1>2, <1>3, <1>4 DEF Lifecycle

(* Calls about slots replace a table by one made from it, keep one, or take
   up a kept one whose verifier is that of the recovered master; and they answer
   for whom, where and with what outcome. *)
LEMMA SlotsChanges ==
  ASSUME TypeOK, VaultCoherent', SavedIntact, NEW h \in Handle, Slots(h)
  PROVE  Changes(h)
<1>1. vault[h] # None => /\ vault[h] \in Vault
                         /\ vault[h].master \in Master
                         /\ vault[h].slots # None => vault[h].slots \in KeySlotTable
  BY HeldVault
<1>2. draws \in Nat
  BY DEF TypeOK
<1>3. ASSUME NEW pw \in Passphrase, seal_slots(h, pw) \/ add_first_slot(h, pw)
      PROVE  Changes(h)
  <2>. DEFINE t == new_initial(vault[h].master, pw, draws + 1)
  <2>1. Retables(h, t)
    BY <1>3 DEF seal_slots, add_first_slot, Draw, Retables
  <2>2. t \in KeySlotTable /\ draws + 1 \in Nat
    BY <1>1, <1>2, <2>1, NewTable DEF Retables
  <2>3. ASSUME \/ Answered("found", pw, 0, TRUE)
               \/ vault[h].slots = None /\ Answered("join", pw, 1, TRUE)
        PROVE  Changes(h)
    <3>1. \E n \in Nat : t = new_initial(vault[h].master, pw, n)
      BY <2>2
    <3>. HIDE DEF t
    <3>2. Founds(h, pw, t)
      BY <2>1, <2>3, <3>1 DEF Founds
    <3>3. Edits(h, t)
      BY <3>2 DEF Edits
    <3>. QED
      BY <2>2, <3>3 DEF Changes
  <2>4. CASE seal_slots(h, pw)
    <3>1. Answered("found", pw, 0, TRUE)
      BY <2>4, UsersAnswered, CallOfEach DEF seal_slots
    <3>. QED
      BY <2>3, <3>1
  <2>5. CASE add_first_slot(h, pw)
    <3>1. Replies("add_slot", "Ok", pw, 0) /\ vault[h].slots = None
      BY <2>5 DEF add_first_slot
    <3>2. 0 # None /\ 0 \in Nat
      BY NoneAssumption
    <3>3. \A n \in Nat : n # None /\ Replies("add_slot", "Ok", pw, n) =>
            Answered("join", pw, n + 1, TRUE)
      BY UsersAnswered, CallOfEach
    <3>4. Answered("join", pw, 0 + 1, TRUE)
      BY <3>1, <3>2, <3>3
    <3>5. 0 + 1 = 1
      OBVIOUS
    <3>6. Answered("join", pw, 1, TRUE)
      BY <3>4, <3>5
    <3>. QED
      BY <2>3, <3>1, <3>6
  <2>. QED
    BY <1>3, <2>4, <2>5
<1>4. ASSUME NEW pw \in Passphrase, add_next_slot(h, pw)
      PROVE  Changes(h)
  <2>. DEFINE t0    == vault[h].slots
              added == table_add_slot(t0, vault[h].master, pw, draws + 1)
              t1    == [t0 EXCEPT !.slots =
                          Append(t0.slots, KeySlot_create(vault[h].master, pw, draws + 1))]
  <2>1. /\ vault[h] # None
        /\ t0 # None
        /\ IF added.ok THEN vault' = [vault EXCEPT ![h].slots = added.val.table]
                       ELSE UNCHANGED vault
        /\ UNCHANGED saved
        /\ Replies("add_slot", Outcome(added), pw, IF added.ok THEN added.val.idx ELSE None)
    BY <1>4 DEF add_next_slot
  <2>2. draws + 1 \in Nat
    BY <1>2
  <2>3. \/ /\ added.ok = TRUE
           /\ Len(t0.slots) < MAX_SLOTS
           /\ added.val.idx = Len(t0.slots)
           /\ added.val.table = t1
           /\ t1 \in KeySlotTable
        \/ /\ added.ok = FALSE
           /\ Len(t0.slots) >= MAX_SLOTS
           /\ added.err = "SlotTableFull"
    <3>1. t0 \in KeySlotTable /\ vault[h].master \in Master
      BY <1>1, <2>1
    <3>2. \/ /\ added.ok = TRUE
             /\ Len(t0.slots) < MAX_SLOTS
             /\ added.val.idx = Len(t0.slots)
             /\ added.val.table = t1
             /\ added.val.table \in KeySlotTable
          \/ /\ added.ok = FALSE
             /\ Len(t0.slots) >= MAX_SLOTS
             /\ added.err = "SlotTableFull"
      BY <2>2, <3>1, AddSlotType, Zenon
    <3>. HIDE DEF added, t0, t1
    <3>. QED
      BY <3>2
  <2>4. Len(t0.slots) \in Nat /\ Len(t0.slots) # None
    BY <1>1, <2>1, EnabledSlots, NoneAssumption
  <2>. HIDE DEF added
  <2>5. CASE added.ok = TRUE
    <3>1. Replies("add_slot", "Ok", pw, Len(t0.slots))
      BY <2>1, <2>3, <2>5, OutcomeType
    <3>2. Answered("join", pw, Len(t0.slots) + 1, TRUE)
      BY <2>4, <3>1, UsersAnswered, CallOfEach
    <3>3. Retables(h, t1)
      BY <2>1, <2>3, <2>5 DEF Retables
    <3>4. Grows(h, pw, t1)
      BY <2>1, <2>2, <2>3, <2>5, <3>2, <3>3 DEF Grows
    <3>. QED
      BY <2>3, <2>5, <3>4 DEF Changes, Edits
  <2>6. CASE added.ok = FALSE
    <3>1. Replies("add_slot", "SlotTableFull", pw, None)
      BY <2>1, <2>3, <2>6, OutcomeType
    <3>2. Answered("join", pw, 0, FALSE)
      <4>1. \A out : out # "Ok" /\ Replies("add_slot", out, pw, None) =>
              Answered("join", pw, 0, FALSE)
        BY UsersAnswered, CallOfEach
      <4>2. "SlotTableFull" # "Ok"
        OBVIOUS
      <4>. QED
        BY <3>1, <4>1, <4>2
    <3>3. RefusesUser(h, pw)
      BY <2>1, <2>3, <2>6, <3>2 DEF RefusesUser
    <3>. QED
      BY <2>1, <2>6, <3>3 DEF Changes, Rests
  <2>. QED
    BY <2>3, <2>5, <2>6
<1>5. ASSUME NEW idx \in 0 .. MAX_SLOTS, revoke_slot(h, idx)
      PROVE  Changes(h)
  <2>. DEFINE t0      == vault[h].slots
              revoked == table_revoke_slot(t0, idx)
              t1      == [t0 EXCEPT !.slots =
                            [t0.slots EXCEPT ![idx + 1] = Disable(t0.slots[idx + 1])]]
  <2>1. /\ idx \in Nat
        /\ idx # None
        /\ idx + 1 \in 1 .. MAX_SLOTS + 1
        /\ vault[h] # None
        /\ UNCHANGED saved
    BY <1>5, MaxSlotsAssumption, NoneAssumption DEF revoke_slot
  <2>2. \A out : Replies("revoke_slot", out, None, idx) =>
          /\ out = "Ok" => Answered("strike", None, idx + 1, TRUE)
          /\ out # "Ok" => Answered("strike", None, idx + 1, FALSE)
    BY <2>1, UsersAnswered, CallOfEach
  <2>3. CASE t0 = None
    <3>1. /\ UNCHANGED vault
          /\ Replies("revoke_slot", "LastSlotRevocation", None, idx)
      BY <1>5, <2>3 DEF revoke_slot, Err, Outcome
    <3>2. KeepsUser(h, idx + 1)
      <4>1. "LastSlotRevocation" # "Ok"
        OBVIOUS
      <4>2. Answered("strike", None, idx + 1, FALSE)
        BY <2>2, <3>1, <4>1
      <4>. QED
        BY <2>3, <4>2 DEF KeepsUser
    <3>. QED
      BY <2>1, <3>1, <3>2 DEF Changes, Rests
  <2>4. CASE t0 # None
    <3>1. /\ vault' = IF revoked.ok THEN [vault EXCEPT ![h].slots = revoked.val] ELSE vault
          /\ Replies("revoke_slot", Outcome(revoked), None, idx)
      BY <1>5, <2>4 DEF revoke_slot
    <3>2. t0 \in KeySlotTable
      BY <1>1, <2>1, <2>4
    <3>3. \/ /\ revoked.ok = TRUE
             /\ idx + 1 \in DOMAIN t0.slots \ enabled_slots(t0)
             /\ revoked.val = t0
          \/ /\ revoked.ok = TRUE
             /\ idx + 1 \in enabled_slots(t0)
             /\ enabled_count(t0) > 1
             /\ revoked.val = t1
             /\ t1 \in KeySlotTable
          \/ /\ revoked.ok = FALSE
             /\ \/ idx + 1 \notin DOMAIN t0.slots
                \/ idx + 1 \in enabled_slots(t0) /\ enabled_count(t0) <= 1
             /\ revoked.err \in {"SlotUnseal", "LastSlotRevocation"}
      BY <2>1, <3>2, RevokeSlotType
    <3>4. [vault EXCEPT ![h].slots = t0] = vault
      <4>1. [vault[h] EXCEPT !.slots = t0] = vault[h]
        BY <1>1, <2>1 DEF Vault
      <4>2. [vault EXCEPT ![h] = vault[h]] = vault
        BY DEF TypeOK
      <4>. QED
        BY <2>1, <3>2, <4>1, <4>2, SlotsUpdateType
    <3>. HIDE DEF revoked
    <3>5. CASE /\ revoked.ok = TRUE
               /\ idx + 1 \in DOMAIN t0.slots \ enabled_slots(t0)
               /\ revoked.val = t0
      <4>1. UNCHANGED vault /\ Replies("revoke_slot", "Ok", None, idx)
        BY <3>1, <3>4, <3>5, OutcomeType
      <4>2. StrikesAgain(h, idx + 1)
        BY <2>2, <2>4, <3>5, <4>1 DEF StrikesAgain
      <4>. QED
        BY <2>1, <4>1, <4>2 DEF Changes, Rests
    <3>6. CASE /\ revoked.ok = TRUE
               /\ idx + 1 \in enabled_slots(t0)
               /\ enabled_count(t0) > 1
               /\ revoked.val = t1
               /\ t1 \in KeySlotTable
      <4>1. Retables(h, t1) /\ Replies("revoke_slot", "Ok", None, idx)
        BY <2>1, <3>1, <3>6, OutcomeType DEF Retables
      <4>2. Shrinks(h, idx + 1, t1)
        BY <2>2, <2>4, <3>6, <4>1 DEF Shrinks
      <4>. QED
        BY <2>1, <3>6, <4>2 DEF Changes, Edits
    <3>7. CASE /\ revoked.ok = FALSE
               /\ \/ idx + 1 \notin DOMAIN t0.slots
                  \/ idx + 1 \in enabled_slots(t0) /\ enabled_count(t0) <= 1
               /\ revoked.err \in {"SlotUnseal", "LastSlotRevocation"}
      <4>1. UNCHANGED vault /\ Replies("revoke_slot", revoked.err, None, idx)
        BY <3>1, <3>7, OutcomeType
      <4>2. revoked.err # "Ok"
        BY <3>7
      <4>3. KeepsUser(h, idx + 1)
        BY <2>2, <3>7, <4>1, <4>2 DEF KeepsUser
      <4>. QED
        BY <2>1, <4>1, <4>3 DEF Changes, Rests
    <3>. QED
      BY <3>3, <3>5, <3>6, <3>7
  <2>. QED
    BY <2>3, <2>4
<1>6. ASSUME slots_to_bytes(h)
      PROVE  Changes(h)
  BY <1>6, OthersQuiet DEF slots_to_bytes, Keep, Changes, Files
<1>7. ASSUME NEW s1 \in saved, NEW s2 \in saved, NEW s3 \in saved, NEW pw \in Passphrase,
             open_from_slots(h, s1, s2, s3, pw)
      PROVE  Changes(h)
  <2>1. vault[h] # None /\ UNCHANGED saved
    BY <1>7 DEF open_from_slots
  <2>2. \E out : Replies("open_from_slots", out, pw, None) /\ ret'.out = out
    BY <1>7 DEF open_from_slots, Replies
  <2>3. /\ ret'.out = "Ok" => Answered("restore", pw, 0, TRUE)
        /\ ret'.out # "Ok" => Answered("restore", pw, 0, FALSE)
    BY <2>2, UsersAnswered, CallOfEach
  <2>4. ASSUME vault' = vault, ret'.out # "Ok"
        PROVE  Changes(h)
    BY <2>1, <2>3, <2>4 DEF Changes, Rests, Declines
  <2>5. ASSUME NEW v \in Vault, vault' = [vault EXCEPT ![h] = v], v.slots = Kept(s2),
               Opens(Kept(s2), pw) # {}, ret'.out = "Ok"
        PROVE  Changes(h)
    <3>0. Kept(s2) \in KeySlotTable
      BY TablesType DEF Tables
    <3>1. vault'[h] = v
      BY <2>5 DEF TypeOK
    <3>2. v # None /\ v.slots # None
      BY <2>5, <3>0, NoneAssumption
    <3>3. Coherent(v)
      BY <3>1, <3>2 DEF VaultCoherent
    <3>4. v.master = v.slots.verifier.data
      BY <3>2, <3>3 DEF Coherent, verify_volume_result, volume_verifier, keyed_hash
    <3>5. Reopens(h, s2, pw)
      BY <2>1, <2>3, <2>5, <3>4 DEF Reopens
    <3>. QED
      BY <3>5 DEF Changes
  <2>. QED
    BY <1>7, <2>4, <2>5, OpenStep
<1>8. ASSUME verify_volume(h)
      PROVE  Changes(h)
  <2>1. Quiet
    BY <1>8, CallOfEach DEF verify_volume, Replies, Quiet, Answered, AnswerOf
  <2>. QED
    BY <1>8, <2>1 DEF verify_volume, Changes, Rests
<1>. QED
  BY <1>3, <1>4, <1>5, <1>6, <1>7, <1>8 DEF Slots, add_slot

(* Every call is one of these changes. *)
LEMMA NextChanges ==
  ASSUME TypeOK, VaultCoherent', SavedIntact, Next
  PROVE  \E h \in Handle : Changes(h)
<1>1. ASSUME NEW h \in Handle, Data(h)
      PROVE  Changes(h)
  BY <1>1, OthersQuiet DEF Data, encrypt, decrypt, Changes, Rests
<1>. QED
  BY <1>1, LifecycleChanges, SlotsChanges DEF Next

-----------------------------------------------------------------------------
(* The masters in use                                                      *)

(* Each vault's master, and that of each kept table's verifier, was given,
   derived or drawn so far. *)
MastersKnown ==
  /\ draws <= MaxDraws
  /\ \A h \in Handle : vault[h] # None => vault[h].master \in MastersAfter(draws)
  /\ \A s \in saved : Kept(s).verifier.data \in MastersAfter(draws)

(* A vault after a change. *)
LEMMA VaultAfter ==
  ASSUME TypeOK, NEW h \in Handle, NEW v, vault' = [vault EXCEPT ![h] = v]
  PROVE  \A g \in Handle : vault'[g] = IF g = h THEN v ELSE vault[g]
BY DEF TypeOK

(* The masters known grow with the draws. *)
LEMMA MastersGrow ==
  ASSUME NEW m \in Nat, NEW n \in Nat, m <= n
  PROVE  MastersAfter(m) \subseteq MastersAfter(n)
<1>1. 0 .. m \subseteq 0 .. n
  OBVIOUS
<1>2. [random : 0 .. m] \subseteq [random : 0 .. n]
  BY <1>1
<1>. QED
  BY <1>2 DEF MastersAfter

(* The verifier of the table a vault has is made from the vault's master. *)
LEMMA OwnVerifier ==
  ASSUME VaultCoherent, NEW h \in Handle, vault[h] # None, vault[h].slots # None
  PROVE  vault[h].slots.verifier.data = vault[h].master
<1>1. volume_verifier(vault[h].master) = vault[h].slots.verifier
  BY DEF VaultCoherent, Coherent, verify_volume_result
<1>. QED
  BY <1>1 DEF volume_verifier, keyed_hash

(* A master that is drawn is numbered by its draw: no given or derived one is. *)
LEMMA DrawnMaster ==
  ASSUME NEW n \in Nat, NEW d \in Nat, [random |-> d] \in MastersAfter(n)
  PROVE  d <= n
<1>. DEFINE m == [random |-> d]
<1>1. m \notin RawMaster
  BY RawMasterAssumption
<1>2. m \notin DerivedMasters
  <2>1. ASSUME NEW pw, NEW salt, NEW mem, NEW it, Argon2Accepts(salt, mem, it)
        PROVE  "kdf" \in DOMAIN argon2id_root(pw, salt, mem, it).val
    BY <2>1 DEF argon2id_root, Ok
  <2>2. \A r \in DerivedMasters : "kdf" \in DOMAIN r
    BY <2>1 DEF DerivedMasters
  <2>3. DOMAIN m = {"random"}
    OBVIOUS
  <2>. HIDE DEF m
  <2>. QED
    BY <2>2, <2>3
<1>3. m \in [random : 0 .. n]
  BY <1>1, <1>2 DEF MastersAfter
<1>. QED
  BY <1>3

(* The verifier of every table is made from a master known so far. *)
LEMMA TableMasterKnown ==
  ASSUME VaultCoherent, MastersKnown, NEW t \in Tables
  PROVE  t.verifier.data \in MastersAfter(draws)
BY OwnVerifier DEF Tables, LiveTables, MastersKnown

(* Masters come from the caller, from a passphrase or from OsRng, and from
   there to tables and back (lib.rs:59-91, 142-158, 188-195). *)
LEMMA AlwaysMastersKnown == OpenSpec => []MastersKnown
<1>1. Init => MastersKnown
  BY BoundsAssumption DEF Init, MastersKnown
<1>2. ASSUME TypeOK, VaultCoherent, VaultCoherent', SavedIntact, MastersKnown, Next
      PROVE  MastersKnown'
  <2>1. draws \in Nat /\ draws' \in Nat /\ draws <= draws'
    BY <1>2, DrawsGrow DEF OpenNext, TypeOK
  <2>2. draws' <= MaxDraws
    BY <1>2, <2>1, NextDraws, BoundsAssumption DEF OpenNext, MastersKnown, Draw
  <2>3. MastersAfter(draws) \subseteq MastersAfter(draws')
    BY <2>1, MastersGrow
  <2>4. PICK h \in Handle : Changes(h)
    BY <1>2, NextChanges
  <2>5. ASSUME NEW v, vault' = [vault EXCEPT ![h] = v], UNCHANGED saved,
               v # None => v.master \in MastersAfter(draws')
        PROVE  MastersKnown'
    <3>1. \A g \in Handle : vault'[g] = IF g = h THEN v ELSE vault[g]
      BY <1>2, <2>5, VaultAfter
    <3>. QED
      BY <1>2, <2>2, <2>3, <2>5, <3>1 DEF MastersKnown, Kept
  <2>6. CASE Rests(h)
    BY <1>2, <2>2, <2>3, <2>6 DEF MastersKnown, Kept, Rests
  <2>7. CASE \E m \in RawMaster \cup DerivedMasters : Acquires(h, m)
    BY <2>5, <2>7 DEF Acquires, NewVault, MastersAfter
  <2>8. CASE Gives(h)
    BY <2>5, <2>8 DEF Gives
  <2>9. CASE Rotates(h)
    <3>1. [random |-> draws + 1] \in MastersAfter(draws')
      BY <2>1, <2>9 DEF Rotates, MastersAfter
    <3>2. Rotated(vault[h], [random |-> draws + 1]).master = [random |-> draws + 1]
      BY <1>2, <2>9, HeldVault DEF Rotates, Rotated, Vault
    <3>. QED
      BY <2>5, <2>9, <3>1, <3>2 DEF Rotates
  <2>10. CASE \E t \in KeySlotTable : Edits(h, t)
    <3>1. PICK t \in KeySlotTable : Retables(h, t)
      BY <2>10 DEF Edits, Founds, Grows, Shrinks
    <3>. DEFINE v == [vault[h] EXCEPT !.slots = t]
    <3>2. v.master = vault[h].master /\ vault' = [vault EXCEPT ![h] = v]
      BY <1>2, <3>1, HeldVault, SlotsUpdateType DEF Retables, Vault
    <3>3. v.master \in MastersAfter(draws')
      BY <1>2, <2>3, <3>1, <3>2 DEF MastersKnown, Retables
    <3>. HIDE DEF v
    <3>. QED
      BY <2>5, <3>1, <3>2, <3>3 DEF Retables
  <2>11. CASE Files(h)
    <3>1. vault[h].slots \in KeySlotTable
      BY <1>2, <2>11, HeldVault DEF Files
    <3>2. Kept(Serialized(vault[h].slots)).verifier.data \in MastersAfter(draws')
      BY <1>2, <2>3, <2>11, <3>1, SerializedType, OwnVerifier DEF Files, MastersKnown
    <3>. HIDE DEF Kept
    <3>3. \A s \in saved' : Kept(s).verifier.data \in MastersAfter(draws')
      BY <1>2, <2>3, <2>11, <3>2 DEF Files, MastersKnown
    <3>. QED
      BY <1>2, <2>2, <2>3, <2>11, <3>3 DEF Files, MastersKnown, Kept
  <2>12. CASE \E s \in saved, pw \in Passphrase : Reopens(h, s, pw)
    <3>1. PICK s \in saved, pw \in Passphrase : Reopens(h, s, pw)
      BY <2>12
    <3>2. Kept(s).verifier.data \in MastersAfter(draws')
      BY <1>2, <2>3 DEF MastersKnown
    <3>. QED
      BY <2>5, <3>1, <3>2 DEF Reopens
  <2>. QED
    BY <2>4, <2>6, <2>7, <2>8, <2>9, <2>10, <2>11, <2>12 DEF Changes
<1>3. ASSUME TypeOK, VaultCoherent, SavedIntact, MastersKnown, DirectTableUse
      PROVE  MastersKnown'
  <2>1. draws \in Nat /\ draws' \in Nat /\ draws <= draws'
    BY <1>3, DrawsGrow DEF OpenNext, TypeOK
  <2>2. draws' <= MaxDraws
    BY <1>3, NextDraws, BoundsAssumption DEF OpenNext, MastersKnown, Draw, TypeOK
  <2>3. MastersAfter(draws) \subseteq MastersAfter(draws')
    BY <2>1, MastersGrow
  <2>4. UNCHANGED vault
    BY <1>3 DEF DirectTableUse, TableAddSlot, TableRevokeSlot
  <2>5. ASSUME NEW t \in Tables'
        PROVE  t.verifier.data \in MastersAfter(draws)
    <3>1. t \in Tables \/ \E t0 \in Tables : t.verifier = t0.verifier
      BY <1>3, <2>5, TablesAfterDirectUse, TablesType, SameOrigin
    <3>. QED
      BY <1>3, <3>1, TableMasterKnown
  <2>6. \A s \in saved' : Kept(s).verifier.data \in MastersAfter(draws')
    BY <2>3, <2>5 DEF Tables, Kept
  <2>. QED
    BY <1>3, <2>2, <2>3, <2>4, <2>6 DEF MastersKnown, Kept
<1>4. ASSUME MastersKnown, UNCHANGED vars
      PROVE  MastersKnown'
  BY <1>4 DEF MastersKnown, Kept, vars
<1>. QED
  BY <1>1, <1>2, <1>3, <1>4, TypeCorrect, AlwaysCoherent, AlwaysSavedIntact, PTL
     DEF OpenSpec, OpenNext

-----------------------------------------------------------------------------
(* A rotation starts afresh                                                *)

(* The verifier of a table is made from a master older than the table. *)
VerifiersPrecede ==
  \A t \in Tables, d \in Nat : t.verifier.data = rotate(d) => d < t.header_salt

(* A new table is for the master its vault already has, and nothing changes
   the verifier of a table afterwards (lib.rs:108-125, slots.rs:189-211). *)
LEMMA AlwaysVerifiersPrecede == OpenSpec => []VerifiersPrecede
<1>1. Init => VerifiersPrecede
  BY DEF Init, VerifiersPrecede, Tables, LiveTables
<1>2. ASSUME TypeOK, VaultCoherent, SavedIntact, MastersKnown, VerifiersPrecede,
             [OpenNext]_vars
      PROVE  VerifiersPrecede'
  <2>1. SUFFICES ASSUME NEW t \in Tables', NEW d \in Nat, t.verifier.data = rotate(d)
                 PROVE  d < t.header_salt
    BY DEF VerifiersPrecede, rotate
  <2>2. ASSUME Founded(t)
        PROVE  d < t.header_salt
    <3>1. PICK h \in Handle, pw \in Passphrase, n \in Nat :
            vault[h] # None /\ draws < n /\ t = new_initial(vault[h].master, pw, n)
      BY <2>2 DEF Founded
    <3>2. t.header_salt = n /\ t.verifier = volume_verifier(vault[h].master)
      BY <3>1, HeldVault, <1>2, NewTable
    <3>3. rotate(d) \in MastersAfter(draws)
      BY <1>2, <2>1, <3>1, <3>2 DEF MastersKnown, volume_verifier, keyed_hash
    <3>4. draws \in Nat /\ d <= draws
      BY <1>2, <3>3, DrawnMaster DEF TypeOK, rotate
    <3>. QED
      BY <3>1, <3>2, <3>4
  <2>3. ASSUME NEW t0 \in Tables, t.header_salt = t0.header_salt, t.verifier = t0.verifier
        PROVE  d < t.header_salt
    BY <1>2, <2>1, <2>3 DEF VerifiersPrecede
  <2>. QED
    BY <1>2, <2>1, <2>2, <2>3, TablesAfterOpenNext, TablesType, SameOrigin
<1>. QED
  BY <1>1, <1>2, TypeCorrect, AlwaysCoherent, AlwaysSavedIntact, AlwaysMastersKnown, PTL
     DEF OpenSpec

(* No table opens to a master that rotate_master drew at or after the making of
   the table, kept or live, not even when a slot for that master was added to
   the kept table behind the vault's back (lib.rs:142-158, 188-195). *)
THEOREM RotatedAfresh == OpenSpec => []RotationStartsAfresh
<1>1. ASSUME TypeOK, VerifiersPrecede
      PROVE  RotationStartsAfresh
  <2>1. SUFFICES ASSUME NEW t \in Tables, NEW pw \in Passphrase,
                        OpenTable(to_bytes(t), t.header_salt, pw).ok,
                        NEW d \in t.header_salt .. draws,
                        OpenTable(to_bytes(t), t.header_salt, pw).val.master = rotate(d)
                 PROVE  FALSE
    BY DEF RotationStartsAfresh
  <2>2. t \in KeySlotTable /\ t.header_salt \in Nat /\ draws \in Nat
    BY <1>1, TablesType DEF KeySlotTable, TypeOK
  <2>3. to_bytes(t) \in Bytes /\ to_bytes(t).body.verifier = t.verifier
    <3>1. Serialized(t) \in SavedTable /\ Serialized(t).bytes = to_bytes(t)
      BY <2>2, SerializedType DEF Serialized
    <3>2. to_bytes(t).body.verifier = t.verifier
      BY DEF to_bytes
    <3>. HIDE DEF to_bytes
    <3>. QED
      BY <3>1, <3>2 DEF SavedTable, Bytes
  <2>4. volume_verifier(rotate(d)) = t.verifier
    <3>. DEFINE bytes  == to_bytes(t)
                opened == OpenTable(bytes, t.header_salt, pw)
    <3>1. /\ opened.val.table = [header_salt |-> t.header_salt, slots |-> bytes.body.slots,
                                 verifier |-> bytes.body.verifier]
          /\ volume_verifier(opened.val.master) = opened.val.table.verifier
      <4>1. bytes \in Bytes /\ t.header_salt \in Nat /\ opened.ok # FALSE
        BY <2>1, <2>2, <2>3
      <4>. HIDE DEF bytes
      <4>. QED
        BY <4>1, OpenTableType
    <3>2. opened.val.master = rotate(d) /\ bytes.body.verifier = t.verifier
      BY <2>1, <2>3
    <3>. HIDE DEF bytes, opened
    <3>. QED
      BY <3>1, <3>2
  <2>5. t.verifier.data = rotate(d)
    BY <2>4 DEF volume_verifier, keyed_hash
  <2>6. d \in Nat /\ t.header_salt <= d
    BY <2>2
  <2>7. d < t.header_salt
    BY <1>1, <2>5, <2>6 DEF VerifiersPrecede
  <2>. QED
    BY <2>2, <2>6, <2>7
<1>. QED
  BY <1>1, TypeCorrect, AlwaysVerifiersPrecede, PTL

-----------------------------------------------------------------------------
(* Rosters of tables                                                       *)

(* A function on the first numbers is a sequence. *)
LEMMA FunctionIsSeq ==
  ASSUME NEW S, NEW n \in Nat, NEW f \in [1 .. n -> S]
  PROVE  f \in Seq(S)
BY SeqDef

(* The key of a new slot is made from its user's passphrase (slots.rs:67-74). *)
LEMMA HolderOfNew ==
  ASSUME NEW m \in Master, NEW pw \in Passphrase, NEW n \in Nat
  PROVE  HolderOf(KeySlot_create(m, pw, n)) = pw
<1>1. SlotSalt(n) \in SaltOfSlot
  BY DEF SlotSalt, SaltOf, SaltOfSlot
<1>2. SlotKey(pw, SlotSalt(n)).passphrase = pw
  BY <1>1, SlotKeyType
<1>3. KeySlot_create(m, pw, n).ct =
        Ciphertext("Aes256Gcm", SlotKey(pw, SlotSalt(n)), FreshNonce("Aes256Gcm", n),
                   m, HEADER_MAGIC)
  BY NewSlot
<1>. QED
  BY <1>2, <1>3 DEF HolderOf, Ciphertext

(* The user at an enabled place is the one whose passphrase made the slot. *)
LEMMA RosterType ==
  ASSUME NEW t \in KeySlotTable, WellFilled(t)
  PROVE  /\ RosterOf(t) \in Seq(Passphrase \cup {None})
         /\ RosterOf(t) # None
         /\ DOMAIN RosterOf(t) = DOMAIN t.slots
         /\ Len(RosterOf(t)) = Len(t.slots)
         /\ \A i \in DOMAIN t.slots : RosterOf(t)[i] # None <=> i \in enabled_slots(t)
         /\ Roster!Active(RosterOf(t)) = enabled_slots(t)
         /\ enabled_slots(t) # {}
<1>1. /\ DOMAIN t.slots = 1 .. Len(t.slots)
      /\ Len(t.slots) \in Nat
      /\ enabled_slots(t) \subseteq DOMAIN t.slots
  BY EnabledSlots DEF enabled_slots
<1>2. \A i \in enabled_slots(t) : HolderOf(t.slots[i]) \in Passphrase
  <2>1. SUFFICES ASSUME NEW i \in enabled_slots(t)
                 PROVE  HolderOf(t.slots[i]) \in Passphrase
    OBVIOUS
  <2>2. PICK m \in Master, pw \in Passphrase, n \in Nat : t.slots[i] = KeySlot_create(m, pw, n)
    BY DEF WellFilled
  <2>. QED
    BY <2>2, HolderOfNew
<1>3. /\ DOMAIN RosterOf(t) = DOMAIN t.slots
      /\ \A i \in DOMAIN t.slots :
           RosterOf(t)[i] = IF i \in enabled_slots(t) THEN HolderOf(t.slots[i]) ELSE None
  BY DEF RosterOf
<1>4. \A i \in 1 .. Len(t.slots) : RosterOf(t)[i] \in Passphrase \cup {None}
  BY <1>1, <1>2, <1>3
<1>5. RosterOf(t) \in Seq(Passphrase \cup {None})
  <2>1. RosterOf(t) = [i \in 1 .. Len(t.slots) |-> RosterOf(t)[i]]
    BY <1>1 DEF RosterOf
  <2>2. RosterOf(t) \in [1 .. Len(t.slots) -> Passphrase \cup {None}]
    BY <1>4, <2>1, Zenon
  <2>. QED
    BY <1>1, <2>2, FunctionIsSeq
<1>6. \A i \in DOMAIN t.slots : RosterOf(t)[i] # None <=> i \in enabled_slots(t)
  BY <1>2, <1>3, NoneAssumption
<1>. HIDE DEF RosterOf
<1>7. Roster!Active(RosterOf(t)) = enabled_slots(t)
  BY <1>1, <1>3, <1>6 DEF Roster!Active
<1>8. RosterOf(t) # None
  BY <1>5, NoneAssumption
<1>9. Len(RosterOf(t)) = Len(t.slots)
  <2>1. DOMAIN RosterOf(t) = 1 .. Len(t.slots)
    BY <1>1, <1>3
  <2>. QED
    BY <1>1, <1>5, <2>1, LenProperties
<1>. QED
  BY <1>3, <1>5, <1>6, <1>7, <1>8, <1>9 DEF WellFilled

(* A slot opens for the user whose passphrase made it, and for nobody else
   (slots.rs:106-118). *)
LEMMA OpensForHolder ==
  ASSUME NEW m \in Master, NEW user \in Passphrase, NEW n \in Nat, NEW pw \in Passphrase,
         unseal(KeySlot_create(m, user, n), pw).ok
  PROVE  pw = user
<1>. DEFINE slot == KeySlot_create(m, user, n)
            key  == SlotKey(pw, SlotSalt(n))
<1>1. SlotSalt(n) \in SaltOfSlot
  BY DEF SlotSalt, SaltOf, SaltOfSlot
<1>2. /\ key.passphrase = pw
      /\ SlotKey(user, SlotSalt(n)).passphrase = user
  BY <1>1, SlotKeyType
<1>. DEFINE ct == Ciphertext("Aes256Gcm", SlotKey(user, SlotSalt(n)),
                             FreshNonce("Aes256Gcm", n), m, HEADER_MAGIC)
<1>3. /\ slot.salt = SlotSalt(n)
      /\ slot.ct.key = SlotKey(user, SlotSalt(n))
  <2>1. slot.salt = SlotSalt(n) /\ slot.ct = ct
    BY NewSlot, Zenon
  <2>2. ct.key = SlotKey(user, SlotSalt(n))
    BY DEF Ciphertext
  <2>. HIDE DEF slot, ct
  <2>. QED
    BY <2>1, <2>2
<1>4. unseal(slot, pw).ok
  OBVIOUS
<1>. HIDE DEF slot
<1>5. open("Aes256Gcm", key, slot.nonce, slot.ct, HEADER_MAGIC).ok
  BY <1>3, <1>4 DEF unseal, Err
<1>. HIDE DEF key
<1>6. slot.ct = Ciphertext("Aes256Gcm", key, slot.nonce, slot.ct.msg, HEADER_MAGIC)
  BY <1>5 DEF open, AeadDecrypt, Err, Panic
<1>7. slot.ct.key = key
  BY <1>6 DEF Ciphertext
<1>. QED
  BY <1>2, <1>3, <1>7

(* Who opens a table is on its roster (slots.rs:249-257). *)
LEMMA OpenedByMember ==
  ASSUME NEW t \in KeySlotTable, WellFilled(t), NEW pw \in Passphrase, Opens(t, pw) # {}
  PROVE  pw \in Roster!Members(RosterOf(t))
<1>1. PICK i \in enabled_slots(t) : unseal(t.slots[i], pw).ok
  BY DEF Opens
<1>2. PICK m \in Master, user \in Passphrase, n \in Nat :
        t.slots[i] = KeySlot_create(m, user, n)
  BY DEF WellFilled
<1>3. HolderOf(t.slots[i]) = pw
  BY <1>1, <1>2, OpensForHolder, HolderOfNew
<1>4. i \in DOMAIN t.slots
  BY DEF enabled_slots
<1>5. RosterOf(t)[i] = pw
  BY <1>3, <1>4 DEF RosterOf
<1>6. i \in Roster!Active(RosterOf(t))
  BY RosterType
<1>. QED
  BY <1>5, <1>6 DEF Roster!Members

(* A new table has one user (slots.rs:191-200). *)
LEMMA NewRoster ==
  ASSUME NEW m \in Master, NEW pw \in Passphrase, NEW n \in Nat
  PROVE  RosterOf(new_initial(m, pw, n)) = <<pw>>
<1>. DEFINE t == new_initial(m, pw, n)
<1>1. t.slots = <<KeySlot_create(m, pw, n)>>
  BY NewTable
<1>2. enabled_slots(t) = {1}
  BY <1>1, NewSlot DEF enabled_slots
<1>3. HolderOf(t.slots[1]) = pw
  BY <1>1, HolderOfNew
<1>4. DOMAIN t.slots = {1}
  BY <1>1
<1>. HIDE DEF t
<1>5. RosterOf(t) = [i \in {1} |-> pw]
  BY <1>2, <1>3, <1>4 DEF RosterOf
<1>6. <<pw>> = [i \in {1} |-> pw]
  OBVIOUS
<1>. QED
  BY <1>5, <1>6 DEF t

(* Sequences are equal if their items are. *)
LEMMA SeqExtensional ==
  ASSUME NEW S, NEW r1 \in Seq(S), NEW r2 \in Seq(S), DOMAIN r1 = DOMAIN r2,
         \A i \in DOMAIN r1 : r1[i] = r2[i]
  PROVE  r1 = r2
OBVIOUS

(* A slot that is added is a user at the end of the roster (slots.rs:204-211). *)
LEMMA ExtendedRoster ==
  ASSUME NEW t0 \in KeySlotTable, WellFilled(t0), NEW m \in Master,
         NEW t \in KeySlotTable, WellFilled(t), NEW pw \in Passphrase, NEW n \in Nat,
         t.slots = Append(t0.slots, KeySlot_create(m, pw, n))
  PROVE  RosterOf(t) = Append(RosterOf(t0), pw)
<1>. DEFINE slot == KeySlot_create(m, pw, n)
            len  == Len(t0.slots)
<1>2. t.slots = Append(t0.slots, slot)
  OBVIOUS
<1>3. slot \in KeySlot /\ t0.slots \in Seq(KeySlot) /\ is_enabled(slot)
  BY NewSlot DEF KeySlotTable
<1>4. HolderOf(slot) = pw
  BY HolderOfNew
<1>. HIDE DEF slot
<1>5. /\ len \in Nat
      /\ DOMAIN t0.slots = 1 .. len
      /\ DOMAIN t.slots = 1 .. len + 1
      /\ \A i \in 1 .. len : t.slots[i] = t0.slots[i]
      /\ t.slots[len + 1] = slot
  BY <1>2, <1>3
<1>. HIDE DEF len
<1>6. \A i \in 1 .. len : i \in 1 .. len + 1 /\ i # len + 1
  BY <1>5
<1>7. len + 1 \in 1 .. len + 1 /\ \A i \in 1 .. len + 1 : i \in 1 .. len \/ i = len + 1
  BY <1>5
<1>8. /\ \A i \in 1 .. len : i \in enabled_slots(t) <=> i \in enabled_slots(t0)
      /\ len + 1 \in enabled_slots(t)
  BY <1>3, <1>5, <1>6, <1>7 DEF enabled_slots
<1>9. /\ RosterOf(t)[len + 1] = pw
      /\ \A i \in 1 .. len : RosterOf(t)[i] = RosterOf(t0)[i]
  BY <1>4, <1>5, <1>6, <1>7, <1>8 DEF RosterOf
<1>10. /\ RosterOf(t0) \in Seq(Passphrase \cup {None}) /\ DOMAIN RosterOf(t0) = 1 .. len
       /\ RosterOf(t) \in Seq(Passphrase \cup {None}) /\ DOMAIN RosterOf(t) = 1 .. len + 1
  BY <1>5, RosterType
<1>11. ASSUME NEW r0 \in Seq(Passphrase \cup {None}), DOMAIN r0 = 1 .. len,
              NEW r \in Seq(Passphrase \cup {None}), DOMAIN r = 1 .. len + 1,
              r[len + 1] = pw, \A i \in 1 .. len : r[i] = r0[i]
       PROVE  r = Append(r0, pw)
  <2>1. /\ Append(r0, pw) \in Seq(Passphrase \cup {None})
        /\ DOMAIN Append(r0, pw) = 1 .. len + 1
        /\ \A i \in 1 .. len + 1 : Append(r0, pw)[i] = r[i]
    BY <1>5, <1>11
  <2>. QED
    BY <1>11, <2>1, SeqExtensional
<1>. QED
  BY <1>9, <1>10, <1>11

(* A revoked slot is a struck place (slots.rs:219-234). *)
LEMMA ReducedRoster ==
  ASSUME NEW t0 \in KeySlotTable, NEW i \in enabled_slots(t0), NEW t,
         t.slots = [t0.slots EXCEPT ![i] = Disable(t0.slots[i])]
  PROVE  RosterOf(t) = [RosterOf(t0) EXCEPT ![i] = None]
<1>1. t.slots = [t0.slots EXCEPT ![i] = Disable(t0.slots[i])]
  OBVIOUS
<1>2. i \in DOMAIN t0.slots /\ t0.slots[i] \in KeySlot
  BY EnabledSlots DEF KeySlotTable
<1>3. ~is_enabled(Disable(t0.slots[i]))
  BY <1>2 DEF is_enabled, Disable, KeySlot
<1>4. /\ DOMAIN t.slots = DOMAIN t0.slots
      /\ t.slots[i] = Disable(t0.slots[i])
      /\ \A j \in DOMAIN t0.slots \ {i} : t.slots[j] = t0.slots[j]
  BY <1>1, <1>2
<1>5. enabled_slots(t) = enabled_slots(t0) \ {i}
  BY <1>3, <1>4 DEF enabled_slots
<1>6. i \in enabled_slots(t0) /\ enabled_slots(t0) \subseteq DOMAIN t0.slots
  BY DEF enabled_slots
<1>7. /\ DOMAIN RosterOf(t) = DOMAIN t0.slots
      /\ RosterOf(t)[i] = None
      /\ \A j \in DOMAIN t0.slots \ {i} : RosterOf(t)[j] = RosterOf(t0)[j]
  BY <1>2, <1>4, <1>5 DEF RosterOf
<1>8. DOMAIN RosterOf(t0) = DOMAIN t0.slots
  BY DEF RosterOf
<1>9. RosterOf(t) = [j \in DOMAIN t0.slots |-> RosterOf(t)[j]]
  BY <1>4 DEF RosterOf
<1>10. [RosterOf(t0) EXCEPT ![i] = None] =
         [j \in DOMAIN t0.slots |-> IF j = i THEN None ELSE RosterOf(t0)[j]]
  BY <1>8
<1>. QED
  BY <1>2, <1>7, <1>9, <1>10

(* An enabled slot is the last one unless more than one are counted
   (slots.rs:226-228). *)
LEMMA LastEnabled ==
  ASSUME NEW t \in KeySlotTable, NEW i \in enabled_slots(t)
  PROVE  enabled_slots(t) = {i} <=> ~(enabled_count(t) > 1)
<1>1. IsFiniteSet(enabled_slots(t)) /\ enabled_count(t) \in Nat
  BY EnabledSlots, FS_CardinalityType DEF enabled_count
<1>2. enabled_count(t) # 0
  BY <1>1, FS_EmptySet DEF enabled_count
<1>3. enabled_count(t) = 1 <=> \E x : enabled_slots(t) = {x}
  BY <1>1, FS_Singleton DEF enabled_count
<1>. QED
  BY <1>1, <1>2, <1>3

-----------------------------------------------------------------------------
(* The steps of the roster                                                 *)

(* What is mapped depends on the vaults and the kept tables alone. *)
LEMMA MappedLater ==
  /\ Held' = [h \in Handle |-> HeldAs(vault'[h])]
  /\ Archive' = {Filed(s) : s \in saved'}
BY DEF Held, HeldAs, Archive, Filed, Kept, RosterOf, HolderOf, enabled_slots, is_enabled

(* One holder changes when one vault does. *)
LEMMA HeldAfter ==
  ASSUME TypeOK, NEW h \in Handle, NEW v, vault' = [vault EXCEPT ![h] = v]
  PROVE  Held' = [Held EXCEPT ![h] = HeldAs(v)]
<1>1. \A g \in Handle : vault'[g] = IF g = h THEN v ELSE vault[g]
  BY VaultAfter
<1>2. \A g \in Handle : HeldAs(vault'[g]) = IF g = h THEN HeldAs(v) ELSE HeldAs(vault[g])
  BY <1>1
<1>. QED
  BY <1>2, MappedLater DEF Held

(* A holder has something exactly if its vault is there. *)
LEMMA HeldWhat ==
  ASSUME NEW v \in Vault, v.slots # None => WellFilled(v.slots)
  PROVE  /\ HeldAs(v) = [volume |-> v.master,
                         roster |-> IF v.slots = None THEN None ELSE RosterOf(v.slots)]
         /\ HeldAs(v) # None
         /\ HeldAs(v).roster = IF v.slots = None THEN None ELSE RosterOf(v.slots)
<1>1. v # None
  BY NoneAssumption
<1>2. HeldAs(v) = [volume |-> v.master,
                   roster |-> IF v.slots = None THEN None ELSE RosterOf(v.slots)]
  BY <1>1 DEF HeldAs
<1>3. v.master \in Master /\ v.slots \in KeySlotTable \cup {None}
  BY DEF Vault
<1>4. v.slots # None => RosterOf(v.slots) \in Seq(Passphrase \cup {None})
  BY <1>3, RosterType
<1>5. HeldAs(v) \in [volume : Master, roster : Seq(Passphrase \cup {None}) \cup {None}]
  BY <1>2, <1>3, <1>4
<1>. QED
  BY <1>2, <1>5, NoneAssumption

(* The same of a vault in a handle. *)
LEMMA HeldNow ==
  ASSUME TypeOK, AllWellFilled, NEW h \in Handle, vault[h] # None
  PROVE  /\ vault[h] \in Vault
         /\ Held[h] = HeldAs(vault[h])
         /\ Held[h] = [volume |-> vault[h].master,
                       roster |-> IF vault[h].slots = None THEN None
                                  ELSE RosterOf(vault[h].slots)]
         /\ Held[h] # None
         /\ Held[h].volume = vault[h].master
         /\ vault[h].slots # None =>
              /\ vault[h].slots \in KeySlotTable
              /\ WellFilled(vault[h].slots)
              /\ Held[h].roster = RosterOf(vault[h].slots)
              /\ Held[h].roster # None
<1>1. /\ vault[h] \in Vault
      /\ vault[h].slots # None => vault[h].slots \in KeySlotTable
  BY HeldVault
<1>2. vault[h].slots # None => WellFilled(vault[h].slots)
  BY DEF AllWellFilled, Tables, LiveTables
<1>3. Held[h] = HeldAs(vault[h])
  BY DEF Held
<1>. QED
  BY <1>1, <1>2, <1>3, HeldWhat, RosterType

(* A vault without a table has no roster. *)
LEMMA NoRoster ==
  ASSUME TypeOK, AllWellFilled, NEW h \in Handle, vault[h] # None, vault[h].slots = None
  PROVE  Held[h].roster = None
<1>1. Held[h] = [volume |-> vault[h].master,
                 roster |-> IF vault[h].slots = None THEN None ELSE RosterOf(vault[h].slots)]
  BY HeldNow
<1>. QED
  BY <1>1

(* Replacing the table of a vault replaces the roster. *)
LEMMA RosterReplaced ==
  ASSUME TypeOK, AllWellFilled, NEW h \in Handle, vault[h] # None,
         NEW t \in KeySlotTable, WellFilled(t), vault' = [vault EXCEPT ![h].slots = t]
  PROVE  Held' = [Held EXCEPT ![h].roster = RosterOf(t)]
<1>. DEFINE v == [vault[h] EXCEPT !.slots = t]
<1>1. vault[h] \in Vault
  BY HeldVault
<1>2. v \in Vault /\ v.slots = t /\ v.master = vault[h].master
  BY <1>1 DEF Vault
<1>3. vault' = [vault EXCEPT ![h] = v]
  BY SlotsUpdateType
<1>4. t # None
  BY NoneAssumption
<1>. HIDE DEF v
<1>5. HeldAs(v) = [volume |-> vault[h].master, roster |-> RosterOf(t)]
  BY <1>2, <1>4, HeldWhat
<1>6. Held' = [Held EXCEPT ![h] = HeldAs(v)]
  BY <1>3, HeldAfter
<1>7. Held[h] = [volume |-> vault[h].master,
                 roster |-> IF vault[h].slots = None THEN None ELSE RosterOf(vault[h].slots)]
  BY HeldNow
<1>8. [Held[h] EXCEPT !.roster = RosterOf(t)] =
      [volume |-> vault[h].master, roster |-> RosterOf(t)]
  BY <1>7
<1>. QED
  BY <1>5, <1>6, <1>8

(* What does not change, and the answer. *)
LEMMA ArchiveStays ==
  ASSUME UNCHANGED saved
  PROVE  UNCHANGED Archive
BY MappedLater DEF Archive

LEMMA HeldStays ==
  ASSUME UNCHANGED vault
  PROVE  UNCHANGED Held
BY MappedLater DEF Held

LEMMA RosterAnswered ==
  ASSUME NEW call, NEW user, NEW place, NEW granted, Answered(call, user, place, granted)
  PROVE  Roster!Answer(call, user, place, granted)
BY DEF Answered, Roster!Answer, AnswerOf

LEMMA RosterQuiet ==
  ASSUME Quiet
  PROVE  Roster!NoAnswer
BY RosterAnswered DEF Quiet, Roster!NoAnswer

(* A new vault takes a volume (lib.rs:59-91). *)
LEMMA AcquireTakes ==
  ASSUME TypeOK, NEW n \in Nat, n <= MaxDraws, NEW h \in Handle,
         NEW m \in MastersAfter(n), m \in Master, Acquires(h, m)
  PROVE  Roster!Take(h)
<1>1. m \in MastersAfter(MaxDraws)
  BY BoundsAssumption, MastersGrow
<1>2. NewVault(m) \in Vault /\ NewVault(m).slots = None /\ NewVault(m).master = m
  BY NewVaultType DEF NewVault
<1>3. HeldAs(NewVault(m)) = [volume |-> m, roster |-> None]
  BY <1>2, HeldWhat
<1>4. Held' = [Held EXCEPT ![h] = [volume |-> m, roster |-> None]]
  BY <1>3, HeldAfter DEF Acquires
<1>5. Held[h] = None
  BY DEF Acquires, Held, HeldAs
<1>. QED
  BY <1>1, <1>4, <1>5, ArchiveStays, RosterQuiet DEF Roster!Take, Held, Archive, Acquires

(* A vault that is dropped gives its volume up. *)
LEMMA GiveReleases ==
  ASSUME TypeOK, AllWellFilled, NEW h \in Handle, Gives(h)
  PROVE  Roster!Release(h)
<1>1. Held' = [Held EXCEPT ![h] = None]
  BY HeldAfter DEF Gives, HeldAs
<1>2. Held[h] # None
  BY HeldNow DEF Gives
<1>. QED
  BY <1>1, <1>2, ArchiveStays, RosterQuiet DEF Roster!Release, Held, Archive, Gives

(* A rotation gives a volume that no vault had, and no roster (lib.rs:188-195). *)
LEMMA RotateRenews ==
  ASSUME TypeOK, AllWellFilled, MastersKnown, draws' <= MaxDraws, NEW h \in Handle,
         Rotates(h)
  PROVE  Roster!Renew(h)
<1>. DEFINE m == [random |-> draws + 1]
<1>1. /\ vault[h] # None
      /\ vault' = [vault EXCEPT ![h] = Rotated(vault[h], m)]
      /\ draws \in Nat /\ draws + 1 <= MaxDraws
  BY DEF Rotates, TypeOK
<1>2. m \in Master /\ m \in MastersAfter(MaxDraws)
  BY <1>1, BoundsAssumption DEF Master, MastersAfter
<1>3. m \notin MastersAfter(draws)
  BY <1>1, DrawnMaster
<1>4. vault[h].master \in MastersAfter(draws)
  BY <1>1 DEF MastersKnown
<1>5. vault[h] \in Vault
  BY <1>1, HeldVault
<1>. HIDE DEF m
<1>6. /\ Rotated(vault[h], m) \in Vault
      /\ Rotated(vault[h], m).slots = None
      /\ Rotated(vault[h], m).master = m
  BY <1>2, <1>5, HierarchyType DEF Rotated, Vault
<1>7. HeldAs(Rotated(vault[h], m)) = [volume |-> m, roster |-> None]
  BY <1>6, HeldWhat
<1>8. Held' = [Held EXCEPT ![h] = [volume |-> m, roster |-> None]]
  BY <1>1, <1>7, HeldAfter
<1>9. Held[h] # None /\ Held[h].volume = vault[h].master
  BY <1>1, HeldNow
<1>10. m \in MastersAfter(MaxDraws) \ {Held[h].volume}
  BY <1>2, <1>3, <1>4, <1>9
<1>. QED
  BY <1>8, <1>9, <1>10, ArchiveStays, RosterQuiet DEF Roster!Renew, Held, Archive, Rotates

(* The roster of a vault that has a table. *)
LEMMA OwnRoster ==
  ASSUME TypeOK, AllWellFilled, VaultCoherent, NEW h \in Handle, vault[h] # None,
         vault[h].slots # None
  PROVE  LET t0 == vault[h].slots
         IN  /\ t0 \in KeySlotTable /\ WellFilled(t0)
             /\ t0.slots \in Seq(KeySlot)
             /\ t0.verifier = volume_verifier(vault[h].master)
             /\ Held[h].roster = RosterOf(t0) /\ Held[h].roster # None
             /\ Roster!HasRoster(h)
             /\ Roster!Active(Held[h].roster) = enabled_slots(t0)
             /\ DOMAIN Held[h].roster = DOMAIN t0.slots
             /\ Len(Held[h].roster) = Len(t0.slots)
<1>. DEFINE t0 == vault[h].slots
<1>1. /\ t0 \in KeySlotTable /\ WellFilled(t0)
      /\ Held[h].roster = RosterOf(t0) /\ Held[h].roster # None
      /\ Held[h] # None
  BY HeldNow
<1>2. t0.verifier = volume_verifier(vault[h].master)
  BY DEF VaultCoherent, Coherent, verify_volume_result
<1>3. Roster!HasRoster(h)
  BY <1>1 DEF Roster!HasRoster, Held
<1>4. t0.slots \in Seq(KeySlot)
  BY <1>1 DEF KeySlotTable
<1>. QED
  BY <1>1, <1>2, <1>3, <1>4, RosterType

(* A table that is made anew founds a roster; for add_slot the first user joins
   (lib.rs:108-125). *)
LEMMA FoundSteps ==
  ASSUME TypeOK, AllWellFilled, NEW h \in Handle, NEW pw \in Passphrase,
         NEW t \in KeySlotTable, Founds(h, pw, t)
  PROVE  Roster!Found(h, pw) \/ Roster!Join(h, pw)
<1>. DEFINE m == vault[h].master
<1>1. /\ vault[h] # None
      /\ vault' = [vault EXCEPT ![h].slots = t]
      /\ m \in Master
      /\ UNCHANGED Archive
  BY HeldVault, ArchiveStays DEF Founds, Retables
<1>2. PICK n \in Nat : t = new_initial(m, pw, n)
  BY DEF Founds
<1>3. /\ Held[h] # None
      /\ vault[h].slots = None => Held[h].roster = None
  BY <1>1, HeldNow, NoRoster
<1>4. WellFilled(t)
  <2>1. /\ t.slots = <<KeySlot_create(m, pw, n)>>
        /\ t.verifier = volume_verifier(m)
    BY <1>1, <1>2, NewTable
  <2>. QED
    BY <1>1, <2>1, FilledByOne
<1>5. RosterOf(t) = <<pw>>
  BY <1>1, <1>2, NewRoster
<1>6. Held' = [Held EXCEPT ![h].roster = <<pw>>]
  BY <1>1, <1>4, <1>5, RosterReplaced
<1>7. CASE Answered("found", pw, 0, TRUE)
  <2>1. Roster!Answer("found", pw, 0, TRUE)
    BY <1>7, RosterAnswered
  <2>. QED
    BY <1>1, <1>3, <1>6, <2>1 DEF Roster!Found, Held, Archive
<1>8. CASE vault[h].slots = None /\ Answered("join", pw, 1, TRUE)
  <2>1. Roster!Answer("join", pw, 1, TRUE)
    BY <1>8, RosterAnswered
  <2>2. Len(<<>>) = 0 /\ 0 < MAX_SLOTS /\ Append(<<>>, pw) = <<pw>> /\ 0 + 1 = 1
    BY MaxSlotsAssumption
  <2>3. Held[h].roster = None
    BY <1>3, <1>8
  <2>4. UNCHANGED {Filed(s) : s \in saved}
    BY <1>1 DEF Archive
  <2>. QED
    BY <1>3, <1>6, <2>1, <2>2, <2>3, <2>4 DEF Roster!Join, Held
<1>. QED
  BY <1>7, <1>8 DEF Founds

(* A table that grows has one more user, at the place that is reported
   (lib.rs:116-120, slots.rs:202-211). *)
LEMMA GrowSteps ==
  ASSUME TypeOK, AllWellFilled, VaultCoherent, NEW h \in Handle, NEW pw \in Passphrase,
         NEW t \in KeySlotTable, Grows(h, pw, t)
  PROVE  Roster!Join(h, pw)
<1>. DEFINE t0 == vault[h].slots
            m  == vault[h].master
<1>1. /\ vault[h] # None
      /\ t0 # None
      /\ Len(t0.slots) < MAX_SLOTS
      /\ vault' = [vault EXCEPT ![h].slots = t]
      /\ m \in Master
      /\ UNCHANGED Archive
      /\ Answered("join", pw, Len(t0.slots) + 1, TRUE)
  BY HeldVault, ArchiveStays DEF Grows, Retables
<1>2. PICK n \in Nat :
        t = [t0 EXCEPT !.slots = Append(t0.slots, KeySlot_create(m, pw, n))]
  BY DEF Grows
<1>3. /\ t0 \in KeySlotTable /\ WellFilled(t0)
      /\ t0.verifier = volume_verifier(m)
      /\ Held[h].roster = RosterOf(t0) /\ Held[h].roster # None
      /\ Len(Held[h].roster) = Len(t0.slots)
  BY <1>1, OwnRoster
<1>4. Held[h] # None
  BY <1>1, HeldNow
<1>5. t.slots = Append(t0.slots, KeySlot_create(m, pw, n))
  <2>. DEFINE longer == Append(t0.slots, KeySlot_create(m, pw, n))
  <2>1. t = [t0 EXCEPT !.slots = longer]
    BY <1>2
  <2>. HIDE DEF longer, t0
  <2>2. t.slots = longer
    BY <1>3, <2>1 DEF KeySlotTable
  <2>. QED
    BY <2>2 DEF longer
<1>6. Extended(t0, t, m)
  BY <1>2 DEF Extended
<1>. HIDE DEF t0, m
<1>7. WellFilled(t)
  BY <1>1, <1>3, <1>6, ExtendedWellFilled
<1>8. RosterOf(t) = Append(Held[h].roster, pw)
  BY <1>1, <1>3, <1>5, <1>7, ExtendedRoster
<1>9. Held' = [Held EXCEPT ![h].roster = Append(Held[h].roster, pw)]
  BY <1>1, <1>7, <1>8, RosterReplaced
<1>10. Roster!Answer("join", pw, Len(Held[h].roster) + 1, TRUE)
  BY <1>1, <1>3, RosterAnswered
<1>11. UNCHANGED {Filed(s) : s \in saved}
  BY <1>1 DEF Archive
<1>12. Len(Held[h].roster) < MAX_SLOTS
  BY <1>1, <1>3
<1>. QED
  BY <1>3, <1>4, <1>9, <1>10, <1>11, <1>12 DEF Roster!Join, Held

(* A slot that is revoked strikes its user, who is not the last
   (lib.rs:131-140, slots.rs:219-234). *)
LEMMA ShrinkSteps ==
  ASSUME TypeOK, AllWellFilled, VaultCoherent, NEW h \in Handle,
         NEW i \in 1 .. MAX_SLOTS + 1, NEW t \in KeySlotTable, Shrinks(h, i, t)
  PROVE  Roster!Strike(h, i)
<1>. DEFINE t0 == vault[h].slots
<1>1. /\ vault[h] # None
      /\ t0 # None
      /\ i \in enabled_slots(t0)
      /\ enabled_count(t0) > 1
      /\ vault' = [vault EXCEPT ![h].slots = t]
      /\ t = [t0 EXCEPT !.slots = [t0.slots EXCEPT ![i] = Disable(t0.slots[i])]]
      /\ UNCHANGED Archive
      /\ Answered("strike", None, i, TRUE)
  BY ArchiveStays DEF Shrinks, Retables
<1>2. /\ t0 \in KeySlotTable /\ WellFilled(t0)
      /\ Held[h].roster = RosterOf(t0)
      /\ Roster!HasRoster(h)
      /\ Roster!Active(Held[h].roster) = enabled_slots(t0)
      /\ DOMAIN Held[h].roster = DOMAIN t0.slots
  BY <1>1, OwnRoster
<1>3. Held[h] # None
  BY <1>1, HeldNow
<1>4. t.slots = [t0.slots EXCEPT ![i] = Disable(t0.slots[i])]
  <2>. DEFINE fewer == [t0.slots EXCEPT ![i] = Disable(t0.slots[i])]
  <2>1. t = [t0 EXCEPT !.slots = fewer]
    BY <1>1
  <2>. HIDE DEF fewer, t0
  <2>2. t.slots = fewer
    BY <1>2, <2>1 DEF KeySlotTable
  <2>. QED
    BY <2>2 DEF fewer
<1>5. Reduced(t0, t)
  BY <1>1 DEF Reduced
<1>. HIDE DEF t0
<1>6. WellFilled(t)
  BY <1>2, <1>5, ReducedWellFilled
<1>7. RosterOf(t) = [Held[h].roster EXCEPT ![i] = None]
  <2>1. RosterOf(t) = [RosterOf(t0) EXCEPT ![i] = None]
    BY <1>1, <1>2, <1>4, ReducedRoster, Zenon
  <2>. QED
    BY <1>2, <2>1, Zenon
<1>8. Held' = [Held EXCEPT ![h].roster = [Held[h].roster EXCEPT ![i] = None]]
  BY <1>1, <1>6, <1>7, RosterReplaced
<1>9. Held' = [Held EXCEPT ![h].roster[i] = None]
  BY <1>8
<1>10. Roster!Answer("strike", None, i, TRUE)
  BY <1>1, RosterAnswered
<1>11. UNCHANGED {Filed(s) : s \in saved}
  BY <1>1 DEF Archive
<1>12. i \in DOMAIN Held[h].roster /\ Roster!Active(Held[h].roster) # {i}
  BY <1>1, <1>2, LastEnabled DEF enabled_slots
<1>. QED
  BY <1>2, <1>3, <1>9, <1>10, <1>11, <1>12 DEF Roster!Strike, Held

(* A kept table that is opened is a filed roster that is restored, for a user
   on it (lib.rs:142-158). *)
LEMMA ReopenRestores ==
  ASSUME TypeOK, AllWellFilled, NEW h \in Handle, NEW s \in saved, NEW pw \in Passphrase,
         Reopens(h, s, pw)
  PROVE  Roster!Restore(h, pw)
<1>1. PICK v \in Vault : /\ vault' = [vault EXCEPT ![h] = v]
                         /\ v.slots = Kept(s)
                         /\ v.master = Kept(s).verifier.data
  BY DEF Reopens
<1>2. Kept(s) \in KeySlotTable /\ WellFilled(Kept(s))
  BY TablesType DEF Tables, AllWellFilled
<1>3. Kept(s) # None
  BY <1>2, NoneAssumption
<1>4. HeldAs(v) = Filed(s)
  BY <1>1, <1>2, <1>3, HeldWhat DEF Filed
<1>5. Held' = [Held EXCEPT ![h] = Filed(s)]
  BY <1>1, <1>4, HeldAfter
<1>6. pw \in Roster!Members(Filed(s).roster)
  BY <1>2, OpenedByMember DEF Filed, Reopens
<1>7. Held[h] # None
  BY HeldNow DEF Reopens
<1>8. Filed(s) \in Archive
  BY DEF Archive
<1>9. Roster!Answer("restore", pw, 0, TRUE)
  BY RosterAnswered DEF Reopens
<1>10. UNCHANGED Archive
  BY ArchiveStays DEF Reopens
<1>. QED
  BY <1>5, <1>6, <1>7, <1>8, <1>9, <1>10 DEF Roster!Restore, Held, Archive

(* The calls that leave everything as it is: a full table takes nobody, a slot
   that is revoked already stays so, the last one stays, and a call that is
   about no roster changes none. *)
LEMMA RestSteps ==
  ASSUME TypeOK, AllWellFilled, VaultCoherent, NEW h \in Handle, Rests(h)
  PROVE  \/ Roster!Other
         \/ \E pw \in Passphrase : Roster!Join(h, pw) \/ Roster!Restore(h, pw)
         \/ \E i \in 1 .. MAX_SLOTS + 1 : Roster!Strike(h, i)
<1>. DEFINE t0 == vault[h].slots
<1>1. UNCHANGED <<Held, Archive>>
  BY HeldStays, ArchiveStays DEF Rests
<1>2. UNCHANGED {Filed(s) : s \in saved}
  BY <1>1 DEF Archive
<1>3. vault[h] # None => Held[h] # None
  BY HeldNow
<1>4. CASE Quiet
  BY <1>1, <1>4, RosterQuiet DEF Roster!Other, Held, Archive
<1>5. ASSUME vault[h] # None, NEW pw \in Passphrase, RefusesUser(h, pw)
      PROVE  Roster!Join(h, pw)
  <2>1. Held[h].roster # None /\ Len(Held[h].roster) >= MAX_SLOTS
    BY <1>5, OwnRoster DEF RefusesUser
  <2>2. Roster!Answer("join", pw, 0, FALSE)
    BY <1>5, RosterAnswered DEF RefusesUser
  <2>. QED
    BY <1>1, <1>2, <1>3, <1>5, <2>1, <2>2 DEF Roster!Join, Held
<1>6. ASSUME vault[h] # None, NEW pw \in Passphrase, Declines(pw)
      PROVE  Roster!Restore(h, pw)
  <2>1. Roster!Answer("restore", pw, 0, FALSE)
    BY <1>6, RosterAnswered DEF Declines
  <2>. QED
    BY <1>1, <1>2, <1>3, <1>6, <2>1 DEF Roster!Restore, Held
<1>7. ASSUME vault[h] # None, NEW i \in 1 .. MAX_SLOTS + 1, StrikesAgain(h, i)
      PROVE  Roster!Strike(h, i)
  <2>1. t0 # None /\ i \in DOMAIN t0.slots \ enabled_slots(t0)
    BY <1>7 DEF StrikesAgain
  <2>2. /\ t0 \in KeySlotTable /\ WellFilled(t0)
        /\ Held[h].roster = RosterOf(t0)
        /\ Roster!HasRoster(h)
        /\ i \in DOMAIN Held[h].roster
        /\ Roster!Active(Held[h].roster) # {i}
    BY <1>7, <2>1, OwnRoster
  <2>3. Held[h].roster[i] = None
    BY <2>1, <2>2, RosterType
  <2>4. Held[h] = [volume |-> vault[h].master, roster |-> Held[h].roster]
    BY <1>7, <2>1, <2>2, HeldNow
  <2>5. [Held[h].roster EXCEPT ![i] = None] = Held[h].roster
    BY <2>2, <2>3 DEF RosterOf
  <2>6. [Held EXCEPT ![h].roster[i] = None] = Held
    <3>. DEFINE same == [Held[h] EXCEPT !.roster = [Held[h].roster EXCEPT ![i] = None]]
    <3>1. same = Held[h]
      BY <2>4, <2>5
    <3>2. [Held EXCEPT ![h].roster[i] = None] = [Held EXCEPT ![h] = same]
      OBVIOUS
    <3>3. [Held EXCEPT ![h] = Held[h]] = Held
      BY DEF Held
    <3>. QED
      BY <3>1, <3>2, <3>3
  <2>7. Held' = [Held EXCEPT ![h].roster[i] = None]
    BY <1>1, <2>6
  <2>8. Roster!Answer("strike", None, i, TRUE)
    BY <1>7, RosterAnswered DEF StrikesAgain
  <2>. QED
    BY <1>2, <1>3, <1>7, <2>2, <2>7, <2>8 DEF Roster!Strike, Held
<1>8. ASSUME vault[h] # None, NEW i \in 1 .. MAX_SLOTS + 1, KeepsUser(h, i)
      PROVE  Roster!Strike(h, i)
  <2>1. Roster!Answer("strike", None, i, FALSE)
    BY <1>8, RosterAnswered DEF KeepsUser
  <2>2. ~ /\ Roster!HasRoster(h)
          /\ i \in DOMAIN Held[h].roster
          /\ Roster!Active(Held[h].roster) # {i}
    <3>1. CASE t0 = None
      <4>1. Held[h].roster = None
        BY <1>8, <3>1, NoRoster
      <4>. QED
        BY <4>1 DEF Roster!HasRoster, Held
    <3>2. CASE t0 # None
      <4>1. /\ t0 \in KeySlotTable
            /\ Roster!Active(Held[h].roster) = enabled_slots(t0)
            /\ DOMAIN Held[h].roster = DOMAIN t0.slots
        BY <1>8, <3>2, OwnRoster
      <4>2. \/ i \notin DOMAIN t0.slots
            \/ i \in enabled_slots(t0) /\ enabled_count(t0) <= 1
        BY <1>8, <3>2 DEF KeepsUser
      <4>3. enabled_count(t0) \in Nat
        BY <4>1, EnabledSlots
      <4>. QED
        BY <4>1, <4>2, <4>3, LastEnabled
    <3>. QED
      BY <3>1, <3>2
  <2>. QED
    BY <1>1, <1>2, <1>3, <1>8, <2>1, <2>2 DEF Roster!Strike, Held
<1>. QED
  BY <1>4, <1>5, <1>6, <1>7, <1>8 DEF Rests

(* A table that is serialized and kept is filed (lib.rs:176-184). *)
LEMMA FilesARoster ==
  ASSUME TypeOK, AllWellFilled, VaultCoherent, NEW h \in Handle, Files(h)
  PROVE  Roster!File(h)
<1>. DEFINE t == vault[h].slots
<1>1. /\ t \in KeySlotTable
      /\ Held[h] = [volume |-> vault[h].master, roster |-> RosterOf(t)]
      /\ Held[h] # None /\ Held[h].roster # None
  BY HeldNow DEF Files
<1>2. Kept(Serialized(t)) = t
  BY <1>1, SerializedType
<1>3. t.verifier.data = vault[h].master
  BY OwnVerifier DEF Files
<1>4. Filed(Serialized(t)) = Held[h]
  BY <1>1, <1>2, <1>3 DEF Filed
<1>5. Archive' = Archive \cup {Filed(Serialized(t))}
  BY MappedLater DEF Files, Archive
<1>6. UNCHANGED Held
  BY MappedLater DEF Files, Held
<1>. QED
  BY <1>1, <1>4, <1>5, <1>6, RosterQuiet
     DEF Roster!File, Roster!HasRoster, Held, Archive, Files

(* Every step of the vaults is one of the roster. *)
LEMMA RosterStep ==
  ASSUME TypeOK, VaultCoherent, VaultCoherent', SavedIntact, AllWellFilled,
         MastersKnown, MastersKnown', [Next]_vars
  PROVE  [Roster!Next]_Roster!rosterVars
<1>1. CASE UNCHANGED vars
  <2>1. UNCHANGED <<Held, Archive>>
    BY <1>1, HeldStays, ArchiveStays DEF vars
  <2>2. UNCHANGED AnswerOf(ret)
    BY <1>1 DEF vars, AnswerOf
  <2>. QED
    BY <2>1, <2>2 DEF Roster!rosterVars, Held, Archive
<1>2. ASSUME Next
      PROVE  Roster!Next
  <2>1. PICK h \in Handle : Changes(h)
    BY <1>2, NextChanges
  <2>2. draws \in Nat /\ draws <= MaxDraws /\ draws' <= MaxDraws
    BY DEF TypeOK, MastersKnown
  <2>3. CASE \E m \in RawMaster \cup DerivedMasters : Acquires(h, m)
    <3>1. PICK m \in RawMaster \cup DerivedMasters : Acquires(h, m)
      BY <2>3
    <3>2. m \in MastersAfter(draws) /\ m \in Master
      BY DerivedType DEF MastersAfter, Master
    <3>3. Roster!Take(h)
      BY <2>2, <3>1, <3>2, AcquireTakes
    <3>. QED
      BY <3>3 DEF Roster!Next
  <2>4. CASE Gives(h)
    BY <2>4, GiveReleases DEF Roster!Next
  <2>5. CASE Rotates(h)
    BY <2>2, <2>5, RotateRenews DEF Roster!Next
  <2>6. CASE \E t \in KeySlotTable : Edits(h, t)
    <3>1. \/ \E pw \in Passphrase : Roster!Found(h, pw) \/ Roster!Join(h, pw)
          \/ \E i \in 1 .. MAX_SLOTS + 1 : Roster!Strike(h, i)
      BY <2>6, FoundSteps, GrowSteps, ShrinkSteps DEF Edits
    <3>. QED
      BY <3>1 DEF Roster!Next
  <2>7. CASE Files(h)
    BY <2>7, FilesARoster DEF Roster!Next
  <2>8. CASE \E s \in saved, pw \in Passphrase : Reopens(h, s, pw)
    BY <2>8, ReopenRestores DEF Roster!Next
  <2>9. CASE Rests(h)
    BY <2>9, RestSteps DEF Roster!Next
  <2>. QED
    BY <2>1, <2>3, <2>4, <2>5, <2>6, <2>7, <2>8, <2>9 DEF Changes
<1>. QED
  BY <1>1, <1>2

(* Slot keys, trial decryption, MAC and verifier together amount to a roster of
   passphrases: every call of a vault is the step of VaultRoster it answers for,
   an open_from_slots that succeeds that of a user on the filed roster
   (lib.rs:59-195, slots.rs:106-118, 189-335). *)
THEOREM ImplementsRoster == Spec => RosterSpec
<1>1. Init => Roster!Init
  BY DEF Init, Roster!Init, HeldAs, AnswerOf, CallOf
<1>. QED
  BY <1>1, SpecIsOpen, RosterStep, TypeCorrect, AlwaysCoherent, AlwaysSavedIntact,
     AlwaysWellFilled, AlwaysMastersKnown, PTL DEF Spec, RosterSpec, Roster!Spec
=============================================================================
