------------------------------ MODULE KeySlots ------------------------------
(***************************************************************************)
(* slots.rs: a key slot is the master key sealed under a key derived from  *)
(* a passphrase; a key-slot table is a sequence of slots for one master,   *)
(* with a check value of that master and a MAC over its serialized form.   *)
(*                                                                         *)
(* The operators answer with the Result of the Rust function; one that     *)
(* takes &mut self answers with the table it leaves.  One number, drawn    *)
(* from OsRng, stands for all the random fields of a slot.  Left out are   *)
(* slot_id, kdf_id and created_at, which no function reads.  A slot index  *)
(* counts from 0, as in the code.                                          *)
(***************************************************************************)
EXTENDS Primitives, Sequences, FiniteSets

CONSTANT MAX_SLOTS    \* 16 in the code

ASSUME MaxSlotsAssumption == MAX_SLOTS \in Nat \ {0}

HEADER_MAGIC == "SOTK"
SLOT_M_COST  == 64
SLOT_T_COST  == 3

-----------------------------------------------------------------------------
(* KeySlot                                                                 *)

SlotSalt(draw) == SaltOf(draw, 16)

(* The key of a slot.  The costs and the salt are ones argon2 accepts, so
   the derivation answers. *)
SlotKey(passphrase, salt) ==
  argon2id_root(passphrase, salt, SLOT_M_COST, SLOT_T_COST).val

KeySlot_create(master, passphrase, draw) ==
  LET sealed == seal("Aes256Gcm", SlotKey(passphrase, SlotSalt(draw)), draw,
                     master, HEADER_MAGIC)
  IN  [salt |-> SlotSalt(draw), nonce |-> sealed.nonce, ct |-> sealed.ct,
       enabled |-> TRUE]

(* Fault: the slot is opened under the key it was sealed with, whatever the
   passphrase. *)
unseal_ForAnyone(slot, passphrase) ==
  IF slot.ct = ZeroCt THEN Err("SlotUnseal") ELSE Ok(slot.ct.msg)

(* unseal does not look at the enabled flag: unseal_with does. *)
unseal(slot, passphrase) ==
  LET opened == open("Aes256Gcm", SlotKey(passphrase, slot.salt), slot.nonce,
                     slot.ct, HEADER_MAGIC)
  IN  IF opened.ok THEN opened ELSE Err("SlotUnseal")

is_enabled(slot) == slot.enabled

(* The public check value of a master key. *)
volume_verifier(master) == keyed_hash("volume-verifier-v1", master)

-----------------------------------------------------------------------------
(* KeySlotTable                                                            *)

new_initial(master, passphrase, draw) ==
  [header_salt |-> draw,
   slots       |-> <<KeySlot_create(master, passphrase, draw)>>,
   verifier    |-> volume_verifier(master)]

(* Fault: the place of a revoked slot is taken by the new one. *)
table_add_slot_Reusing(table, master, passphrase, draw) ==
  LET free == {i \in DOMAIN table.slots : ~table.slots[i].enabled}
      slot == KeySlot_create(master, passphrase, draw)
  IN  IF free # {}
      THEN LET i == CHOOSE j \in free : TRUE
           IN  Ok([table |-> [table EXCEPT !.slots[i] = slot], idx |-> i - 1])
      ELSE IF Len(table.slots) >= MAX_SLOTS
      THEN Err("SlotTableFull")
      ELSE Ok([table |-> [table EXCEPT !.slots = Append(@, slot)],
               idx   |-> Len(table.slots)])

(* Fault: one slot too many. *)
table_add_slot_Over(table, master, passphrase, draw) ==
  IF Len(table.slots) > MAX_SLOTS
  THEN Err("SlotTableFull")
  ELSE Ok([table |-> [table EXCEPT
                        !.slots = Append(@, KeySlot_create(master, passphrase, draw))],
           idx   |-> Len(table.slots)])

table_add_slot(table, master, passphrase, draw) ==
  IF Len(table.slots) >= MAX_SLOTS
  THEN Err("SlotTableFull")
  ELSE Ok([table |-> [table EXCEPT
                        !.slots = Append(@, KeySlot_create(master, passphrase, draw))],
           idx   |-> Len(table.slots)])

enabled_slots(table) == {i \in DOMAIN table.slots : is_enabled(table.slots[i])}

enabled_count(table) == Cardinality(enabled_slots(table))

(* Clear the enabled bit and wipe the sealed master. *)
Disable(slot) == [slot EXCEPT !.enabled = FALSE, !.ct = ZeroCt]

(* Fault: the last enabled slot can go too. *)
table_revoke_slot_Last(table, idx) ==
  IF idx >= Len(table.slots) THEN Err("SlotUnseal")
  ELSE IF ~is_enabled(table.slots[idx + 1]) THEN Ok(table)
  ELSE IF enabled_count(table) < 1 THEN Err("LastSlotRevocation")
  ELSE Ok([table EXCEPT !.slots[idx + 1] = Disable(@)])

(* Fault: the bit is cleared and the sealed master stays. *)
table_revoke_slot_KeepingCt(table, idx) ==
  IF idx >= Len(table.slots) THEN Err("SlotUnseal")
  ELSE IF ~is_enabled(table.slots[idx + 1]) THEN Ok(table)
  ELSE IF enabled_count(table) <= 1 THEN Err("LastSlotRevocation")
  ELSE Ok([table EXCEPT !.slots[idx + 1].enabled = FALSE])

table_revoke_slot(table, idx) ==
  IF idx >= Len(table.slots) THEN Err("SlotUnseal")
  ELSE IF ~is_enabled(table.slots[idx + 1]) THEN Ok(table)
  ELSE IF enabled_count(table) <= 1 THEN Err("LastSlotRevocation")
  ELSE Ok([table EXCEPT !.slots[idx + 1] = Disable(@)])

(* The enabled slots passphrase opens. *)
Opens(table, passphrase) ==
  {i \in enabled_slots(table) : unseal(table.slots[i], passphrase).ok}

(* The first of them gives the master key and its own index. *)
unseal_with(table, passphrase) ==
  IF Opens(table, passphrase) = {}
  THEN Err("NoSlotUnsealed")
  ELSE LET i == CHOOSE j \in Opens(table, passphrase) :
                  \A k \in Opens(table, passphrase) : j <= k
       IN  Ok([idx |-> i - 1, master |-> unseal(table.slots[i], passphrase).val])

(* The serialized table: its body and the MAC over it. *)
to_bytes(table) ==
  LET body == [slots |-> table.slots, verifier |-> table.verifier]
  IN  [body |-> body, mac |-> keyed_hash(table.header_salt, body)]

(* Fault: the MAC is not looked at. *)
from_bytes_WithoutMac(data, header_salt) ==
  Ok([header_salt |-> header_salt, slots |-> data.body.slots,
      verifier |-> data.body.verifier])

from_bytes(data, header_salt) ==
  IF data.mac # keyed_hash(header_salt, data.body)
  THEN Err("HeaderIntegrity")
  ELSE Ok([header_salt |-> header_salt, slots |-> data.body.slots,
           verifier |-> data.body.verifier])

-----------------------------------------------------------------------------
(* VolumeKeyRotation: a master from OsRng. *)
rotate(draw) == [random |-> draw]
=============================================================================
