-------------------------- MODULE AegisSerialProofs --------------------------
(***************************************************************************)
(* What people get who let only one of them change files at a time: the    *)
(* passphrases of finished commands open the vault, and sealed files open. *)
(* The argument follows the one command that changes files: what it has    *)
(* read is the file as it is, so that what it writes serves all members.   *)
(***************************************************************************)
EXTENDS AegisCliProofs

(* Some slot opens with passphrase p. *)
HasSlot(table, p) == \E i \in 1 .. Len(table.slots) : unseal(table.slots[i], p).ok

(* The check value is that of the master in each slot. *)
Uniform(table) ==
  \A i \in 1 .. Len(table.slots) : table.verifier = volume_verifier(table.slots[i].ct.msg)

Serves(table, M) ==
  \A m \in M : HasSlot(table, m.passphrase) /\ table.verifier = volume_verifier(m.master)

-----------------------------------------------------------------------------
(* Slots and tables                                                        *)

LEMMA CreatedOpens ==
  ASSUME NEW m, NEW p, NEW d
  PROVE  unseal(KeySlot_create(m, p, d), p).ok /\ KeySlot_create(m, p, d).ct.msg = m
<1> DEFINE key   == SlotKey(p, SlotSalt(d))
           nonce == FreshNonce("Aes256Gcm", d)
           ct    == Ciphertext("Aes256Gcm", key, nonce, m, HEADER_MAGIC)
<1>1. KeySlot_create(m, p, d)
        = [salt |-> SlotSalt(d), nonce |-> nonce, ct |-> ct, enabled |-> TRUE]
  BY DEF KeySlot_create, seal
<1>2. /\ nonce.len = NonceLen("Aes256Gcm")
      /\ "msg" \in DOMAIN ct /\ ct.msg = m
  BY DEF FreshNonce, Ciphertext
<1>3. unseal(KeySlot_create(m, p, d), p)
        = IF open("Aes256Gcm", key, nonce, ct, HEADER_MAGIC).ok
          THEN open("Aes256Gcm", key, nonce, ct, HEADER_MAGIC) ELSE Err("SlotUnseal")
  BY <1>1 DEF unseal
<1>4. ct = Ciphertext("Aes256Gcm", key, nonce, ct.msg, HEADER_MAGIC)
  BY <1>2
<1> HIDE DEF key, nonce, ct
<1>5. open("Aes256Gcm", key, nonce, ct, HEADER_MAGIC) = Ok(ct.msg)
  BY <1>2, <1>4 DEF open, AeadDecrypt
<1>. QED
  BY <1>1, <1>2, <1>3, <1>5 DEF Ok

LEMMA InitialServes ==
  ASSUME NEW m, NEW p, NEW d
  PROVE  /\ Uniform(new_initial(m, p, d))
         /\ Serves(new_initial(m, p, d), {Member(p, m)})
<1> DEFINE slot  == KeySlot_create(m, p, d)
           table == new_initial(m, p, d)
<1>1. table.slots = <<slot>> /\ table.verifier = volume_verifier(m)
  BY DEF new_initial
<1>2. unseal(slot, p).ok /\ slot.ct.msg = m
  BY CreatedOpens
<1> HIDE DEF slot, table
<1>3. Len(table.slots) = 1 /\ table.slots[1] = slot
  BY <1>1
<1>4. Uniform(table)
  BY <1>1, <1>2, <1>3 DEF Uniform
<1>5. HasSlot(table, p)
  BY <1>2, <1>3 DEF HasSlot
<1>6. Serves(table, {Member(p, m)})
  BY <1>1, <1>5 DEF Serves, Member
<1>. QED
  BY <1>4, <1>6 DEF table

(* The table with a slot more serves those it served and the new one. *)
LEMMA AddedServes ==
  ASSUME NEW table \in Table, NEW m \in Master, NEW p \in Passphrase, NEW d \in 1 .. MaxDraws,
         table_add_slot(table, m, p, d).ok, Uniform(table), table.verifier = volume_verifier(m)
  PROVE  LET added == table_add_slot(table, m, p, d).val.table
         IN  /\ Uniform(added)
             /\ Serves(added, {Member(p, m)})
             /\ \A M : Serves(table, M) => Serves(added, M)
<1> DEFINE slot  == KeySlot_create(m, p, d)
           added == table_add_slot(table, m, p, d).val.table
<1>1. added = [table EXCEPT !.slots = Append(@, slot)]
  BY DEF table_add_slot, Ok, Err
<1>2. unseal(slot, p).ok /\ slot.ct.msg = m
  BY CreatedOpens
<1> HIDE DEF slot, added
<1>3. /\ table = [header_salt |-> table.header_salt, slots |-> table.slots,
                  verifier |-> table.verifier]
      /\ table.slots \in Seq(Slot)
  BY DEF Table
<1>4. added.slots = Append(table.slots, slot) /\ added.verifier = table.verifier
  BY <1>1, <1>3
<1> DEFINE n == Len(table.slots)
<1>5. /\ n \in Nat /\ Len(added.slots) = n + 1 /\ added.slots[n + 1] = slot
      /\ \A i \in 1 .. n : added.slots[i] = table.slots[i]
  BY <1>3, <1>4
<1> HIDE DEF n
<1>6. 1 .. n + 1 = (1 .. n) \cup {n + 1}
  BY <1>5
<1>7. \A i \in 1 .. n : table.verifier = volume_verifier(table.slots[i].ct.msg)
  BY DEF Uniform, n
<1>8. Uniform(added)
  BY <1>2, <1>4, <1>5, <1>6, <1>7 DEF Uniform
<1>9. HasSlot(added, p)
  BY <1>2, <1>5, <1>6 DEF HasSlot
<1>10. Serves(added, {Member(p, m)})
  BY <1>4, <1>9 DEF Serves, Member
<1>11. \A q : HasSlot(table, q) => HasSlot(added, q)
  BY <1>5, <1>6 DEF HasSlot, n
<1>12. \A M : Serves(table, M) => Serves(added, M)
  BY <1>4, <1>11 DEF Serves
<1>. QED
  BY <1>8, <1>10, <1>12 DEF added

LEMMA SlotEnabled ==
  ASSUME NEW slot \in Slot
  PROVE  slot.enabled
<1> DEFINE Key == {SlotKey(p, SlotSalt(d)) : p \in Passphrase, d \in 1 .. MaxDraws}
<1>1. Slot = [salt : [id : 1 .. MaxDraws, len : {16}], nonce : Nonce(12), enabled : {TRUE},
              ct : [algo : {"Aes256Gcm"}, nonce : Nonce(12), msg : Master,
                    aad : {HEADER_MAGIC}, key : Key]]
  BY DEF Slot
<1> HIDE DEF Key
<1>2. slot.enabled = TRUE
  BY <1>1
<1>. QED
  BY <1>2

(* A table of one master opens with the passphrase of each of its slots, and
   gives the master of the check value. *)
LEMMA ServedOpens ==
  ASSUME NEW table \in Table, NEW p, Uniform(table), HasSlot(table, p)
  PROVE  LET opened == OpenTable(to_bytes(table), table.header_salt, p)
         IN  /\ opened.ok /\ opened.val.table = table
             /\ table.verifier = volume_verifier(opened.val.master)
<1> DEFINE bytes == to_bytes(table)
           salt  == table.header_salt
           found == unseal_with(table, p)
<1>1. from_bytes(bytes, salt) = Ok(table)
  <2>1. table = [header_salt |-> table.header_salt, slots |-> table.slots,
                 verifier |-> table.verifier]
    BY DEF Table
  <2>2. /\ bytes.body = [slots |-> table.slots, verifier |-> table.verifier]
        /\ bytes.mac = keyed_hash(salt, bytes.body)
    BY DEF to_bytes
  <2>3. from_bytes(bytes, salt)
          = Ok([header_salt |-> salt, slots |-> bytes.body.slots,
                verifier |-> bytes.body.verifier])
    BY <2>2 DEF from_bytes
  <2> QED
    BY <2>1, <2>2, <2>3
<1>2. table.slots \in Seq(Slot)
  BY DEF Table
<1>3. Opens(table, p) \in SUBSET Nat /\ Opens(table, p) \in SUBSET DOMAIN table.slots
  BY <1>2 DEF Opens, enabled_slots
<1>4. Opens(table, p) # {}
  <2>1. PICK i \in 1 .. Len(table.slots) : unseal(table.slots[i], p).ok
    BY DEF HasSlot
  <2>2. i \in DOMAIN table.slots /\ table.slots[i] \in Slot
    BY <1>2
  <2>3. is_enabled(table.slots[i])
    BY <2>2, SlotEnabled DEF is_enabled
  <2> QED
    BY <2>1, <2>2, <2>3 DEF Opens, enabled_slots
<1> DEFINE i == CHOOSE j \in Opens(table, p) : \A k \in Opens(table, p) : j <= k
<1>5. \E j \in Opens(table, p) : \A k \in Opens(table, p) : j <= k
  BY <1>3, <1>4, LeastNumber
<1>6. i \in Opens(table, p)
  BY <1>5, Zenon
<1>7. found = Ok([idx |-> i - 1, master |-> unseal(table.slots[i], p).val])
  BY <1>4, Zenon DEF unseal_with
<1> HIDE DEF i
<1>8. unseal(table.slots[i], p).ok /\ i \in 1 .. Len(table.slots)
  BY <1>2, <1>3, <1>6 DEF Opens
<1>9. unseal(table.slots[i], p).val = table.slots[i].ct.msg
  BY <1>8 DEF unseal, open, AeadDecrypt, Panic, Ok, Err
<1>10. found.ok /\ found.val.master = table.slots[i].ct.msg
  BY <1>7, <1>9 DEF Ok
<1>11. table.verifier = volume_verifier(found.val.master)
  BY <1>8, <1>10 DEF Uniform
<1> HIDE DEF bytes, salt, found
<1>12. from_bytes(bytes, salt).ok /\ from_bytes(bytes, salt).val = table
  BY <1>1 DEF Ok
<1>13. OpenTable(bytes, salt, p) = Ok([master |-> found.val.master, table |-> table])
  BY <1>10, <1>11, <1>12 DEF OpenTable, found
<1>. QED
  BY <1>11, <1>13 DEF Ok, bytes, salt

-----------------------------------------------------------------------------
(* Files that are whole                                                    *)

(* What is read from the cells of a table is that table. *)
LEMMA ReadBack ==
  ASSUME NEW table \in Table, Len(table.slots) \in 1 .. MAX_SLOTS
  PROVE  /\ IsVault(VaultCells(table))
         /\ VaultBytes(VaultCells(table)) = to_bytes(table)
         /\ VaultCells(table)[1].header_salt = table.header_salt
<1> DEFINE n     == Len(table.slots)
           head  == [part |-> "head", header_salt |-> table.header_salt, count |-> n]
           tail  == [part |-> "tail", verifier |-> table.verifier, mac |-> to_bytes(table).mac]
           cells == VaultCells(table)
<1>1. cells = [k \in 1 .. 2 * n + 2 |->
                 IF k = 1 THEN head
                 ELSE IF k < 2 * n + 2 THEN SlotCell(table.slots, k) ELSE tail]
  BY DEF VaultCells
<1>2. n \in Nat /\ n >= 1
  BY MaxSlotsAssumption
<1>3. head.part = "head" /\ head.count = n /\ head.header_salt = table.header_salt
  OBVIOUS
<1>4. tail.part = "tail" /\ tail.verifier = table.verifier /\ tail.mac = to_bytes(table).mac
  OBVIOUS
<1>5. table.slots \in Seq(Slot)
  BY DEF Table
<1> HIDE DEF head, tail, cells
<1> DEFINE slots == table.slots
<1>6. n = Len(slots) /\ slots = [i \in 1 .. n |-> slots[i]]
  BY <1>5
<1> HIDE DEF n, slots
<1>7. Len(cells) = 2 * n + 2 /\ cells[1] = head /\ cells[2 * n + 2] = tail
      /\ \A k \in 2 .. 2 * n + 1 : cells[k] = SlotCell(slots, k)
  <2>1. 2 * n + 2 \in Nat /\ 1 \in 1 .. 2 * n + 2 /\ 2 * n + 2 \in 1 .. 2 * n + 2
        /\ 2 * n + 2 # 1 /\ ~(2 * n + 2 < 2 * n + 2)
    BY <1>2
  <2>2. \A k \in 2 .. 2 * n + 1 : k \in 1 .. 2 * n + 2 /\ k # 1 /\ k < 2 * n + 2
    BY <1>2
  <2> DEFINE len == 2 * n + 2
  <2>3. Len(cells) = len
    <3>1. DOMAIN cells = 1 .. len /\ len \in Nat
      BY <1>1, <2>1
    <3>2. cells = [k \in 1 .. len |-> cells[k]]
      BY <1>1
    <3> HIDE DEF len
    <3> QED
      BY <3>1, <3>2
  <2>4. cells[1] = head /\ cells[2 * n + 2] = tail
    BY <1>1, <2>1
  <2>5. \A k \in 2 .. 2 * n + 1 : cells[k] = SlotCell(slots, k)
    BY <1>1, <2>2 DEF slots
  <2> QED
    BY <2>3, <2>4, <2>5
<1>8. \A k \in 2 .. 2 * n + 1 :
        /\ cells[k].part = (IF k % 2 = 0 THEN "front" ELSE "back")
        /\ cells[k].slot = slots[k \div 2]
  <2>1. \A k : /\ SlotCell(slots, k).part = (IF k % 2 = 0 THEN "front" ELSE "back")
               /\ SlotCell(slots, k).slot = slots[k \div 2]
    BY DEF SlotCell
  <2> QED
    BY <1>7, <2>1
<1>9. IsVault(cells)
  <2>1. (Len(cells) - 2) \div 2 = n /\ Len(cells) >= 2
    BY <1>2, <1>7
  <2> QED
    BY <1>3, <1>4, <1>7, <1>8, <2>1 DEF IsVault
<1>10. \A i \in 1 .. n : Joined(cells[2 * i].slot, cells[2 * i + 1].slot) = slots[i]
  <2> SUFFICES ASSUME NEW i \in 1 .. n
               PROVE  Joined(cells[2 * i].slot, cells[2 * i + 1].slot) = slots[i]
    OBVIOUS
  <2>1. /\ 2 * i \in 2 .. 2 * n + 1 /\ 2 * i + 1 \in 2 .. 2 * n + 1
        /\ (2 * i) \div 2 = i /\ (2 * i + 1) \div 2 = i
    BY <1>2
  <2>2. cells[2 * i].slot = slots[i] /\ cells[2 * i + 1].slot = slots[i]
    BY <1>8, <2>1
  <2> QED
    BY <2>2 DEF Joined
<1>11. VaultBytes(cells)
         = [body |-> [slots |-> [i \in 1 .. n |->
                                   Joined(cells[2 * i].slot, cells[2 * i + 1].slot)],
                      verifier |-> tail.verifier],
            mac |-> tail.mac]
  BY <1>3, <1>7 DEF VaultBytes
<1>12. [i \in 1 .. n |-> Joined(cells[2 * i].slot, cells[2 * i + 1].slot)] = slots
  BY <1>6, <1>10
<1>13. VaultBytes(cells)
         = [body |-> [slots |-> slots, verifier |-> table.verifier],
            mac |-> to_bytes(table).mac]
  BY <1>4, <1>11, <1>12
<1>14. to_bytes(table)
         = [body |-> [slots |-> slots, verifier |-> table.verifier],
            mac |-> to_bytes(table).mac]
  BY DEF to_bytes, slots
<1>. QED
  BY <1>3, <1>7, <1>9, <1>13, <1>14 DEF cells

(* A file of a table opens for those the table serves, with its master. *)
LEMMA FileServes ==
  ASSUME NEW table \in Table, Len(table.slots) \in 1 .. MAX_SLOTS, Uniform(table),
         NEW p, HasSlot(table, p)
  PROVE  LET opened == open_vault(VaultCells(table), p)
         IN  /\ opened.ok
             /\ table.verifier = volume_verifier(opened.val.master)
             /\ opened.val.hierarchy = from_master(opened.val.master)
<1> DEFINE found == OpenTable(to_bytes(table), table.header_salt, p)
<1>1. /\ found.ok /\ table.verifier = volume_verifier(found.val.master)
  BY ServedOpens
<1>2. open_vault(VaultCells(table), p)
        = IF found.ok THEN Ok(VaultFrom(found.val, p)) ELSE found
  BY ReadBack DEF open_vault
<1> HIDE DEF found
<1>3. open_vault(VaultCells(table), p) = Ok(VaultFrom(found.val, p))
  BY <1>1, <1>2
<1> DEFINE v == VaultFrom(found.val, p)
<1>4. v.master = found.val.master /\ v.hierarchy = from_master(found.val.master)
  BY VaultMade
<1> HIDE DEF v
<1>5. open_vault(VaultCells(table), p).ok /\ open_vault(VaultCells(table), p).val = v
  BY <1>3 DEF Ok, v
<1>. QED
  BY <1>1, <1>4, <1>5

(* What seal wrote, a vault with the same keys reads. *)
LEMMA SealedOpens ==
  ASSUME NEW v, NEW w, v.hierarchy = w.hierarchy, NEW text, NEW d
  PROVE  UnsealedWith(v, BlobCells(SealedWith(w, text, d))) = Ok(text)
<1> DEFINE algo  == "XChaCha20Poly1305"
           key   == v.hierarchy["Enc"]
           nonce == FreshNonce(algo, d)
           ct    == Ciphertext(algo, key, nonce, text, "aegis-cli")
           cells == BlobCells(SealedWith(w, text, d))
<1>1. SealedWith(w, text, d) = [nonce |-> nonce, ct |-> ct]
  BY DEF SealedWith, Encrypted, domain, seal
<1>2. nonce.len = NonceLen(algo) /\ "msg" \in DOMAIN ct /\ ct.msg = text
  BY DEF FreshNonce, Ciphertext
<1>3. ct = Ciphertext(algo, key, nonce, ct.msg, "aegis-cli")
  BY <1>2
<1> HIDE DEF nonce, ct, key
<1>4. cells = <<[part |-> "nonce", nonce |-> nonce], [part |-> "ct", ct |-> ct]>>
  BY <1>1 DEF BlobCells
<1> HIDE DEF cells
<1>5. IsBlob(cells) /\ cells[1].nonce = nonce /\ cells[2].ct = ct
  BY <1>4 DEF IsBlob
<1>6. UnsealedWith(v, cells) = open(algo, key, nonce, ct, "aegis-cli")
  BY <1>5 DEF UnsealedWith, Decrypted, domain, key
<1>7. open(algo, key, nonce, ct, "aegis-cli") = Ok(ct.msg)
  BY <1>2, <1>3 DEF open, AeadDecrypt
<1>. QED
  BY <1>2, <1>6, <1>7 DEF cells

-----------------------------------------------------------------------------
(* The invariant                                                           *)

(* A command that changes the vault file or the sealed one. *)
Writer(s) == s # Idle /\ s.cmd.name \in {"init", "add", "seal"}

(* Which commands write which file, from its start, and who reads the sealed
   one. *)
Kind(s) ==
  /\ s.at = "read" /\ s.path = "sealed" => s.cmd.name = "open"
  /\ s.at = "create" => s.pos = 0
  /\ s.at \in {"create", "write"} =>
       \/ s.path = "vault" /\ s.cmd.name \in {"init", "add"}
       \/ s.path = "sealed" /\ s.cmd.name = "seal"
       \/ s.path = "plain" /\ s.cmd.name = "open"

(* The vault file is as command s has read it. *)
Knows(s, cells) ==
  /\ s.at = "read" /\ s.path = "vault" /\ cells # None =>
       Len(s.buf) <= Len(cells) /\ \A k \in 1 .. Len(s.buf) : s.buf[k] = cells[k]
  /\ s.at = "opening" =>
       /\ cells # None /\ IsVault(cells)
       /\ s.bytes = VaultBytes(cells) /\ s.header_salt = cells[1].header_salt

(* The file holds what command s has written of its data. *)
Done(s, cells) == Len(cells) = s.pos /\ \A k \in 1 .. s.pos : cells[k] = s.data[k]

(* Whom init and add give access. *)
Given(s) == Member(IF s.cmd.name = "add" THEN s.cmd.n ELSE s.cmd.p, s.vault.master)

(* What command s writes to the vault file serves the members, but for init
   before it empties the file. *)
PutsVault(s, cells, M, W) ==
  s.at \in {"create", "write"} /\ s.path = "vault" =>
    \E table \in W :
      /\ s.data = VaultCells(table)
      /\ Serves(table, {Given(s)})
      /\ s.cmd.name = "add" \/ s.at = "write" => Serves(table, M)
      /\ s.at = "write" => Done(s, cells)

PutsSealed(s, cells) ==
  s.at \in {"create", "write"} /\ s.path = "sealed" =>
    /\ s.data = BlobCells(SealedWith(s.vault, s.cmd.i, s.cmd.draw))
    /\ s.at = "write" => Done(s, cells)

Holds(s, vaultcells, sealedcells, M, W) ==
  Knows(s, vaultcells) /\ PutsVault(s, vaultcells, M, W) /\ PutsSealed(s, sealedcells)

VaultKept ==
  VaultAtRest /\ members # {} =>
    \E table \in written : file["vault"] = VaultCells(table) /\ Serves(table, members)

SealedAtRest == \A t \in Terminal : ~At(t, "write", "sealed")

SealedKept ==
  SealedAtRest /\ sealed # None =>
    \E v \in OpenVault, d \in 1 .. MaxDraws :
      v.master = sealed.master /\ file["sealed"] = BlobCells(SealedWith(v, sealed.text, d))

SerialInv ==
  /\ Inv
  /\ \A t \in Terminal : Kind(proc[t])
  /\ \A t \in Terminal, u \in Terminal : Writer(proc[t]) /\ Writer(proc[u]) => t = u
  /\ \A t \in Terminal :
       Writer(proc[t]) => Holds(proc[t], file["vault"], file["sealed"], members, written)
  /\ \A table \in written : Uniform(table)
  /\ VaultKept /\ SealedKept

-----------------------------------------------------------------------------
(* Steps                                                                   *)

LEMMA HoldsMore ==
  ASSUME NEW s, NEW c, NEW d, NEW M, NEW W, NEW X, W \subseteq X, Holds(s, c, d, M, W)
  PROVE  Holds(s, c, d, M, X)
BY Zenon DEF Holds, PutsVault

LEMMA TurnsTo ==
  ASSUME Inv, NEW t \in Terminal, NEW s, Goes(t, s)
  PROVE  proc'[t] = s /\ \A u \in Terminal : u # t => proc'[u] = proc[u]
BY DEF Inv, Goes

(* Command t goes on to state s.  If others could notice, it is the writer. *)
LEMMA Turn ==
  ASSUME SerialInv, Inv', NEW t \in Terminal, NEW s, Goes(t, s), Kind(s),
         Writer(s) => \A u \in Terminal : u # t => ~Writer(proc[u]),
         Writer(s) => Holds(s, file'["vault"], file'["sealed"], members', written'),
         \/ Writer(proc[t])
         \/ /\ file'["vault"] = file["vault"] /\ file'["sealed"] = file["sealed"]
            /\ members' = members,
         written \subseteq written', \A table \in written' : Uniform(table),
         VaultKept', SealedKept'
  PROVE  SerialInv'
<1>1. proc'[t] = s /\ \A u \in Terminal : u # t => proc'[u] = proc[u]
  BY TurnsTo DEF SerialInv
<1>2. \A u \in Terminal : Kind(proc'[u])
  BY <1>1, Zenon DEF SerialInv
<1>3. \A x \in Terminal, u \in Terminal : Writer(proc'[x]) /\ Writer(proc'[u]) => x = u
  <2> SUFFICES ASSUME NEW x \in Terminal, NEW u \in Terminal,
                      Writer(proc'[x]), Writer(proc'[u]), x # u
               PROVE  FALSE
    OBVIOUS
  <2>1. CASE x = t
    BY <1>1, <2>1, Zenon
  <2>2. CASE u = t
    BY <1>1, <2>2, Zenon
  <2>3. CASE x # t /\ u # t
    BY <1>1, <2>3, Zenon DEF SerialInv
  <2> QED
    BY <2>1, <2>2, <2>3
<1>4. \A u \in Terminal :
        Writer(proc'[u]) => Holds(proc'[u], file'["vault"], file'["sealed"], members', written')
  <2> SUFFICES ASSUME NEW u \in Terminal, Writer(proc'[u])
               PROVE  Holds(proc'[u], file'["vault"], file'["sealed"], members', written')
    OBVIOUS
  <2>1. CASE u = t
    BY <1>1, <2>1, Zenon
  <2>2. ASSUME u # t  PROVE Holds(proc'[u], file'["vault"], file'["sealed"], members', written')
    <3>1. proc'[u] = proc[u] /\ Writer(proc[u]) /\ ~Writer(proc[t])
      BY <1>1, <2>2, Zenon DEF SerialInv
    <3>2. Holds(proc[u], file["vault"], file["sealed"], members, written)
      BY <3>1, Zenon DEF SerialInv
    <3>3. Holds(proc[u], file["vault"], file["sealed"], members, written')
      BY <3>2, HoldsMore, Zenon
    <3>4. /\ file'["vault"] = file["vault"] /\ file'["sealed"] = file["sealed"]
          /\ members' = members
      BY <3>1, Zenon
    <3> HIDE DEF Holds
    <3> QED
      BY <3>1, <3>3, <3>4
  <2> QED
    BY <2>1, <2>2
<1>. QED
  BY <1>2, <1>3, <1>4 DEF SerialInv

LEMMA KeepVault ==
  ASSUME SerialInv, NEW t \in Terminal, NEW s, Goes(t, s), ~At(t, "write", "vault"),
         file'["vault"] = file["vault"], members' = members, written \subseteq written'
  PROVE  VaultKept'
<1> SUFFICES ASSUME VaultAtRest', members # {}
             PROVE  \E table \in written' :
                      file'["vault"] = VaultCells(table) /\ Serves(table, members')
  BY DEF VaultKept
<1>1. \A u \in Terminal : u # t => proc'[u] = proc[u]
  BY TurnsTo DEF SerialInv
<1>2. VaultAtRest
  BY <1>1 DEF VaultAtRest, At
<1>3. PICK table \in written : file["vault"] = VaultCells(table) /\ Serves(table, members)
  BY <1>2 DEF SerialInv, VaultKept
<1>. QED
  BY <1>3

LEMMA KeepSealed ==
  ASSUME SerialInv, NEW t \in Terminal, NEW s, Goes(t, s), ~At(t, "write", "sealed"),
         file'["sealed"] = file["sealed"], sealed' = sealed
  PROVE  SealedKept'
<1> SUFFICES ASSUME SealedAtRest', sealed # None
             PROVE  \E v \in OpenVault, d \in 1 .. MaxDraws :
                      /\ v.master = sealed'.master
                      /\ file'["sealed"] = BlobCells(SealedWith(v, sealed'.text, d))
  BY DEF SealedKept
<1>1. \A u \in Terminal : u # t => proc'[u] = proc[u]
  BY TurnsTo DEF SerialInv
<1>2. SealedAtRest
  BY <1>1 DEF SealedAtRest, At
<1>3. PICK v \in OpenVault, d \in 1 .. MaxDraws :
        v.master = sealed.master /\ file["sealed"] = BlobCells(SealedWith(v, sealed.text, d))
  BY <1>2 DEF SerialInv, SealedKept
<1>. QED
  BY <1>3

(* A step of a command that reads or computes. *)
LEMMA QuietTurn ==
  ASSUME SerialInv, Inv', NEW t \in Terminal, NEW s, Goes(t, s), Kind(s),
         proc[t].at # "write", UNCHANGED <<file, members, sealed>>,
         Writer(s) => \A u \in Terminal : u # t => ~Writer(proc[u]),
         Writer(s) => Holds(s, file["vault"], file["sealed"], members, written'),
         written \subseteq written', \A table \in written' : Uniform(table)
  PROVE  SerialInv'
<1>1. ~At(t, "write", "vault") /\ ~At(t, "write", "sealed")
  BY DEF At
<1>2. VaultKept'
  BY <1>1, KeepVault
<1>3. SealedKept'
  BY <1>1, KeepSealed
<1>4. Writer(s) => Holds(s, file'["vault"], file'["sealed"], members', written')
  BY Zenon
<1> HIDE DEF Holds, Writer
<1>. QED
  BY <1>2, <1>3, <1>4, Turn

LEMMA IdleKind == Kind(Idle) /\ ~Writer(Idle)
BY DEF Kind, Writer, Idle

(* The command stops where it had written nothing. *)
LEMMA GoesIdle ==
  ASSUME SerialInv, Inv', NEW t \in Terminal, Goes(t, Idle), proc[t].at # "write",
         UNCHANGED <<file, written, members, sealed>>
  PROVE  SerialInv'
BY IdleKind, QuietTurn DEF SerialInv

(* Where a writer is, there is no other. *)
LEMMA WriterAlone ==
  ASSUME SerialInv, NEW t \in Terminal, Writer(proc[t])
  PROVE  \A u \in Terminal : u # t => ~Writer(proc[u])
BY DEF SerialInv

LEMMA StartOnVaultTurn ==
  ASSUME SerialInv, Inv', NEW t \in Terminal, NEW cmd, StartOnVault(t, cmd),
         Writer(proc'[t]) => \A u \in Terminal : ~Writer(proc[u])
  PROVE  SerialInv'
<1> DEFINE s == Reading(cmd, "vault", None)
<1>1. /\ Goes(t, s) /\ proc[t] = Idle /\ UNCHANGED <<file, written, members, sealed>>
  BY DEF StartOnVault
<1>2. s.at = "read" /\ s.path = "vault" /\ s.buf = <<>>
  BY DEF Reading
<1> HIDE DEF s
<1>3. Kind(s)
  BY <1>2 DEF Kind
<1>4. file["vault"] # None => Len(file["vault"]) \in Nat
  BY DEF SerialInv, Inv, FilesInv, Path, Good, IsContents
<1>5. Knows(s, file["vault"])
  BY <1>2, <1>4 DEF Knows
<1>6. Holds(s, file["vault"], file["sealed"], members, written')
  BY <1>2, <1>5 DEF Holds, PutsVault, PutsSealed
<1>7. proc[t].at # "write"
  BY <1>1 DEF Idle
<1>8. Writer(s) => \A u \in Terminal : u # t => ~Writer(proc[u])
  BY <1>1, TurnsTo, Zenon DEF SerialInv
<1>9. \A table \in written' : Uniform(table)
  BY <1>1 DEF SerialInv
<1>. QED
  BY <1>1, <1>3, <1>6, <1>7, <1>8, <1>9, QuietTurn

LEMMA StartInitTurn ==
  ASSUME SerialInv, Inv', NEW t \in Terminal, NEW p \in Passphrase, StartInit(t, p),
         Writer(proc'[t]) => \A u \in Terminal : ~Writer(proc[u])
  PROVE  SerialInv'
<1> DEFINE v     == NewVault(MasterOf(p))
           table == new_initial(v.master, p, draws')
           cmd   == [name |-> "init", p |-> p]
           w     == [v EXCEPT !.slots = table]
           s     == Creating(cmd, "vault", w, VaultCells(table))
<1>1. /\ Goes(t, s) /\ proc[t] = Idle /\ written' = written \cup {table}
      /\ UNCHANGED <<file, members, sealed>>
  BY DEF StartInit
<1>2. Uniform(table) /\ Serves(table, {Member(p, v.master)})
  BY InitialServes
<1>3. w.master = v.master
  BY DEF NewVault
<1> HIDE DEF table, w, v
<1>4. /\ s.at = "create" /\ s.path = "vault" /\ s.data = VaultCells(table)
      /\ s.vault = w /\ s.cmd.name = "init" /\ s.cmd.p = p /\ s.pos = 0
  BY DEF Creating
<1> HIDE DEF s
<1>5. Kind(s)
  BY <1>4 DEF Kind
<1>6. Serves(table, {Given(s)})
  BY <1>2, <1>3, <1>4 DEF Given
<1>7. PutsVault(s, file["vault"], members, written')
  BY <1>1, <1>4, <1>6 DEF PutsVault
<1>8. Holds(s, file["vault"], file["sealed"], members, written')
  BY <1>4, <1>7 DEF Holds, Knows, PutsSealed
<1>9. proc[t].at # "write"
  BY <1>1 DEF Idle
<1>10. Writer(s) => \A u \in Terminal : u # t => ~Writer(proc[u])
  BY <1>1, TurnsTo, Zenon DEF SerialInv
<1>11. written \subseteq written' /\ \A x \in written' : Uniform(x)
  BY <1>1, <1>2 DEF SerialInv
<1>. QED
  BY <1>1, <1>5, <1>8, <1>9, <1>10, <1>11, QuietTurn

LEMMA StartTurn ==
  ASSUME SerialInv, Inv', NEW t \in Terminal, StartAny(t),
         IsWriter(t)' => \A u \in Terminal : ~IsWriter(u)
  PROVE  SerialInv'
<1>1. Writer(proc'[t]) => \A u \in Terminal : ~Writer(proc[u])
  BY DEF IsWriter, Writer
<1>2. ASSUME NEW p \in Passphrase, StartInit(t, p)  PROVE SerialInv'
  BY <1>1, <1>2, StartInitTurn
<1>3. ASSUME NEW p \in Passphrase, NEW n \in Passphrase, StartAdd(t, p, n)
      PROVE  SerialInv'
  BY <1>1, <1>3, StartOnVaultTurn DEF StartAdd
<1>4. ASSUME NEW p \in Passphrase, NEW i \in Plaintext, StartSeal(t, p, i)
      PROVE  SerialInv'
  BY <1>1, <1>4, StartOnVaultTurn DEF StartSeal
<1>5. ASSUME NEW p \in Passphrase, NEW name \in {"verify", "open"}, StartReader(t, name, p)
      PROVE  SerialInv'
  BY <1>1, <1>5, StartOnVaultTurn DEF StartReader
<1>. QED
  BY <1>2, <1>3, <1>4, <1>5 DEF StartAny, StartWriter

LEMMA NotFoundTurn ==
  ASSUME SerialInv, Inv', NEW t \in Terminal, NotFound(t)
  PROVE  SerialInv'
<1>1. Goes(t, Idle) /\ proc[t].at = "read" /\ UNCHANGED <<file, written, members, sealed>>
  BY DEF NotFound
<1>. QED
  BY <1>1, GoesIdle

LEMMA ReadCellTurn ==
  ASSUME SerialInv, Inv', NEW t \in Terminal, ReadCell(t)
  PROVE  SerialInv'
<1> DEFINE cells == file[proc[t].path]
           buf   == proc[t].buf
           cell  == cells[Len(buf) + 1]
           more  == Append(buf, cell)
           s     == [proc[t] EXCEPT !.buf = more]
<1>1. /\ proc[t].at = "read" /\ cells # None /\ Len(buf) < Len(cells) /\ Goes(t, s)
      /\ UNCHANGED <<file, written, members, sealed>>
  BY DEF ReadCell
<1>2. ReadsVault(proc[t], written) \/ ReadsSealed(proc[t], written)
  BY <1>1, Stages DEF SerialInv
<1>3. Good(buf, written) /\ proc[t].path \in Path
  BY <1>2 DEF ReadsVault, ReadsSealed, Path
<1>4. Good(cells, written)
  BY <1>1, <1>3 DEF SerialInv, Inv, FilesInv
<1> DEFINE n == Len(buf)
<1>5. /\ n \in Nat /\ Len(cells) \in Nat
      /\ buf \in Seq(Cell) /\ cell \in Cell
  BY <1>1, <1>3, <1>4 DEF Good, IsContents
<1> HIDE DEF cell
<1>6. /\ Len(more) = n + 1 /\ more[n + 1] = cell
      /\ \A k \in 1 .. n : more[k] = buf[k]
  BY <1>5
<1> HIDE DEF more
<1>7. /\ s.at = "read" /\ s.cmd = proc[t].cmd /\ s.path = proc[t].path
      /\ s.buf = more
  BY <1>1, <1>2 DEF ReadsVault, ReadsSealed
<1> HIDE DEF s
<1>8. Kind(proc[t])
  BY DEF SerialInv
<1>9. Kind(s)
  BY <1>1, <1>7, <1>8 DEF Kind
<1>10. proc[t] # Idle
  BY <1>1 DEF Idle
<1>11. Writer(s) => Writer(proc[t])
  BY <1>7, <1>10 DEF Writer
<1>12. ASSUME Writer(s)  PROVE Knows(s, file["vault"])
  <2> SUFFICES ASSUME s.path = "vault", file["vault"] # None
               PROVE  /\ Len(more) <= Len(file["vault"])
                      /\ \A k \in 1 .. Len(more) : more[k] = file["vault"][k]
    BY <1>7 DEF Knows
  <2>1. cells = file["vault"]
    BY <1>7
  <2>2. Knows(proc[t], file["vault"])
    BY <1>11, <1>12, Zenon DEF SerialInv, Holds
  <2>3. \A k \in 1 .. n : buf[k] = cells[k]
    BY <1>1, <1>7, <2>1, <2>2 DEF Knows
  <2>4. cell = cells[n + 1]
    BY DEF cell
  <2> HIDE DEF n, buf, cells
  <2>5. n + 1 <= Len(cells) /\ 1 .. n + 1 = (1 .. n) \cup {n + 1}
    BY <1>1, <1>5 DEF n
  <2>6. \A k \in 1 .. n + 1 : more[k] = cells[k]
    BY <1>6, <2>3, <2>4, <2>5
  <2> QED
    BY <1>6, <2>1, <2>5, <2>6
<1>13. Writer(s) => Holds(s, file["vault"], file["sealed"], members, written')
  BY <1>7, <1>12 DEF Holds, PutsVault, PutsSealed
<1>14. Writer(s) => \A u \in Terminal : u # t => ~Writer(proc[u])
  BY <1>11, WriterAlone
<1>15. \A table \in written' : Uniform(table)
  BY <1>1 DEF SerialInv
<1>. QED
  BY <1>1, <1>9, <1>13, <1>14, <1>15, QuietTurn

LEMMA EndVaultTurn ==
  ASSUME SerialInv, Inv', NEW t \in Terminal, EndVault(t)
  PROVE  SerialInv'
<1> DEFINE cells == file["vault"]
           buf   == proc[t].buf
           s     == Opening(proc[t].cmd, buf)
<1>1. /\ proc[t].at = "read" /\ proc[t].path = "vault" /\ cells # None
      /\ Len(buf) >= Len(cells)
      /\ Goes(t, IF IsVault(buf) THEN s ELSE Idle)
      /\ UNCHANGED <<file, written, members, sealed>>
  BY DEF EndVault, HasRead, At, AtEnd
<1>2. CASE ~IsVault(buf)
  BY <1>1, <1>2, GoesIdle
<1>3. ASSUME IsVault(buf)  PROVE SerialInv'
  <2>1. Goes(t, s)
    BY <1>1, <1>3
  <2>2. /\ s.at = "opening" /\ s.cmd = proc[t].cmd /\ s.bytes = VaultBytes(buf)
        /\ s.header_salt = buf[1].header_salt
    BY DEF Opening
  <2> HIDE DEF s
  <2>3. Kind(s)
    BY <2>2 DEF Kind
  <2>4. Writer(s) => Writer(proc[t])
    BY <1>1, <2>2 DEF Writer, Idle
  <2>5. ASSUME Writer(s)  PROVE buf = cells
    <3>1. Knows(proc[t], cells)
      BY <2>4, <2>5, Zenon DEF SerialInv, Holds
    <3>2. ReadsVault(proc[t], written) \/ ReadsSealed(proc[t], written)
      BY <1>1, Stages DEF SerialInv
    <3>3. Good(buf, written) /\ Good(cells, written)
      BY <1>1, <3>2 DEF ReadsVault, ReadsSealed, SerialInv, Inv, FilesInv, Path
    <3>4. buf \in Seq(Cell) /\ cells \in Seq(Cell)
      BY <3>3 DEF Good, IsContents
    <3>5. Len(buf) <= Len(cells) /\ \A k \in 1 .. Len(buf) : buf[k] = cells[k]
      BY <1>1, <3>1 DEF Knows
    <3> HIDE DEF buf, cells
    <3>6. Len(buf) \in Nat /\ Len(cells) \in Nat
      BY <3>4
    <3>7. Len(buf) = Len(cells)
      BY <1>1, <3>5, <3>6
    <3> QED
      BY <3>4, <3>5, <3>7, SeqEqual
  <2>6. Writer(s) => Holds(s, file["vault"], file["sealed"], members, written')
    BY <1>1, <1>3, <2>2, <2>5 DEF Holds, Knows, PutsVault, PutsSealed
  <2>7. Writer(s) => \A u \in Terminal : u # t => ~Writer(proc[u])
    BY <2>4, WriterAlone
  <2>8. \A table \in written' : Uniform(table)
    BY <1>1 DEF SerialInv
  <2> QED
    BY <1>1, <2>1, <2>3, <2>6, <2>7, <2>8, QuietTurn
<1>. QED
  BY <1>2, <1>3

LEMMA WritesVault ==
  ASSUME SerialInv, NEW t \in Terminal, At(t, "write", "vault") \/ At(t, "write", "sealed")
  PROVE  Writer(proc[t])
<1>1. Kind(proc[t])
  BY DEF SerialInv
<1>. QED
  BY <1>1 DEF Kind, Writer, At, Idle

LEMMA OpenedVerified ==
  ASSUME NEW bytes, NEW salt, NEW p, NEW o, OpenTable(bytes, salt, p).ok,
         o = OpenTable(bytes, salt, p).val
  PROVE  o.table.verifier = volume_verifier(o.master)
<1> DEFINE parsed   == from_bytes(bytes, salt)
           unsealed == unseal_with(parsed.val, p)
<1>1. OpenTable(bytes, salt, p)
        = IF ~parsed.ok THEN parsed
          ELSE IF ~unsealed.ok THEN unsealed
          ELSE IF volume_verifier(unsealed.val.master) # parsed.val.verifier
          THEN Err("VolumeMismatch")
          ELSE Ok([master |-> unsealed.val.master, table |-> parsed.val])
  BY DEF OpenTable
<1> HIDE DEF parsed, unsealed
<1>. QED
  BY <1>1 DEF Ok, Err

(* A writer that opens the vault has the table of the file in front of it. *)
LEMMA OpenedServes ==
  ASSUME SerialInv, NEW t \in Terminal, Writer(proc[t]), proc[t].at = "opening", OpenedBy(t).ok
  PROVE  Serves(OpenedBy(t).val.table, members)
<1> DEFINE opened == OpenedBy(t).val
           bytes  == proc[t].bytes
           salt   == proc[t].header_salt
<1>1. CASE members = {}
  BY <1>1 DEF Serves
<1>2. ASSUME members # {}  PROVE Serves(opened.table, members)
  <2>1. VaultAtRest
    <3> SUFFICES ASSUME NEW u \in Terminal, At(u, "write", "vault")  PROVE FALSE
      BY DEF VaultAtRest
    <3>1. Writer(proc[u]) /\ u # t
      BY WritesVault DEF At
    <3> QED
      BY <3>1, WriterAlone
  <2>2. PICK table \in written : file["vault"] = VaultCells(table) /\ Serves(table, members)
    BY <1>2, <2>1 DEF SerialInv, VaultKept
  <2>3. table \in Table /\ Len(table.slots) \in 1 .. MAX_SLOTS
    BY DEF SerialInv, Inv, WrittenInv
  <2>4. Knows(proc[t], file["vault"])
    BY Zenon DEF SerialInv, Holds
  <2>5. bytes = to_bytes(table) /\ salt = table.header_salt
    BY <2>2, <2>3, <2>4, ReadBack DEF Knows
  <2>6. OpenTable(bytes, salt, proc[t].cmd.p).ok
    BY DEF OpenedBy
  <2>7. opened.table = [header_salt |-> salt, slots |-> bytes.body.slots,
                        verifier |-> bytes.body.verifier]
    BY <2>6, OpenedParts DEF OpenedBy
  <2>8. bytes.body = [slots |-> table.slots, verifier |-> table.verifier]
    BY <2>5 DEF to_bytes
  <2>9. table = [header_salt |-> table.header_salt, slots |-> table.slots,
                 verifier |-> table.verifier]
    BY <2>3 DEF Table
  <2> HIDE DEF opened, bytes, salt
  <2>10. opened.table = table
    BY <2>5, <2>7, <2>8, <2>9
  <2> QED
    BY <2>2, <2>10
<1>. QED
  BY <1>1, <1>2

LEMMA AddTurn ==
  ASSUME SerialInv, Inv', NEW t \in Terminal, proc[t].at = "opening", OpenedBy(t).ok,
         Add(t, VaultFrom(OpenedBy(t).val, proc[t].cmd.p)), UNCHANGED <<file, members, sealed>>
  PROVE  SerialInv'
<1> DEFINE opened == OpenedBy(t).val
           cmd    == proc[t].cmd
           v      == VaultFrom(opened, cmd.p)
           added  == table_add_slot(v.slots, v.master, cmd.n, cmd.draw)
           table  == added.val.table
           w      == [v EXCEPT !.slots = table]
           s      == Creating(cmd, "vault", w, VaultCells(table))
<1>1. CASE ~added.ok
  BY <1>1, GoesIdle DEF Add
<1>2. ASSUME added.ok  PROVE SerialInv'
  <2>1. Goes(t, s) /\ written' = written \cup {table} /\ cmd.name = "add"
    BY <1>2 DEF Add
  <2>2. cmd \in Cmd
    BY Stages DEF SerialInv, OpensVault
  <2>3. cmd.n \in Passphrase /\ cmd.draw \in 1 .. MaxDraws
    BY <2>1, <2>2 DEF Cmd
  <2>4. opened.table \in written /\ v \in OpenVault
    BY OpenedVault DEF SerialInv
  <2>5. v = [master |-> opened.master, hierarchy |-> from_master(opened.master),
             slots |-> opened.table]
    BY VaultMade
  <2>6. v.master = opened.master /\ v.slots = opened.table /\ DOMAIN v = {"master", "hierarchy", "slots"}
    BY <2>5
  <2>7. v.master \in Master
    <3>1. \A x \in OpenVault : x.master \in Master
      BY DEF OpenVault
    <3> QED
      BY <2>4, <3>1, Zenon
  <2>8. v.slots \in Table /\ Uniform(v.slots)
    BY <2>4, <2>6 DEF SerialInv, Inv, WrittenInv
  <2>9. v.slots.verifier = volume_verifier(v.master)
    <3>1. OpenTable(proc[t].bytes, proc[t].header_salt, proc[t].cmd.p).ok
      BY DEF OpenedBy
    <3>2. opened = OpenTable(proc[t].bytes, proc[t].header_salt, proc[t].cmd.p).val
      BY DEF OpenedBy
    <3> HIDE DEF opened, v
    <3>3. opened.table.verifier = volume_verifier(opened.master)
      BY <3>1, <3>2, OpenedVerified
    <3> QED
      BY <2>6, <3>3
  <2>10. Writer(proc[t])
    <3>1. proc[t].cmd.name = "add"
      BY DEF Add
    <3>2. proc[t] # Idle
      BY DEF Idle
    <3> QED
      BY <3>1, <3>2 DEF Writer
  <2>11. Serves(v.slots, members)
    BY <2>6, <2>10, OpenedServes
  <2> HIDE DEF v
  <2>12. /\ Uniform(table) /\ Serves(table, {Member(cmd.n, v.master)})
         /\ Serves(table, members)
    BY <1>2, <2>3, <2>7, <2>8, <2>9, <2>11, AddedServes
  <2> HIDE DEF table, cmd
  <2>13. w.master = v.master
    BY <2>6
  <2> HIDE DEF w
  <2>14. /\ s.at = "create" /\ s.path = "vault" /\ s.data = VaultCells(table)
         /\ s.vault = w /\ s.cmd = cmd /\ s.pos = 0
    BY DEF Creating
  <2> HIDE DEF s
  <2>15. Kind(s)
    BY <2>1, <2>14 DEF Kind
  <2>16. Serves(table, {Given(s)})
    BY <2>1, <2>12, <2>13, <2>14 DEF Given
  <2>17. PutsVault(s, file["vault"], members, written')
    BY <2>1, <2>12, <2>14, <2>16 DEF PutsVault
  <2>18. Holds(s, file["vault"], file["sealed"], members, written')
    BY <2>14, <2>17 DEF Holds, Knows, PutsSealed
  <2>19. \A u \in Terminal : u # t => ~Writer(proc[u])
    BY <2>10, WriterAlone
  <2>20. written \subseteq written' /\ \A x \in written' : Uniform(x)
    BY <2>1, <2>12 DEF SerialInv
  <2> QED
    BY <2>1, <2>15, <2>18, <2>19, <2>20, QuietTurn
<1>. QED
  BY <1>1, <1>2

LEMMA UseVaultTurn ==
  ASSUME SerialInv, Inv', NEW t \in Terminal, UseVault(t)
  PROVE  SerialInv'
<1> DEFINE cmd == proc[t].cmd
<1>1. proc[t].at = "opening" /\ UNCHANGED <<file, members, sealed>>
  BY DEF UseVault
<1>2. ASSUME Goes(t, Idle), UNCHANGED written  PROVE SerialInv'
  BY <1>1, <1>2, GoesIdle
<1>3. ASSUME OpenedBy(t).ok, Add(t, VaultFrom(OpenedBy(t).val, cmd.p))  PROVE SerialInv'
  BY <1>1, <1>3, AddTurn
<1>4. ASSUME NEW v, UseOpened(t, v)  PROVE SerialInv'
  <2>1. UNCHANGED written /\ \A table \in written' : Uniform(table)
    BY <1>4 DEF UseOpened, SerialInv
  <2>2. CASE Goes(t, Idle)
    BY <1>2, <2>1, <2>2
  <2>3. ASSUME cmd.name = "open", Goes(t, Reading(cmd, "sealed", v))  PROVE SerialInv'
    <3> DEFINE s == Reading(cmd, "sealed", v)
    <3>1. s.at = "read" /\ s.path = "sealed" /\ s.cmd = cmd
      BY DEF Reading
    <3> HIDE DEF s, cmd
    <3>2. Kind(s) /\ ~Writer(s)
      BY <2>3, <3>1 DEF Kind, Writer
    <3> QED
      BY <1>1, <2>1, <2>3, <3>2, QuietTurn DEF s
  <2>4. ASSUME cmd.name = "seal",
               Goes(t, Creating(cmd, "sealed", v, BlobCells(SealedWith(v, cmd.i, cmd.draw))))
        PROVE  SerialInv'
    <3> DEFINE data == BlobCells(SealedWith(v, cmd.i, cmd.draw))
               s    == Creating(cmd, "sealed", v, data)
    <3>1. Goes(t, s)
      BY <2>4
    <3> HIDE DEF data
    <3>2. /\ s.at = "create" /\ s.path = "sealed" /\ s.cmd = cmd /\ s.vault = v
          /\ s.data = data /\ s.pos = 0
      BY DEF Creating
    <3> HIDE DEF s
    <3>3. Kind(s)
      BY <2>4, <3>2 DEF Kind
    <3>4. Holds(s, file["vault"], file["sealed"], members, written')
      BY <3>2 DEF Holds, Knows, PutsVault, PutsSealed, data
    <3>5. Writer(proc[t])
      BY <1>1, <2>4 DEF Writer, Idle
    <3>6. \A u \in Terminal : u # t => ~Writer(proc[u])
      BY <3>5, WriterAlone
    <3> QED
      BY <1>1, <2>1, <3>1, <3>3, <3>4, <3>6, QuietTurn
  <2> QED
    BY <1>4, <2>2, <2>3, <2>4 DEF UseOpened
<1>. QED
  BY <1>2, <1>3, <1>4 DEF UseVault

LEMMA DecryptTurn ==
  ASSUME SerialInv, Inv', NEW t \in Terminal, Decrypt(t)
  PROVE  SerialInv'
<1> DEFINE opened == UnsealedWith(proc[t].vault, proc[t].buf)
           data   == <<[part |-> "text", text |-> opened.val]>>
           s      == Creating(proc[t].cmd, "plain", proc[t].vault, data)
<1>1. /\ proc[t].at = "read" /\ proc[t].path = "sealed"
      /\ Goes(t, IF opened.ok THEN s ELSE Idle)
      /\ UNCHANGED <<file, written, members, sealed>>
  BY DEF Decrypt, HasRead, At
<1> HIDE DEF opened, data
<1>2. Kind(proc[t])
  BY DEF SerialInv
<1>3. s.at = "create" /\ s.path = "plain" /\ s.cmd = proc[t].cmd /\ s.pos = 0
  BY DEF Creating
<1> HIDE DEF s
<1>4. Kind(s) /\ ~Writer(s)
  BY <1>1, <1>2, <1>3 DEF Kind, Writer
<1>5. \A table \in written' : Uniform(table)
  BY <1>1 DEF SerialInv
<1>6. CASE opened.ok
  BY <1>1, <1>4, <1>5, <1>6, QuietTurn
<1>7. CASE ~opened.ok
  BY <1>1, <1>7, GoesIdle
<1>. QED
  BY <1>6, <1>7

-----------------------------------------------------------------------------
(* Writing                                                                 *)

LEMMA WriteParts ==
  ASSUME SerialInv, NEW t \in Terminal, proc[t].at \in {"create", "write"}
  PROVE  /\ Kind(proc[t]) /\ Writes(proc[t], written)
         /\ proc[t].path \in Path /\ proc[t].cmd \in Cmd /\ proc[t].vault \in OpenVault
         /\ proc[t].data \in Seq(Cell) /\ Len(proc[t].data) \in Nat
         /\ proc[t].pos \in 0 .. Len(proc[t].data) - 1
         /\ proc[t] # Idle
<1>1. Kind(proc[t])
  BY DEF SerialInv
<1>2. Writes(proc[t], written)
  BY Stages DEF SerialInv
<1>3. proc[t] # Idle
  BY DEF Idle
<1>. QED
  BY <1>1, <1>2, <1>3 DEF Writes, Good, IsContents

(* What is in a file that a command has emptied, and in one that it wrote a
   cell more of. *)
LEMMA OtherFiles ==
  ASSUME SerialInv, NEW path \in Path, NEW cells, file' = [file EXCEPT ![path] = cells]
  PROVE  file'[path] = cells /\ \A q \in Path : q # path => file'[q] = file[q]
BY DEF SerialInv, Inv, FilesInv

LEMMA PutDone ==
  ASSUME NEW s, NEW cells, Done(s, cells), s.pos \in Nat
  PROVE  LET put == Put(cells, s.pos + 1, s.data[s.pos + 1])
         IN  /\ Len(put) = s.pos + 1
             /\ \A k \in 1 .. s.pos + 1 : put[k] = s.data[k]
<1> DEFINE n   == s.pos + 1
           put == Put(cells, n, s.data[n])
<1>1. n \in Nat /\ Len(cells) = s.pos /\ n > Len(cells) /\ n > s.pos
  BY DEF Done
<1>2. put = [i \in 1 .. n |->
               CASE i = n                     -> s.data[n]
                 [] i # n /\ i <= Len(cells)  -> cells[i]
                 [] i # n /\ i > Len(cells)   -> Zeros]
  BY <1>1 DEF Put
<1>3. Len(put) = n
  BY <1>1, <1>2
<1>4. \A k \in 1 .. s.pos : cells[k] = s.data[k]
  BY DEF Done
<1>5. ASSUME NEW k \in 1 .. n  PROVE put[k] = s.data[k]
  <2>1. CASE k = n
    BY <1>2, <2>1
  <2>2. CASE k # n
    <3>1. k \in 1 .. s.pos /\ k <= Len(cells)
      BY <1>1, <2>2
    <3>2. put[k] = cells[k]
      BY <1>2, <2>2, <3>1
    <3> QED
      BY <1>4, <3>1, <3>2
  <2> QED
    BY <2>1, <2>2
<1>. QED
  BY <1>3, <1>5

(* open writes its text: nobody else looks at it. *)
LEMMA PlainTurn ==
  ASSUME SerialInv, Inv', NEW t \in Terminal, NEW s, Goes(t, s), Kind(s), ~Writer(s),
         proc[t].path = "plain", NEW cells, file' = [file EXCEPT !["plain"] = cells],
         UNCHANGED <<written, members, sealed>>
  PROVE  SerialInv'
<1>1. file'["vault"] = file["vault"] /\ file'["sealed"] = file["sealed"]
  BY OtherFiles DEF Path
<1>2. ~At(t, "write", "vault") /\ ~At(t, "write", "sealed")
  BY DEF At
<1>3. VaultKept'
  BY <1>1, <1>2, KeepVault
<1>4. SealedKept'
  BY <1>1, <1>2, KeepSealed
<1>5. \A table \in written' : Uniform(table)
  BY DEF SerialInv
<1> HIDE DEF Writer, Kind
<1>. QED
  BY <1>1, <1>3, <1>4, <1>5, Turn

LEMMA CreateFileTurn ==
  ASSUME SerialInv, Inv', NEW t \in Terminal, CreateFile(t)
  PROVE  SerialInv'
<1> DEFINE cmd  == proc[t].cmd
           path == proc[t].path
           s    == [proc[t] EXCEPT !.at = "write"]
<1>1. /\ proc[t].at = "create" /\ Goes(t, s) /\ UNCHANGED written
      /\ file' = [file EXCEPT ![path] = <<>>]
      /\ members' = IF cmd.name = "init" THEN {} ELSE members
      /\ sealed' = IF path = "sealed" THEN None ELSE sealed
  BY DEF CreateFile, Truncated
<1>2. Kind(proc[t]) /\ Writes(proc[t], written) /\ path \in Path /\ proc[t] # Idle
  BY <1>1, WriteParts
<1>3. /\ s.at = "write" /\ s.cmd = cmd /\ s.path = path /\ s.vault = proc[t].vault
      /\ s.data = proc[t].data /\ s.pos = 0
  BY <1>1, <1>2 DEF Writes, Kind
<1> HIDE DEF s
<1>4. Kind(s)
  BY <1>1, <1>2, <1>3 DEF Kind
<1>5. file'[path] = <<>> /\ \A q \in Path : q # path => file'[q] = file[q]
  BY <1>1, <1>2, OtherFiles
<1>6. Done(s, <<>>)
  BY <1>3 DEF Done
<1>7. \A table \in written' : Uniform(table)
  BY <1>1 DEF SerialInv
<1>8. proc'[t] = s
  BY <1>1, TurnsTo DEF SerialInv
<1>9. ~At(t, "write", "vault") /\ ~At(t, "write", "sealed")
  BY <1>1 DEF At
<1>10. Given(s) = Given(proc[t])
  BY <1>3 DEF Given
<1>11. CASE path = "vault" /\ cmd.name \in {"init", "add"}
  <2>1. Writer(proc[t])
    BY <1>2, <1>11 DEF Writer
  <2>2. \A u \in Terminal : u # t => ~Writer(proc[u])
    BY <2>1, WriterAlone
  <2>3. PutsVault(proc[t], file["vault"], members, written)
    BY <2>1, Zenon DEF SerialInv, Holds
  <2>4. PICK table \in written :
          /\ proc[t].data = VaultCells(table)
          /\ Serves(table, {Given(proc[t])})
          /\ cmd.name = "add" => Serves(table, members)
    BY <1>1, <1>11, <2>3 DEF PutsVault
  <2>5. Serves(table, members')
    BY <1>1, <1>11, <2>4 DEF Serves
  <2>6. PutsVault(s, file'["vault"], members', written')
    BY <1>1, <1>3, <1>5, <1>6, <1>10, <1>11, <2>4, <2>5 DEF PutsVault
  <2>7. Holds(s, file'["vault"], file'["sealed"], members', written')
    BY <1>3, <1>11, <2>6 DEF Holds, Knows, PutsSealed
  <2>8. VaultKept'
    BY <1>3, <1>8, <1>11 DEF VaultKept, VaultAtRest, At
  <2>9. SealedKept'
    BY <1>1, <1>5, <1>9, <1>11, KeepSealed DEF Path
  <2> QED
    BY <1>1, <1>4, <1>7, <2>1, <2>2, <2>7, <2>8, <2>9, Turn
<1>12. CASE path = "sealed" /\ cmd.name = "seal"
  <2>1. Writer(proc[t])
    BY <1>2, <1>12 DEF Writer
  <2>2. \A u \in Terminal : u # t => ~Writer(proc[u])
    BY <2>1, WriterAlone
  <2>3. PutsSealed(proc[t], file["sealed"])
    BY <2>1, Zenon DEF SerialInv, Holds
  <2>4. proc[t].data = BlobCells(SealedWith(proc[t].vault, cmd.i, cmd.draw))
    BY <1>1, <1>12, <2>3 DEF PutsSealed
  <2>5. PutsSealed(s, file'["sealed"])
    BY <1>3, <1>5, <1>6, <1>12, <2>4 DEF PutsSealed
  <2>6. Holds(s, file'["vault"], file'["sealed"], members', written')
    BY <1>3, <1>12, <2>5 DEF Holds, Knows, PutsVault
  <2>7. SealedKept'
    BY <1>3, <1>8, <1>12 DEF SealedKept, SealedAtRest, At
  <2>8. VaultKept'
    BY <1>1, <1>5, <1>9, <1>12, KeepVault DEF Path
  <2> QED
    BY <1>1, <1>4, <1>7, <2>1, <2>2, <2>6, <2>7, <2>8, Turn
<1>13. CASE path = "plain" /\ cmd.name = "open"
  <2>1. ~Writer(s)
    BY <1>3, <1>13 DEF Writer
  <2>2. UNCHANGED <<written, members, sealed>> /\ file' = [file EXCEPT !["plain"] = <<>>]
    BY <1>1, <1>13
  <2> QED
    BY <1>1, <1>4, <1>13, <2>1, <2>2, PlainTurn
<1>. QED
  BY <1>1, <1>2, <1>11, <1>12, <1>13 DEF Kind

LEMMA WriteCellTurn ==
  ASSUME SerialInv, Inv', NEW t \in Terminal, WriteCell(t)
  PROVE  SerialInv'
<1> DEFINE cmd   == proc[t].cmd
           path  == proc[t].path
           pos   == proc[t].pos + 1
           cells == Put(file[path], pos, proc[t].data[pos])
           s     == [proc[t] EXCEPT !.pos = @ + 1]
<1>1. /\ proc[t].at = "write" /\ Goes(t, s) /\ UNCHANGED <<written, members, sealed>>
      /\ file' = [file EXCEPT ![path] = cells]
  BY DEF WriteCell, PutNext
<1>2. /\ Kind(proc[t]) /\ Writes(proc[t], written) /\ path \in Path /\ proc[t] # Idle
      /\ proc[t].pos \in Nat
  BY <1>1, WriteParts
<1>3. /\ s.at = "write" /\ s.cmd = cmd /\ s.path = path /\ s.vault = proc[t].vault
      /\ s.data = proc[t].data /\ s.pos = pos
  BY <1>1, <1>2 DEF Writes
<1>4. Done(proc[t], file[path]) => Done(s, cells)
  <2>1. Done(proc[t], file[path]) =>
          Len(cells) = pos /\ \A k \in 1 .. pos : cells[k] = proc[t].data[k]
    BY <1>2, PutDone
  <2> HIDE DEF s, cells, pos
  <2> QED
    BY <1>3, <2>1 DEF Done
<1> HIDE DEF s, cells
<1>5. Kind(s)
  BY <1>1, <1>2, <1>3 DEF Kind
<1>6. file'[path] = cells /\ \A q \in Path : q # path => file'[q] = file[q]
  BY <1>1, <1>2, OtherFiles
<1>7. \A table \in written' : Uniform(table)
  BY <1>1 DEF SerialInv
<1>8. proc'[t] = s
  BY <1>1, TurnsTo DEF SerialInv
<1>9. Given(s) = Given(proc[t])
  BY <1>3 DEF Given
<1>10. CASE path = "vault" /\ cmd.name \in {"init", "add"}
  <2>1. Writer(proc[t])
    BY <1>2, <1>10 DEF Writer
  <2>2. \A u \in Terminal : u # t => ~Writer(proc[u])
    BY <2>1, WriterAlone
  <2>3. PutsVault(proc[t], file["vault"], members, written)
    BY <2>1, Zenon DEF SerialInv, Holds
  <2>4. PICK table \in written :
          /\ proc[t].data = VaultCells(table)
          /\ Serves(table, {Given(proc[t])}) /\ Serves(table, members)
          /\ Done(proc[t], file["vault"])
    BY <1>1, <1>10, <2>3 DEF PutsVault
  <2>5. PutsVault(s, file'["vault"], members', written')
    BY <1>1, <1>3, <1>4, <1>6, <1>9, <1>10, <2>4 DEF PutsVault
  <2>6. Holds(s, file'["vault"], file'["sealed"], members', written')
    BY <1>3, <1>10, <2>5 DEF Holds, Knows, PutsSealed
  <2>7. VaultKept'
    BY <1>3, <1>8, <1>10 DEF VaultKept, VaultAtRest, At
  <2>8. ~At(t, "write", "sealed")
    BY <1>10 DEF At
  <2>9. SealedKept'
    BY <1>1, <1>6, <1>10, <2>8, KeepSealed DEF Path
  <2> QED
    BY <1>1, <1>5, <1>7, <2>1, <2>2, <2>6, <2>7, <2>9, Turn
<1>11. CASE path = "sealed" /\ cmd.name = "seal"
  <2>1. Writer(proc[t])
    BY <1>2, <1>11 DEF Writer
  <2>2. \A u \in Terminal : u # t => ~Writer(proc[u])
    BY <2>1, WriterAlone
  <2>3. PutsSealed(proc[t], file["sealed"])
    BY <2>1, Zenon DEF SerialInv, Holds
  <2>4. PutsSealed(s, file'["sealed"])
    BY <1>1, <1>3, <1>4, <1>6, <1>11, <2>3 DEF PutsSealed
  <2>5. Holds(s, file'["vault"], file'["sealed"], members', written')
    BY <1>3, <1>11, <2>4 DEF Holds, Knows, PutsVault
  <2>6. SealedKept'
    BY <1>3, <1>8, <1>11 DEF SealedKept, SealedAtRest, At
  <2>7. ~At(t, "write", "vault")
    BY <1>11 DEF At
  <2>8. VaultKept'
    BY <1>1, <1>6, <1>11, <2>7, KeepVault DEF Path
  <2> QED
    BY <1>1, <1>5, <1>7, <2>1, <2>2, <2>5, <2>6, <2>8, Turn
<1>12. CASE path = "plain" /\ cmd.name = "open"
  <2>1. ~Writer(s)
    BY <1>3, <1>12 DEF Writer
  <2> QED
    BY <1>1, <1>5, <1>12, <2>1, PlainTurn
<1>. QED
  BY <1>1, <1>2, <1>10, <1>11, <1>12 DEF Kind

(* A file to which the last cell is written holds all the data. *)
LEMMA WrittenWhole ==
  ASSUME SerialInv, NEW t \in Terminal, Finish(t), Done(proc[t], file[proc[t].path])
  PROVE  file'[proc[t].path] = proc[t].data
<1> DEFINE path  == proc[t].path
           pos   == proc[t].pos + 1
           data  == proc[t].data
           cells == Put(file[path], pos, data[pos])
<1>1. /\ proc[t].at = "write" /\ pos = Len(data) /\ UNCHANGED written
      /\ file' = [file EXCEPT ![path] = cells]
  BY DEF Finish, PutNext
<1>2. path \in Path /\ data \in Seq(Cell) /\ Len(data) \in Nat /\ proc[t].pos \in Nat
  BY <1>1, WriteParts
<1>3. Len(cells) = pos /\ \A k \in 1 .. pos : cells[k] = data[k]
  BY <1>2, PutDone
<1>4. file'[path] = cells
  BY <1>1, <1>2, OtherFiles
<1>5. cells \in Seq(Cell)
  <2>1. Good(file[path], written)
    BY <1>1, Stages DEF SerialInv
  <2>2. Good(data, written)
    BY <1>1, WriteParts DEF Writes
  <2>3. pos \in 1 .. Len(data)
    BY <1>1, <1>2
  <2>4. Good(cells, written)
    BY <2>1, <2>2, <2>3, GoodPut
  <2> QED
    BY <2>4 DEF Good, IsContents
<1> HIDE DEF cells, data, pos
<1>6. cells = data
  BY <1>1, <1>2, <1>3, <1>5, SeqEqual
<1>. QED
  BY <1>4, <1>6 DEF data

LEMMA FinishTurn ==
  ASSUME SerialInv, Inv', NEW t \in Terminal, Finish(t)
  PROVE  SerialInv'
<1> DEFINE cmd    == proc[t].cmd
           path   == proc[t].path
           pos    == proc[t].pos + 1
           cells  == Put(file[path], pos, proc[t].data[pos])
           master == proc[t].vault.master
<1>1. /\ proc[t].at = "write" /\ Goes(t, Idle) /\ UNCHANGED written
      /\ file' = [file EXCEPT ![path] = cells]
      /\ members' = CASE cmd.name = "init" -> {Member(cmd.p, master)}
                      [] cmd.name = "add"  -> members \cup {Member(cmd.n, master)}
                      [] OTHER             -> members
      /\ sealed' = IF cmd.name = "seal" THEN [text |-> cmd.i, master |-> master] ELSE sealed
  BY DEF Finish, PutNext
<1>2. /\ Kind(proc[t]) /\ path \in Path /\ cmd \in Cmd /\ proc[t].vault \in OpenVault
      /\ proc[t] # Idle
  BY <1>1, WriteParts
<1> HIDE DEF cells
<1>3. \A q \in Path : q # path => file'[q] = file[q]
  BY <1>1, <1>2, OtherFiles
<1>4. \A table \in written' : Uniform(table)
  BY <1>1 DEF SerialInv
<1>5. Kind(Idle) /\ ~Writer(Idle)
  BY IdleKind
<1>6. CASE path = "vault" /\ cmd.name \in {"init", "add"}
  <2>1. Writer(proc[t])
    BY <1>2, <1>6 DEF Writer
  <2>2. PutsVault(proc[t], file["vault"], members, written)
    BY <2>1, Zenon DEF SerialInv, Holds
  <2>3. PICK table \in written :
          /\ proc[t].data = VaultCells(table)
          /\ Serves(table, {Given(proc[t])}) /\ Serves(table, members)
          /\ Done(proc[t], file["vault"])
    BY <1>1, <1>6, <2>2 DEF PutsVault
  <2>4. file'["vault"] = VaultCells(table)
    BY <1>6, <2>3, WrittenWhole
  <2>5. members' \subseteq members \cup {Given(proc[t])}
    BY <1>1, <1>6 DEF Given
  <2>6. Serves(table, members')
    BY <2>3, <2>5 DEF Serves
  <2>7. VaultKept'
    BY <1>1, <2>4, <2>6 DEF VaultKept
  <2>8. ~At(t, "write", "sealed")
    BY <1>6 DEF At
  <2>9. sealed' = sealed
    BY <1>1, <1>6
  <2>10. SealedKept'
    BY <1>1, <1>3, <1>6, <2>8, <2>9, KeepSealed DEF Path
  <2> QED
    BY <1>1, <1>4, <1>5, <2>1, <2>7, <2>10, Turn
<1>7. CASE path = "sealed" /\ cmd.name = "seal"
  <2>1. Writer(proc[t])
    BY <1>2, <1>7 DEF Writer
  <2>2. PutsSealed(proc[t], file["sealed"])
    BY <2>1, Zenon DEF SerialInv, Holds
  <2>3. /\ proc[t].data = BlobCells(SealedWith(proc[t].vault, cmd.i, cmd.draw))
        /\ Done(proc[t], file["sealed"])
    BY <1>1, <1>7, <2>2 DEF PutsSealed
  <2>4. file'["sealed"] = BlobCells(SealedWith(proc[t].vault, cmd.i, cmd.draw))
    BY <1>7, <2>3, WrittenWhole
  <2>5. sealed'.text = cmd.i /\ sealed'.master = master
    BY <1>1, <1>7
  <2>6. cmd.draw \in 1 .. MaxDraws
    BY <1>2, <1>7 DEF Cmd
  <2>7. SealedKept'
    BY <1>2, <2>4, <2>5, <2>6 DEF SealedKept
  <2>8. ~At(t, "write", "vault")
    BY <1>7 DEF At
  <2>9. members' = members
    BY <1>1, <1>7
  <2>10. VaultKept'
    BY <1>1, <1>3, <1>7, <2>8, <2>9, KeepVault DEF Path
  <2> QED
    BY <1>1, <1>4, <1>5, <2>1, <2>7, <2>10, Turn
<1>8. CASE path = "plain" /\ cmd.name = "open"
  <2>1. UNCHANGED <<written, members, sealed>> /\ file' = [file EXCEPT !["plain"] = cells]
    BY <1>1, <1>8
  <2> QED
    BY <1>1, <1>5, <1>8, <2>1, PlainTurn
<1>. QED
  BY <1>1, <1>2, <1>6, <1>7, <1>8 DEF Kind

LEMMA DieTurn ==
  ASSUME SerialInv, Inv', NEW t \in Terminal, Die(t)
  PROVE  SerialInv'
<1>1. /\ Goes(t, Idle) /\ UNCHANGED <<file, written>>
      /\ members' = IF At(t, "write", "vault") THEN {} ELSE members
      /\ sealed' = IF At(t, "write", "sealed") THEN None ELSE sealed
  BY DEF Die
<1>2. Kind(Idle) /\ ~Writer(Idle)
  BY IdleKind
<1>3. VaultKept'
  <2>1. CASE At(t, "write", "vault")
    BY <1>1, <2>1 DEF VaultKept
  <2>2. CASE ~At(t, "write", "vault")
    BY <1>1, <2>2, KeepVault
  <2> QED
    BY <2>1, <2>2
<1>4. SealedKept'
  <2>1. CASE At(t, "write", "sealed")
    BY <1>1, <2>1 DEF SealedKept
  <2>2. CASE ~At(t, "write", "sealed")
    BY <1>1, <2>2, KeepSealed
  <2> QED
    BY <2>1, <2>2
<1>5. Writer(proc[t]) \/ members' = members
  BY <1>1, WritesVault
<1>6. \A table \in written' : Uniform(table)
  BY <1>1 DEF SerialInv
<1>. QED
  BY <1>1, <1>2, <1>3, <1>4, <1>5, <1>6, Turn

-----------------------------------------------------------------------------
(* What members can rely on                                                *)

LEMMA SerialStart == Init => SerialInv
<1> SUFFICES ASSUME Init  PROVE SerialInv
  OBVIOUS
<1>1. Inv
  BY InitInv
<1>2. \A t \in Terminal : Kind(proc[t]) /\ ~Writer(proc[t])
  BY IdleKind DEF Init
<1>3. VaultKept /\ SealedKept /\ \A table \in written : Uniform(table)
  BY DEF Init, VaultKept, SealedKept
<1>. QED
  BY <1>1, <1>2, <1>3 DEF SerialInv

LEMMA SerialStep == SerialInv /\ [SerialNext]_vars => SerialInv'
<1> SUFFICES ASSUME SerialInv, [SerialNext]_vars  PROVE SerialInv'
  OBVIOUS
<1>1. Inv'
  <2>1. Inv
    BY DEF SerialInv
  <2>2. [Next]_vars
    BY DEF SerialNext, Next
  <2> QED
    BY <2>1, <2>2, NextInv
<1>2. CASE UNCHANGED vars
  <2> USE <1>2 DEF vars
  <2>1. (\A t \in Terminal : Kind(proc[t]))'
    BY DEF SerialInv
  <2>2. (\A t \in Terminal, u \in Terminal : Writer(proc[t]) /\ Writer(proc[u]) => t = u)'
    BY DEF SerialInv
  <2>3. (\A t \in Terminal :
          Writer(proc[t]) => Holds(proc[t], file["vault"], file["sealed"], members, written))'
    BY DEF SerialInv
  <2>4. (\A table \in written : Uniform(table))'
    BY DEF SerialInv
  <2>5. VaultKept'
    BY DEF SerialInv, VaultKept, VaultAtRest, At
  <2>6. SealedKept'
    BY DEF SerialInv, SealedKept, SealedAtRest, At
  <2> QED
    BY <1>1, <2>1, <2>2, <2>3, <2>4, <2>5, <2>6 DEF SerialInv
<1>3. ASSUME NEW t \in Terminal, StartAny(t),
             IsWriter(t)' => \A u \in Terminal : ~IsWriter(u)
      PROVE  SerialInv'
  BY <1>1, <1>3, StartTurn
<1>4. ASSUME NEW t \in Terminal, Advance(t)  PROVE SerialInv'
  BY <1>1, <1>4, NotFoundTurn, ReadCellTurn, EndVaultTurn, UseVaultTurn, DecryptTurn,
     CreateFileTurn, WriteCellTurn, FinishTurn DEF Advance
<1>5. ASSUME NEW t \in Terminal, Die(t)  PROVE SerialInv'
  BY <1>1, <1>5, DieTurn
<1>. QED
  BY <1>2, <1>3, <1>4, <1>5 DEF SerialNext

LEMMA SerialInvariant == SerialSpec => []SerialInv
BY SerialStart, SerialStep, PTL DEF SerialSpec

(* The vault file at rest opens for a member, with the keys of the member's
   master. *)
LEMMA MemberOpens ==
  ASSUME SerialInv, VaultAtRest, NEW m \in members
  PROVE  LET opened == open_vault(file["vault"], m.passphrase)
         IN  /\ file["vault"] # None /\ opened.ok
             /\ opened.val.hierarchy = from_master(m.master)
<1>1. PICK table \in written : file["vault"] = VaultCells(table) /\ Serves(table, members)
  BY DEF SerialInv, VaultKept
<1>2. table \in Table /\ Len(table.slots) \in 1 .. MAX_SLOTS /\ Uniform(table)
  BY DEF SerialInv, Inv, WrittenInv
<1>3. HasSlot(table, m.passphrase) /\ table.verifier = volume_verifier(m.master)
  BY <1>1 DEF Serves
<1> DEFINE opened == open_vault(VaultCells(table), m.passphrase)
<1>4. /\ opened.ok /\ table.verifier = volume_verifier(opened.val.master)
      /\ opened.val.hierarchy = from_master(opened.val.master)
  BY <1>2, <1>3, FileServes
<1> HIDE DEF opened
<1>5. opened.val.master = m.master
  BY <1>3, <1>4, HashParts DEF volume_verifier
<1>6. file["vault"] # None
  <2>1. VaultCells(table) \in Seq(Cell)
    BY <1>2, GoodVaultCells DEF Good, IsContents
  <2> QED
    BY <1>1, <2>1, NoneAssumption
<1>. QED
  BY <1>1, <1>4, <1>5, <1>6 DEF opened

(* While only one command at a time changes files, however many others read
   and wherever commands die, the passphrase of every init and add of aegis.rs
   that reported success opens the vault file whenever no command writes it,
   until another init starts to write it or a writer dies while it writes. *)
THEOREM MembersAlwaysKept == SerialSpec => []MembersKept
<1>1. SerialInv => MembersKept
  BY MemberOpens DEF MembersKept, Admits
<1>. QED
  BY <1>1, SerialInvariant, PTL

(* Under the same rule what seal of aegis.rs put into a file comes out of it
   for every member of the vault it was sealed in, also for those that add
   gave access after the sealing. *)
THEOREM SealedAlwaysReadable == SerialSpec => []SealedReadable
<1>1. SerialInv => SealedReadable
  <2> SUFFICES ASSUME SerialInv, VaultAtRest, sealed # None, SealedAtRest,
                      NEW m \in members, m.master = sealed.master
               PROVE  UnsealedWith(open_vault(file["vault"], m.passphrase).val, file["sealed"])
                        = Ok(sealed.text)
    BY DEF SealedReadable, SealedAtRest
  <2>1. PICK v \in OpenVault, d \in 1 .. MaxDraws :
          v.master = sealed.master /\ file["sealed"] = BlobCells(SealedWith(v, sealed.text, d))
    BY DEF SerialInv, SealedKept
  <2>2. v.hierarchy = from_master(v.master)
    BY DEF OpenVault
  <2>3. open_vault(file["vault"], m.passphrase).val.hierarchy = from_master(m.master)
    BY MemberOpens
  <2> QED
    BY <2>1, <2>2, <2>3, SealedOpens
<1>. QED
  BY <1>1, SerialInvariant, PTL
=============================================================================
