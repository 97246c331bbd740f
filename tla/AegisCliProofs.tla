--------------------------- MODULE AegisCliProofs ---------------------------
(***************************************************************************)
(* What holds of commands that overlap in any way and die at any point:    *)
(* everything has its type, and a command opens only whole tables.  The    *)
(* two go together: what a table of torn cells would hold has no type, and *)
(* only because it is never opened does nothing of it get any further.     *)
(***************************************************************************)
EXTENDS AegisCli, WellFoundedInduction, SequenceTheorems, TLAPS

(* A command with its arguments. *)
Cmd ==
  [name : {"init"}, p : Passphrase]
  \cup [name : {"add"}, p : Passphrase, n : Passphrase, draw : 1 .. MaxDraws]
  \cup [name : {"seal"}, p : Passphrase, i : Plaintext, draw : 1 .. MaxDraws]
  \cup [name : {"verify", "open"}, p : Passphrase]

(* A vault that has its table. *)
OpenVault ==
  {[master |-> m, hierarchy |-> from_master(m), slots |-> table] :
     m \in Master, table \in Table}

(* The MACs of the tables in W. *)
Macs(W) == {to_bytes(table).mac : table \in W}

(* Contents whose tails are those of tables in W. *)
Good(cells, W) ==
  /\ IsContents(cells)
  /\ \A k \in 1 .. Len(cells) : cells[k].part = "tail" => cells[k].mac \in Macs(W)

ReadsVault(s, W) ==
  /\ s = [at |-> "read", cmd |-> s.cmd, path |-> "vault", vault |-> None, buf |-> s.buf]
  /\ s.cmd \in Cmd /\ Good(s.buf, W)

ReadsSealed(s, W) ==
  /\ s = [at |-> "read", cmd |-> s.cmd, path |-> "sealed", vault |-> s.vault, buf |-> s.buf]
  /\ s.cmd \in Cmd /\ s.vault \in OpenVault /\ Good(s.buf, W)

OpensVault(s, W) ==
  /\ s.at = "opening"
  /\ s.cmd \in Cmd /\ s.header_salt \in 1 .. MaxDraws /\ s.bytes.mac \in Macs(W)

Writes(s, W) ==
  /\ s = [at |-> s.at, cmd |-> s.cmd, path |-> s.path, vault |-> s.vault,
          data |-> s.data, pos |-> s.pos]
  /\ s.at \in {"create", "write"}
  /\ s.cmd \in Cmd /\ s.path \in Path /\ s.vault \in OpenVault
  /\ Good(s.data, W) /\ s.pos \in 0 .. Len(s.data) - 1

(* A command and all that it has read or will write; a file that is being
   written is there. *)
StateInv(s, F, W) ==
  \/ s = Idle
  \/ ReadsVault(s, W) \/ ReadsSealed(s, W) \/ OpensVault(s, W)
  \/ Writes(s, W) /\ (s.at = "write" => Good(F[s.path], W))

FilesInv(F, W) ==
  /\ F = [path \in Path |-> F[path]]
  /\ \A path \in Path : F[path] = None \/ Good(F[path], W)

WrittenInv == written \subseteq Table /\ \A table \in written : Len(table.slots) \in 1 .. MAX_SLOTS

HistoryInv ==
  /\ members \subseteq [passphrase : Passphrase, master : Master]
  /\ sealed \in [text : Plaintext, master : Master] \cup {None}

Inv ==
  /\ FilesInv(file, written)
  /\ proc = [t \in Terminal |-> proc[t]]
  /\ \A t \in Terminal : StateInv(proc[t], file, written)
  /\ draws \in 0 .. MaxDraws
  /\ WrittenInv
  /\ HistoryInv

-----------------------------------------------------------------------------
(* Contents                                                                *)

LEMMA GoodMore ==
  ASSUME NEW cells, NEW W, NEW X, W \subseteq X, Good(cells, W)
  PROVE  Good(cells, X)
BY DEF Good, Macs

LEMMA StateMore ==
  ASSUME NEW s, NEW F, NEW W, NEW X, W \subseteq X, StateInv(s, F, W)
  PROVE  StateInv(s, F, X)
<1>1. Macs(W) \subseteq Macs(X)
  BY DEF Macs
<1>2. \A cells : Good(cells, W) => Good(cells, X)
  BY GoodMore
<1>. QED
  BY <1>1, <1>2, Zenon DEF StateInv, ReadsVault, ReadsSealed, OpensVault, Writes

LEMMA FilesMore ==
  ASSUME NEW F, NEW W, NEW X, W \subseteq X, FilesInv(F, W)
  PROVE  FilesInv(F, X)
BY GoodMore, Zenon DEF FilesInv

LEMMA GoodEmpty ==
  ASSUME NEW W
  PROVE  Good(<<>>, W)
BY MaxSlotsAssumption DEF Good, IsContents

(* What was read and a cell more of the file. *)
LEMMA GoodAppend ==
  ASSUME NEW W, NEW buf, NEW cells, Good(buf, W), Good(cells, W), Len(buf) < Len(cells)
  PROVE  Good(Append(buf, cells[Len(buf) + 1]), W)
<1>1. buf \in Seq(Cell) /\ cells \in Seq(Cell) /\ Len(buf) \in Nat /\ Len(cells) \in Nat
  BY DEF Good, IsContents
<1>2. Len(buf) + 1 \in 1 .. Len(cells) /\ Len(cells) <= 2 * MAX_SLOTS + 2
  BY <1>1 DEF Good, IsContents
<1> DEFINE cell == cells[Len(buf) + 1]
           more == Append(buf, cell)
<1>3. cell \in Cell /\ (cell.part = "tail" => cell.mac \in Macs(W))
  BY <1>1, <1>2 DEF Good
<1> HIDE DEF cell
<1>4. more \in Seq(Cell) /\ Len(more) = Len(buf) + 1 /\ more[Len(buf) + 1] = cell
      /\ \A k \in 1 .. Len(buf) : more[k] = buf[k]
  BY <1>1, <1>3
<1> HIDE DEF more
<1>5. IsContents(more)
  BY <1>1, <1>2, <1>4, MaxSlotsAssumption DEF IsContents
<1>6. \A k \in 1 .. Len(more) : more[k].part = "tail" => more[k].mac \in Macs(W)
  <2> SUFFICES ASSUME NEW k \in 1 .. Len(more)
               PROVE  more[k].part = "tail" => more[k].mac \in Macs(W)
    OBVIOUS
  <2>1. k \in 1 .. Len(buf) \/ k = Len(buf) + 1
    BY <1>1, <1>4
  <2>2. \A j \in 1 .. Len(buf) : buf[j].part = "tail" => buf[j].mac \in Macs(W)
    BY DEF Good
  <2> QED
    BY <1>3, <1>4, <2>1, <2>2, Zenon
<1>. QED
  BY <1>5, <1>6, Zenon DEF Good, more, cell

(* A cell of the data is written at its own place, or behind a gap. *)
LEMMA GoodPut ==
  ASSUME NEW W, NEW cells, NEW data, Good(cells, W), Good(data, W), NEW k \in 1 .. Len(data)
  PROVE  Good(Put(cells, k, data[k]), W)
<1>1. /\ cells \in Seq(Cell) /\ data \in Seq(Cell)
      /\ Len(cells) \in Nat /\ Len(cells) <= 2 * MAX_SLOTS + 2
      /\ Len(data) \in Nat /\ Len(data) <= 2 * MAX_SLOTS + 2
  BY DEF Good, IsContents
<1> DEFINE n   == IF k > Len(cells) THEN k ELSE Len(cells)
           put == [i \in 1 .. n |->
                     CASE i = k                     -> data[k]
                       [] i # k /\ i <= Len(cells)  -> cells[i]
                       [] i # k /\ i > Len(cells)   -> Zeros]
<1>2. n \in Nat /\ n <= 2 * MAX_SLOTS + 2
  BY <1>1, MaxSlotsAssumption
<1>3. \A i \in 1 .. n :
        \/ put[i] = data[k]
        \/ i \in 1 .. Len(cells) /\ put[i] = cells[i]
        \/ put[i] = Zeros
  <2> SUFFICES ASSUME NEW i \in 1 .. n
               PROVE  \/ put[i] = data[k]
                      \/ i \in 1 .. Len(cells) /\ put[i] = cells[i]
                      \/ put[i] = Zeros
    OBVIOUS
  <2>1. CASE i = k
    BY <2>1
  <2>2. CASE i # k /\ i <= Len(cells)
    BY <2>2, <1>1, <1>2
  <2>3. CASE i # k /\ i > Len(cells)
    BY <2>3, <1>1, <1>2
  <2> QED
    BY <2>1, <2>2, <2>3, <1>1, <1>2
<1>4. Put(cells, k, data[k]) = put
  BY DEF Put
<1> HIDE DEF put, n
<1>5. Zeros \in Cell /\ Zeros.part = "zeros"
  BY DEF Cell, Zeros
<1>6. /\ data[k] \in Cell
      /\ data[k].part = "tail" => data[k].mac \in Macs(W)
      /\ \A i \in 1 .. Len(cells) : /\ cells[i] \in Cell
                                    /\ cells[i].part = "tail" => cells[i].mac \in Macs(W)
  BY <1>1 DEF Good
<1>7. \A i \in 1 .. n : put[i] \in Cell /\ (put[i].part = "tail" => put[i].mac \in Macs(W))
  BY <1>3, <1>5, <1>6
<1>8. put \in Seq(Cell) /\ Len(put) = n
  <2>1. put = [i \in 1 .. n |-> put[i]]
    BY DEF put
  <2>2. put \in [1 .. n -> Cell]
    BY <1>7, <2>1
  <2> QED
    BY <1>2, <2>2
<1>. QED
  BY <1>2, <1>4, <1>7, <1>8 DEF Good, IsContents

-----------------------------------------------------------------------------
(* Slots and tables                                                        *)

LEMMA NewSlot ==
  ASSUME NEW m \in Master, NEW p \in Passphrase, NEW d \in 1 .. MaxDraws
  PROVE  KeySlot_create(m, p, d) \in Slot
<1> DEFINE key == SlotKey(p, SlotSalt(d))
<1>1. key \in {SlotKey(q, SlotSalt(e)) : q \in Passphrase, e \in 1 .. MaxDraws}
  OBVIOUS
<1>2. SlotSalt(d) \in [id : 1 .. MaxDraws, len : {16}]
  BY DEF SlotSalt, SaltOf
<1>3. FreshNonce("Aes256Gcm", d) \in Nonce(12)
  BY DEF FreshNonce, NonceLen, Nonce
<1>4. KeySlot_create(m, p, d)
        = [salt |-> SlotSalt(d), nonce |-> FreshNonce("Aes256Gcm", d),
           ct |-> [algo |-> "Aes256Gcm", key |-> key, nonce |-> FreshNonce("Aes256Gcm", d),
                   msg |-> m, aad |-> HEADER_MAGIC],
           enabled |-> TRUE]
  BY DEF KeySlot_create, seal, Ciphertext
<1> HIDE DEF key
<1>. QED
  BY <1>1, <1>2, <1>3, <1>4 DEF Slot

LEMMA NewTable ==
  ASSUME NEW m \in Master, NEW p \in Passphrase, NEW d \in 1 .. MaxDraws
  PROVE  /\ new_initial(m, p, d) \in Table
         /\ Len(new_initial(m, p, d).slots) \in 1 .. MAX_SLOTS
<1>1. KeySlot_create(m, p, d) \in Slot
  BY NewSlot
<1>2. volume_verifier(m) \in Verifier
  BY DEF Verifier
<1>3. new_initial(m, p, d) = [header_salt |-> d, slots |-> <<KeySlot_create(m, p, d)>>,
                              verifier |-> volume_verifier(m)]
  BY DEF new_initial
<1>4. <<KeySlot_create(m, p, d)>> \in Seq(Slot) /\ Len(<<KeySlot_create(m, p, d)>>) = 1
  BY <1>1
<1>. QED
  BY <1>2, <1>3, <1>4, MaxSlotsAssumption DEF Table

(* A table that is not full gets a slot more. *)
LEMMA AddedTable ==
  ASSUME NEW table \in Table, NEW m \in Master, NEW p \in Passphrase, NEW d \in 1 .. MaxDraws,
         table_add_slot(table, m, p, d).ok
  PROVE  LET added == table_add_slot(table, m, p, d).val.table
         IN  added \in Table /\ Len(added.slots) \in 1 .. MAX_SLOTS
<1> DEFINE slot  == KeySlot_create(m, p, d)
           added == [table EXCEPT !.slots = Append(@, slot)]
<1>1. ~(Len(table.slots) >= MAX_SLOTS) /\ table_add_slot(table, m, p, d).val.table = added
  BY DEF table_add_slot, Ok, Err
<1>2. slot \in Slot
  BY NewSlot
<1> HIDE DEF slot
<1>3. /\ table = [header_salt |-> table.header_salt, slots |-> table.slots,
                  verifier |-> table.verifier]
      /\ table.header_salt \in 1 .. MaxDraws /\ table.slots \in Seq(Slot)
      /\ table.verifier \in Verifier
  BY DEF Table
<1>4. added = [header_salt |-> table.header_salt, slots |-> Append(table.slots, slot),
               verifier |-> table.verifier]
  BY <1>3
<1>5. /\ Append(table.slots, slot) \in Seq(Slot)
      /\ Len(Append(table.slots, slot)) = Len(table.slots) + 1
      /\ Len(table.slots) \in Nat
  BY <1>2, <1>3
<1> HIDE DEF added
<1>6. added \in Table /\ added.slots = Append(table.slots, slot)
  BY <1>3, <1>4, <1>5 DEF Table
<1>7. Len(added.slots) \in 1 .. MAX_SLOTS
  BY <1>1, <1>5, <1>6, MaxSlotsAssumption
<1>. QED
  BY <1>1, <1>6, <1>7

(* The cells of a table in W. *)
LEMMA GoodVaultCells ==
  ASSUME NEW W, NEW table \in W, table \in Table, Len(table.slots) \in 1 .. MAX_SLOTS
  PROVE  Good(VaultCells(table), W) /\ Len(VaultCells(table)) > 0
<1> DEFINE n     == Len(table.slots)
           head  == [part |-> "head", header_salt |-> table.header_salt, count |-> n]
           tail  == [part |-> "tail", verifier |-> table.verifier, mac |-> to_bytes(table).mac]
           cells == VaultCells(table)
<1>1. cells = [k \in 1 .. 2 * n + 2 |->
                 IF k = 1 THEN head
                 ELSE IF k < 2 * n + 2 THEN SlotCell(table.slots, k) ELSE tail]
  BY DEF VaultCells
<1>2. n \in Nat /\ n \in 1 .. MAX_SLOTS /\ 2 * n + 2 \in Nat
  BY MaxSlotsAssumption
<1>3. /\ table.header_salt \in 1 .. MaxDraws /\ table.slots \in Seq(Slot)
      /\ table.verifier \in Verifier
  BY DEF Table
<1>4. head \in Cell /\ head.part = "head"
  BY <1>2, <1>3 DEF Cell
<1>5. /\ to_bytes(table).mac
           = [hash |-> "blake3", key |-> table.header_salt,
              data |-> [slots |-> table.slots, verifier |-> table.verifier]]
  BY DEF to_bytes, keyed_hash
<1>6. to_bytes(table).mac \in Mac
  BY <1>3, <1>5 DEF Mac
<1>7. tail \in Cell /\ tail.mac \in Macs(W)
  BY <1>3, <1>6 DEF Cell, Macs
<1>8. \A k \in 2 .. 2 * n + 1 :
        SlotCell(table.slots, k) \in Cell /\ SlotCell(table.slots, k).part # "tail"
  <2> SUFFICES ASSUME NEW k \in 2 .. 2 * n + 1
               PROVE  SlotCell(table.slots, k) \in Cell /\ SlotCell(table.slots, k).part # "tail"
    OBVIOUS
  <2>1. k \div 2 \in 1 .. n
    BY <1>2
  <2>2. table.slots[k \div 2] \in Slot
    BY <1>3, <2>1
  <2>3. SlotCell(table.slots, k) \in [part : {"front", "back"}, slot : Slot]
    BY <2>2 DEF SlotCell
  <2> QED
    BY <2>3 DEF Cell
<1> HIDE DEF head, tail
<1>9. \A k \in 1 .. 2 * n + 2 :
        cells[k] \in Cell /\ (cells[k].part = "tail" => cells[k].mac \in Macs(W))
  <2> SUFFICES ASSUME NEW k \in 1 .. 2 * n + 2
               PROVE  cells[k] \in Cell /\ (cells[k].part = "tail" => cells[k].mac \in Macs(W))
    OBVIOUS
  <2>1. CASE k = 1
    BY <1>1, <1>2, <1>4, <2>1
  <2>2. CASE k \in 2 .. 2 * n + 1
    <3>1. cells[k] = SlotCell(table.slots, k)
      BY <1>1, <1>2, <2>2
    <3> QED
      BY <1>8, <2>2, <3>1
  <2>3. CASE k = 2 * n + 2
    <3>1. cells[k] = tail
      BY <1>1, <1>2, <2>3
    <3> QED
      BY <1>7, <3>1
  <2> QED
    BY <1>2, <2>1, <2>2, <2>3
<1>10. cells \in Seq(Cell) /\ Len(cells) = 2 * n + 2
  <2> DEFINE len == 2 * n + 2
  <2>1. len \in Nat /\ cells = [k \in 1 .. len |-> cells[k]]
    BY <1>1, <1>2
  <2>2. \A k \in 1 .. len : cells[k] \in Cell
    BY <1>9
  <2> HIDE DEF len, cells
  <2>3. cells \in [1 .. len -> Cell]
    BY <2>1, <2>2
  <2>4. cells \in Seq(Cell) /\ Len(cells) = len
    BY <2>1, <2>3
  <2> QED
    BY <2>4 DEF len
<1>11. Len(cells) <= 2 * MAX_SLOTS + 2 /\ Len(cells) > 0
  BY <1>2, <1>10, MaxSlotsAssumption
<1>12. \A k \in 1 .. Len(cells) : cells[k].part = "tail" => cells[k].mac \in Macs(W)
  BY <1>9, <1>10
<1> HIDE DEF cells
<1>. QED
  BY <1>10, <1>11, <1>12, Zenon DEF Good, IsContents, cells

-----------------------------------------------------------------------------
(* Opening                                                                 *)

(* What OpenTable answers with comes from the bytes. *)
LEMMA OpenedParts ==
  ASSUME NEW bytes, NEW salt, NEW p, OpenTable(bytes, salt, p).ok
  PROVE  LET opened == OpenTable(bytes, salt, p).val
         IN  /\ bytes.mac = keyed_hash(salt, bytes.body)
             /\ opened.table = [header_salt |-> salt, slots |-> bytes.body.slots,
                                verifier |-> bytes.body.verifier]
             /\ unseal_with(opened.table, p).ok
             /\ opened.master = unseal_with(opened.table, p).val.master
<1> DEFINE parsed   == from_bytes(bytes, salt)
           unsealed == unseal_with(parsed.val, p)
<1>1. /\ parsed.ok /\ unsealed.ok
      /\ OpenTable(bytes, salt, p).val = [master |-> unsealed.val.master, table |-> parsed.val]
  <2>1. OpenTable(bytes, salt, p)
          = IF ~parsed.ok THEN parsed
            ELSE IF ~unsealed.ok THEN unsealed
            ELSE IF volume_verifier(unsealed.val.master) # parsed.val.verifier
            THEN Err("VolumeMismatch")
            ELSE Ok([master |-> unsealed.val.master, table |-> parsed.val])
    BY DEF OpenTable
  <2> HIDE DEF parsed, unsealed
  <2> QED
    BY <2>1 DEF Ok, Err
<1>2. /\ bytes.mac = keyed_hash(salt, bytes.body)
      /\ parsed.val = [header_salt |-> salt, slots |-> bytes.body.slots,
                       verifier |-> bytes.body.verifier]
  BY <1>1 DEF from_bytes, Ok, Err
<1>. QED
  BY <1>1, <1>2

(* The master is that of the slot that opens. *)
LEMMA OpenedMaster ==
  ASSUME NEW bytes, NEW salt, NEW p, NEW o, OpenTable(bytes, salt, p).ok,
         o = OpenTable(bytes, salt, p).val
  PROVE  unseal_with(o.table, p).ok /\ o.master = unseal_with(o.table, p).val.master
<1>1. unseal_with(o.table, p).ok
  BY OpenedParts
<1>2. o.master = unseal_with(o.table, p).val.master
  BY OpenedParts
<1>. QED
  BY <1>1, <1>2, Zenon

LEMMA HashParts ==
  ASSUME NEW k, NEW d, NEW l, NEW e, keyed_hash(k, d) = keyed_hash(l, e)
  PROVE  k = l /\ d = e
<1>1. keyed_hash(k, d).key = k /\ keyed_hash(k, d).data = d
  BY DEF keyed_hash
<1>2. keyed_hash(l, e).key = l /\ keyed_hash(l, e).data = e
  BY DEF keyed_hash
<1>. QED
  BY <1>1, <1>2

(* A MAC of a table in W makes the rest that table. *)
LEMMA OpenedIsWritten ==
  ASSUME NEW W, W \subseteq Table, NEW bytes, bytes.mac \in Macs(W), NEW salt, NEW p,
         OpenTable(bytes, salt, p).ok
  PROVE  OpenTable(bytes, salt, p).val.table \in W
<1> DEFINE opened == OpenTable(bytes, salt, p).val
<1>1. PICK table \in W : bytes.mac = to_bytes(table).mac
  BY DEF Macs
<1>2. /\ bytes.mac = keyed_hash(salt, bytes.body)
      /\ opened.table = [header_salt |-> salt, slots |-> bytes.body.slots,
                         verifier |-> bytes.body.verifier]
  BY OpenedParts
<1> HIDE DEF opened
<1>3. to_bytes(table).mac
        = keyed_hash(table.header_salt, [slots |-> table.slots, verifier |-> table.verifier])
  BY DEF to_bytes
<1>4. /\ salt = table.header_salt
      /\ bytes.body = [slots |-> table.slots, verifier |-> table.verifier]
  <2>1. keyed_hash(salt, bytes.body)
          = keyed_hash(table.header_salt, [slots |-> table.slots, verifier |-> table.verifier])
    BY <1>1, <1>2, <1>3
  <2> QED
    BY <2>1, HashParts
<1>5. table = [header_salt |-> table.header_salt, slots |-> table.slots,
               verifier |-> table.verifier]
  BY DEF Table
<1>. QED
  BY <1>2, <1>4, <1>5 DEF opened

LEMMA LeastNumber ==
  ASSUME NEW T \in SUBSET Nat, T # {}
  PROVE  \E j \in T : \A k \in T : j <= k
<1>1. PICK j \in T : \A k \in T : <<k, j>> \notin OpToRel(<, Nat)
  BY NatLessThanWellFounded, WFMin, Zenon
<1>2. \A k \in T : ~(k < j)
  BY <1>1, Zenon DEF OpToRel
<1>. QED
  BY <1>2

LEMMA SlotMaster ==
  ASSUME NEW slot \in Slot
  PROVE  slot.ct.msg \in Master
<1> DEFINE Key == {SlotKey(p, SlotSalt(d)) : p \in Passphrase, d \in 1 .. MaxDraws}
<1>1. Slot = [salt : [id : 1 .. MaxDraws, len : {16}], nonce : Nonce(12), enabled : {TRUE},
              ct : [algo : {"Aes256Gcm"}, nonce : Nonce(12), msg : Master,
                    aad : {HEADER_MAGIC}, key : Key]]
  BY DEF Slot
<1> HIDE DEF Key
<1>. QED
  BY <1>1

(* A slot that opens has the master. *)
LEMMA UnsealedMaster ==
  ASSUME NEW table \in Table, NEW p, unseal_with(table, p).ok
  PROVE  unseal_with(table, p).val.master \in Master
<1>1. table.slots \in Seq(Slot)
  BY DEF Table
<1>2. Opens(table, p) \in SUBSET Nat /\ Opens(table, p) \in SUBSET DOMAIN table.slots
  BY <1>1 DEF Opens, enabled_slots
<1>3. Opens(table, p) # {}
  BY DEF unseal_with, Err
<1> DEFINE i == CHOOSE j \in Opens(table, p) : \A k \in Opens(table, p) : j <= k
<1>4. \E j \in Opens(table, p) : \A k \in Opens(table, p) : j <= k
  BY <1>2, <1>3, LeastNumber
<1>5. i \in Opens(table, p)
  BY <1>4, Zenon
<1>6. unseal_with(table, p) = Ok([idx |-> i - 1, master |-> unseal(table.slots[i], p).val])
  BY <1>3, Zenon DEF unseal_with
<1> HIDE DEF i
<1>7. unseal(table.slots[i], p).ok /\ table.slots[i] \in Slot
  BY <1>1, <1>2, <1>5 DEF Opens
<1>8. table.slots[i].ct.msg \in Master
  BY <1>7, SlotMaster
<1>9. unseal(table.slots[i], p).val = table.slots[i].ct.msg
  BY <1>7 DEF unseal, open, AeadDecrypt, Panic, Ok, Err
<1>. QED
  BY <1>6, <1>8, <1>9 DEF Ok

-----------------------------------------------------------------------------
(* Steps                                                                   *)

(* Everything written so far stays as it is, and s is the state of command t
   after a step that leaves the files alone. *)
LEMMA CommandStep ==
  ASSUME Inv, NEW t \in Terminal, NEW s, Goes(t, s), UNCHANGED file,
         written \subseteq written', StateInv(s, file, written')
  PROVE  /\ FilesInv(file', written')
         /\ proc' = [u \in Terminal |-> proc'[u]]
         /\ \A u \in Terminal : StateInv(proc'[u], file', written')
<1>1. FilesInv(file', written')
  BY FilesMore DEF Inv
<1>2. proc' = [u \in Terminal |-> IF u = t THEN s ELSE proc[u]]
  BY DEF Inv, Goes
<1>3. \A u \in Terminal : StateInv(proc[u], file, written')
  BY StateMore DEF Inv
<1>4. \A u \in Terminal : StateInv(proc'[u], file', written')
  BY <1>2, <1>3
<1>. QED
  BY <1>1, <1>2, <1>4

(* A file gets good contents, and command t goes on to state s. *)
LEMMA FileStep ==
  ASSUME Inv, NEW t \in Terminal, NEW s, Goes(t, s), UNCHANGED written,
         NEW path \in Path, NEW cells, Good(cells, written),
         file' = [file EXCEPT ![path] = cells], StateInv(s, file', written)
  PROVE  /\ FilesInv(file', written')
         /\ proc' = [u \in Terminal |-> proc'[u]]
         /\ \A u \in Terminal : StateInv(proc'[u], file', written')
<1>1. file' = [q \in Path |-> IF q = path THEN cells ELSE file[q]]
  BY DEF Inv, FilesInv
<1>2. FilesInv(file', written')
  BY <1>1 DEF Inv, FilesInv
<1>3. proc' = [u \in Terminal |-> IF u = t THEN s ELSE proc[u]]
  BY DEF Inv, Goes
<1>4. \A u \in Terminal : StateInv(proc[u], file', written)
  <2> SUFFICES ASSUME NEW u \in Terminal  PROVE StateInv(proc[u], file', written)
    OBVIOUS
  <2>1. StateInv(proc[u], file, written)
    BY DEF Inv
  <2>2. Writes(proc[u], written) => proc[u].path \in Path
    BY DEF Writes
  <2>3. \A q \in Path : Good(file[q], written) => Good(file'[q], written)
    BY <1>1
  <2> QED
    BY <2>1, <2>2, <2>3 DEF StateInv
<1>. QED
  BY <1>2, <1>3, <1>4

LEMMA IdleInv == \A F, W : StateInv(Idle, F, W)
BY DEF StateInv

LEMMA ReadingInv ==
  ASSUME NEW F, NEW W, NEW cmd \in Cmd
  PROVE  /\ StateInv(Reading(cmd, "vault", None), F, W)
         /\ \A v \in OpenVault : StateInv(Reading(cmd, "sealed", v), F, W)
<1>1. Good(<<>>, W)
  BY GoodEmpty
<1>2. ReadsVault(Reading(cmd, "vault", None), W)
  BY <1>1 DEF Reading, ReadsVault
<1>3. \A v \in OpenVault : ReadsSealed(Reading(cmd, "sealed", v), W)
  BY <1>1 DEF Reading, ReadsSealed
<1>. QED
  BY <1>2, <1>3 DEF StateInv

LEMMA CreatingInv ==
  ASSUME NEW F, NEW W, NEW cmd \in Cmd, NEW path \in Path, NEW v \in OpenVault,
         NEW cells, Good(cells, W), Len(cells) > 0
  PROVE  StateInv(Creating(cmd, path, v, cells), F, W)
<1>1. Len(cells) \in Nat
  BY DEF Good, IsContents
<1>2. 0 \in 0 .. Len(cells) - 1
  BY <1>1
<1>3. Writes(Creating(cmd, path, v, cells), W) /\ Creating(cmd, path, v, cells).at # "write"
  BY <1>2 DEF Creating, Writes
<1>. QED
  BY <1>3 DEF StateInv

LEMMA StartInitInv ==
  ASSUME Inv, NEW t \in Terminal, NEW p \in Passphrase, StartInit(t, p)
  PROVE  Inv'
<1> DEFINE v     == NewVault(MasterOf(p))
           table == new_initial(v.master, p, draws')
           cmd   == [name |-> "init", p |-> p]
           s     == Creating(cmd, "vault", [v EXCEPT !.slots = table], VaultCells(table))
<1>1. draws' \in 1 .. MaxDraws
  BY CliAssumption DEF Inv, StartInit, Draw
<1>2. v.master \in Master /\ v.master = MasterOf(p)
  BY DEF NewVault, Master
<1>3. table \in Table /\ Len(table.slots) \in 1 .. MAX_SLOTS
  BY <1>1, <1>2, NewTable
<1>4. Goes(t, s) /\ written' = written \cup {table} /\ UNCHANGED <<file, members, sealed>>
  BY DEF StartInit
<1>5. [v EXCEPT !.slots = table] = [master |-> MasterOf(p), hierarchy |-> from_master(MasterOf(p)),
                                    slots |-> table]
  BY DEF NewVault
<1> HIDE DEF v, table
<1>6. [v EXCEPT !.slots = table] \in OpenVault
  BY <1>2, <1>3, <1>5 DEF OpenVault
<1>7. cmd \in Cmd
  BY DEF Cmd
<1>8. Good(VaultCells(table), written') /\ Len(VaultCells(table)) > 0
  BY <1>3, <1>4, GoodVaultCells
<1>9. StateInv(s, file, written')
  BY <1>6, <1>7, <1>8, CreatingInv DEF Path
<1>10. WrittenInv'
  BY <1>3, <1>4 DEF Inv, WrittenInv
<1>11. HistoryInv'
  BY <1>4 DEF Inv, HistoryInv
<1> HIDE DEF s
<1>12. /\ FilesInv(file', written')
       /\ proc' = [u \in Terminal |-> proc'[u]]
       /\ \A u \in Terminal : StateInv(proc'[u], file', written')
  BY <1>4, <1>9, CommandStep
<1>13. draws' \in 0 .. MaxDraws
  BY <1>1
<1>. QED
  BY <1>10, <1>11, <1>12, <1>13 DEF Inv

(* A command that will open the vault, whether or not it draws. *)
LEMMA StartOnVaultInv ==
  ASSUME Inv, NEW t \in Terminal, NEW cmd, cmd \in Cmd, StartOnVault(t, cmd),
         draws' \in 0 .. MaxDraws
  PROVE  Inv'
<1> DEFINE s == Reading(cmd, "vault", None)
<1>1. Goes(t, s) /\ UNCHANGED <<file, written, members, sealed>>
  BY DEF StartOnVault
<1>2. StateInv(s, file, written')
  BY ReadingInv
<1> HIDE DEF s
<1>3. /\ FilesInv(file', written')
      /\ proc' = [u \in Terminal |-> proc'[u]]
      /\ \A u \in Terminal : StateInv(proc'[u], file', written')
  BY <1>1, <1>2, CommandStep
<1>. QED
  BY <1>1, <1>3 DEF Inv, WrittenInv, HistoryInv

LEMMA StartAnyInv ==
  ASSUME Inv, NEW t \in Terminal, StartAny(t)
  PROVE  Inv'
<1>1. Draw => draws' \in 1 .. MaxDraws /\ draws' \in 0 .. MaxDraws
  BY CliAssumption DEF Inv, Draw
<1>2. ASSUME NEW p \in Passphrase, StartInit(t, p)  PROVE Inv'
  BY <1>2, StartInitInv
<1>3. ASSUME NEW p \in Passphrase, NEW n \in Passphrase, StartAdd(t, p, n)  PROVE Inv'
  <2>1. [name |-> "add", p |-> p, n |-> n, draw |-> draws'] \in Cmd
    BY <1>1, <1>3 DEF StartAdd, Cmd
  <2> QED
    BY <1>1, <1>3, <2>1, StartOnVaultInv DEF StartAdd
<1>4. ASSUME NEW p \in Passphrase, NEW i \in Plaintext, StartSeal(t, p, i)  PROVE Inv'
  <2>1. [name |-> "seal", p |-> p, i |-> i, draw |-> draws'] \in Cmd
    BY <1>1, <1>4 DEF StartSeal, Cmd
  <2> QED
    BY <1>1, <1>4, <2>1, StartOnVaultInv DEF StartSeal
<1>5. ASSUME NEW p \in Passphrase, NEW name \in {"verify", "open"}, StartReader(t, name, p)
      PROVE  Inv'
  <2>1. [name |-> name, p |-> p] \in Cmd
    BY DEF Cmd
  <2>2. draws' \in 0 .. MaxDraws
    BY <1>5 DEF StartReader, Inv
  <2> QED
    BY <1>5, <2>1, <2>2, StartOnVaultInv DEF StartReader
<1>. QED
  BY <1>2, <1>3, <1>4, <1>5 DEF StartAny, StartWriter

(* The stage of a command says what there is to it. *)
LEMMA Stages ==
  ASSUME Inv, NEW t \in Terminal
  PROVE  /\ proc[t].at = "read" =>
              (ReadsVault(proc[t], written) \/ ReadsSealed(proc[t], written))
         /\ proc[t].at = "opening" => OpensVault(proc[t], written)
         /\ proc[t].at \in {"create", "write"} => Writes(proc[t], written)
         /\ proc[t].at = "write" => Good(file[proc[t].path], written)
<1>1. StateInv(proc[t], file, written)
  BY DEF Inv
<1>2. /\ Idle.at = "idle"
      /\ ReadsVault(proc[t], written) => proc[t].at = "read"
      /\ ReadsSealed(proc[t], written) => proc[t].at = "read"
      /\ OpensVault(proc[t], written) => proc[t].at = "opening"
      /\ Writes(proc[t], written) => proc[t].at \in {"create", "write"}
  BY DEF Idle, ReadsVault, ReadsSealed, OpensVault, Writes
<1>. QED
  BY <1>1, <1>2 DEF StateInv

(* A step of a command that reads or computes. *)
LEMMA QuietStep ==
  ASSUME Inv, NEW t \in Terminal, NEW s, Goes(t, s), StateInv(s, file, written),
         UNCHANGED <<file, draws, written, members, sealed>>
  PROVE  Inv'
<1>1. /\ FilesInv(file', written')
      /\ proc' = [u \in Terminal |-> proc'[u]]
      /\ \A u \in Terminal : StateInv(proc'[u], file', written')
  BY CommandStep
<1>. QED
  BY <1>1 DEF Inv, WrittenInv, HistoryInv

LEMMA NotFoundInv ==
  ASSUME Inv, NEW t \in Terminal, NotFound(t)
  PROVE  Inv'
<1>1. Goes(t, Idle) /\ UNCHANGED <<file, draws, written, members, sealed>>
  BY DEF NotFound
<1>. QED
  BY <1>1, IdleInv, QuietStep

LEMMA ReadCellInv ==
  ASSUME Inv, NEW t \in Terminal, ReadCell(t)
  PROVE  Inv'
<1> DEFINE cells == file[proc[t].path]
           buf   == proc[t].buf
           more  == Append(buf, cells[Len(buf) + 1])
           s     == [proc[t] EXCEPT !.buf = more]
<1>1. /\ proc[t].at = "read" /\ cells # None /\ Len(buf) < Len(cells) /\ Goes(t, s)
      /\ UNCHANGED <<file, draws, written, members, sealed>>
  BY DEF ReadCell
<1>2. ReadsVault(proc[t], written) \/ ReadsSealed(proc[t], written)
  BY <1>1, Stages
<1>3. proc[t].path \in Path /\ Good(buf, written)
  BY <1>2 DEF ReadsVault, ReadsSealed, Path
<1>4. Good(cells, written)
  BY <1>1, <1>3 DEF Inv, FilesInv
<1>5. Good(more, written)
  BY <1>1, <1>3, <1>4, GoodAppend
<1> HIDE DEF more, buf
<1>6. ReadsVault(proc[t], written) => ReadsVault(s, written)
  BY <1>5 DEF ReadsVault
<1>7. ReadsSealed(proc[t], written) => ReadsSealed(s, written)
  BY <1>5 DEF ReadsSealed
<1>8. StateInv(s, file, written)
  BY <1>2, <1>6, <1>7 DEF StateInv
<1> HIDE DEF s
<1>. QED
  BY <1>1, <1>8, QuietStep

(* A first cell and a last one of the right kind have the types of their kind. *)
LEMMA CellKinds ==
  ASSUME NEW cell \in Cell
  PROVE  /\ cell.part = "head" => cell.header_salt \in 1 .. MaxDraws
         /\ cell.part = "ct" => cell.ct \in Blob
BY DEF Cell, Zeros

LEMMA EndVaultInv ==
  ASSUME Inv, NEW t \in Terminal, EndVault(t)
  PROVE  Inv'
<1> DEFINE cells == proc[t].buf
           s     == IF IsVault(cells) THEN Opening(proc[t].cmd, cells) ELSE Idle
<1>1. /\ proc[t].at = "read" /\ proc[t].path = "vault" /\ Goes(t, s)
      /\ UNCHANGED <<file, draws, written, members, sealed>>
  BY DEF EndVault, HasRead, At
<1>2. proc[t].cmd \in Cmd /\ Good(cells, written)
  BY <1>1, Stages DEF ReadsVault, ReadsSealed
<1>3. ASSUME IsVault(cells)  PROVE StateInv(s, file, written)
  <2> DEFINE len  == Len(cells)
             tail == cells[len]
  <2>1. len \in Nat /\ len >= 2 /\ cells \in Seq(Cell)
    BY <1>2, <1>3 DEF Good, IsContents, IsVault
  <2>2. cells[1].part = "head" /\ tail.part = "tail"
    BY <1>3, <2>1 DEF IsVault
  <2>3. cells[1] \in Cell
    BY <2>1
  <2>4. cells[1].header_salt \in 1 .. MaxDraws
    BY <2>2, <2>3, CellKinds
  <2>5. tail.mac \in Macs(written)
    <3>1. len \in 1 .. len
      BY <2>1
    <3> QED
      BY <1>2, <2>2, <3>1 DEF Good
  <2>6. /\ Opening(proc[t].cmd, cells).at = "opening"
        /\ Opening(proc[t].cmd, cells).cmd = proc[t].cmd
        /\ Opening(proc[t].cmd, cells).header_salt = cells[1].header_salt
        /\ Opening(proc[t].cmd, cells).bytes.mac = tail.mac
    BY DEF Opening, VaultBytes
  <2>7. s = Opening(proc[t].cmd, cells)
    BY <1>3
  <2> HIDE DEF tail, cells, s
  <2>8. OpensVault(s, written)
    BY <1>2, <2>4, <2>5, <2>6, <2>7 DEF OpensVault
  <2> QED
    BY <2>8 DEF StateInv
<1>4. ASSUME ~IsVault(cells)  PROVE StateInv(s, file, written)
  BY <1>4, IdleInv
<1>5. StateInv(s, file, written)
  BY <1>3, <1>4
<1> HIDE DEF s
<1>. QED
  BY <1>1, <1>5, QuietStep

LEMMA DieInv ==
  ASSUME Inv, NEW t \in Terminal, Die(t)
  PROVE  Inv'
<1>1. Goes(t, Idle) /\ UNCHANGED <<file, draws, written>>
  BY DEF Die
<1>2. /\ FilesInv(file', written')
      /\ proc' = [u \in Terminal |-> proc'[u]]
      /\ \A u \in Terminal : StateInv(proc'[u], file', written')
  BY <1>1, IdleInv, CommandStep
<1>3. HistoryInv'
  BY DEF Die, Inv, HistoryInv
<1>. QED
  BY <1>1, <1>2, <1>3 DEF Inv, WrittenInv

(* The vault open_vault makes has the keys of the master that opened. *)
LEMMA VaultMade ==
  ASSUME NEW opened, NEW p
  PROVE  VaultFrom(opened, p)
           = [master |-> opened.master, hierarchy |-> from_master(opened.master),
              slots |-> opened.table]
<1> DEFINE new == NewVault(MasterOf(Ignored))
<1>1. DOMAIN new = {"master", "hierarchy", "slots"}
  BY DEF NewVault
<1> HIDE DEF new
<1>2. VaultFrom(opened, p)
        = [new EXCEPT !.master = opened.master, !.hierarchy = from_master(opened.master),
                      !.slots = opened.table]
  BY DEF VaultFrom, Rebuilt, new
<1>. QED
  BY <1>1, <1>2

(* A table that opens was written, and what it gives is a vault. *)
LEMMA OpenedVault ==
  ASSUME Inv, NEW t \in Terminal, proc[t].at = "opening", OpenedBy(t).ok
  PROVE  /\ OpenedBy(t).val.table \in written
         /\ \A p : VaultFrom(OpenedBy(t).val, p)
                    = [master |-> OpenedBy(t).val.master,
                       hierarchy |-> from_master(OpenedBy(t).val.master),
                       slots |-> OpenedBy(t).val.table]
         /\ \A p : VaultFrom(OpenedBy(t).val, p) \in OpenVault
<1> DEFINE opened == OpenedBy(t).val
<1>1. proc[t].bytes.mac \in Macs(written) /\ written \subseteq Table
  BY Stages DEF OpensVault, Inv, WrittenInv
<1>2. opened.table \in written
  BY <1>1, OpenedIsWritten DEF OpenedBy
<1>3. /\ unseal_with(opened.table, proc[t].cmd.p).ok
      /\ opened.master = unseal_with(opened.table, proc[t].cmd.p).val.master
  <2>1. OpenTable(proc[t].bytes, proc[t].header_salt, proc[t].cmd.p).ok
    BY DEF OpenedBy
  <2>2. opened = OpenTable(proc[t].bytes, proc[t].header_salt, proc[t].cmd.p).val
    BY DEF OpenedBy
  <2> HIDE DEF opened
  <2> QED
    BY <2>1, <2>2, OpenedMaster
<1> HIDE DEF opened
<1>4. opened.master \in Master
  BY <1>1, <1>2, <1>3, UnsealedMaster
<1>5. \A p : VaultFrom(opened, p)
             = [master |-> opened.master, hierarchy |-> from_master(opened.master),
                slots |-> opened.table]
  BY VaultMade
<1>6. \A p : VaultFrom(opened, p) \in OpenVault
  BY <1>1, <1>2, <1>4, <1>5 DEF OpenVault
<1>. QED
  BY <1>2, <1>5, <1>6 DEF opened

(* The blob of seal: both cells have their type. *)
LEMMA SealedCells ==
  ASSUME NEW W, NEW v \in OpenVault, NEW i \in Plaintext, NEW d \in 1 .. MaxDraws
  PROVE  /\ Good(BlobCells(SealedWith(v, i, d)), W)
         /\ Len(BlobCells(SealedWith(v, i, d))) > 0
<1> DEFINE blob   == SealedWith(v, i, d)
           nonce  == [part |-> "nonce", nonce |-> blob.nonce]
           ct     == [part |-> "ct", ct |-> blob.ct]
           EncKey == {from_master(m)["Enc"] : m \in Master}
<1>1. PICK m \in Master : v.hierarchy = from_master(m)
  BY DEF OpenVault
<1>2. from_master(m)["Enc"] \in EncKey
  OBVIOUS
<1>3. FreshNonce("XChaCha20Poly1305", d) \in Nonce(24)
  BY DEF FreshNonce, NonceLen, Nonce
<1>4. /\ blob.nonce = FreshNonce("XChaCha20Poly1305", d)
      /\ blob.ct = [algo |-> "XChaCha20Poly1305", key |-> from_master(m)["Enc"],
                    nonce |-> FreshNonce("XChaCha20Poly1305", d), msg |-> i, aad |-> "aegis-cli"]
  BY <1>1 DEF SealedWith, Encrypted, domain, seal, Ciphertext
<1>5. Blob = [algo : {"XChaCha20Poly1305"}, key : EncKey, nonce : Nonce(24),
              msg : Plaintext, aad : {"aegis-cli"}]
  BY DEF Blob
<1>6. BlobCells(blob) = <<nonce, ct>>
  BY DEF BlobCells
<1> HIDE DEF EncKey, blob
<1>7. blob.nonce \in Nonce(24) /\ blob.ct \in Blob
  BY <1>2, <1>3, <1>4, <1>5
<1>8. /\ nonce \in Cell /\ ct \in Cell
      /\ nonce.part # "tail" /\ ct.part # "tail"
  BY <1>7 DEF Cell
<1> HIDE DEF nonce, ct
<1>9. /\ <<nonce, ct>> \in Seq(Cell) /\ Len(<<nonce, ct>>) = 2
      /\ 2 <= 2 * MAX_SLOTS + 2
      /\ \A k \in 1 .. 2 : <<nonce, ct>>[k] = nonce \/ <<nonce, ct>>[k] = ct
  BY <1>8, MaxSlotsAssumption
<1>10. Good(BlobCells(blob), W) /\ Len(BlobCells(blob)) > 0
  BY <1>6, <1>8, <1>9 DEF Good, IsContents
<1>. QED
  BY <1>10 DEF blob

(* The command ends, or the vault opens and the command uses it. *)
LEMMA UseVaultInv ==
  ASSUME Inv, NEW t \in Terminal, UseVault(t)
  PROVE  Inv'
<1> DEFINE cmd == proc[t].cmd
<1>1. /\ proc[t].at = "opening" /\ cmd \in Cmd
      /\ UNCHANGED <<file, draws, members, sealed>>
  BY Stages DEF UseVault, OpensVault
<1>2. ASSUME Goes(t, Idle), UNCHANGED written  PROVE Inv'
  BY <1>1, <1>2, IdleInv, QuietStep
<1>3. ASSUME NEW v \in OpenVault, Add(t, v)  PROVE Inv'
  <2> DEFINE added == table_add_slot(v.slots, v.master, cmd.n, cmd.draw)
             table == added.val.table
             w     == [v EXCEPT !.slots = table]
             s     == Creating(cmd, "vault", w, VaultCells(table))
  <2>1. CASE ~added.ok
    BY <1>2, <1>3, <2>1 DEF Add
  <2>2. ASSUME added.ok  PROVE Inv'
    <3>1. Goes(t, s) /\ written' = written \cup {table} /\ cmd.name = "add"
      BY <1>3, <2>2 DEF Add
    <3>2. cmd.n \in Passphrase /\ cmd.draw \in 1 .. MaxDraws
      BY <1>1, <3>1 DEF Cmd
    <3>3. /\ v = [master |-> v.master, hierarchy |-> from_master(v.master), slots |-> v.slots]
          /\ v.master \in Master /\ v.slots \in Table
      BY DEF OpenVault
    <3>4. table \in Table /\ Len(table.slots) \in 1 .. MAX_SLOTS
      BY <2>2, <3>2, <3>3, AddedTable
    <3> HIDE DEF table
    <3>5. w = [master |-> v.master, hierarchy |-> from_master(v.master), slots |-> table]
      BY <3>3
    <3>6. w \in OpenVault
      BY <3>3, <3>4, <3>5 DEF OpenVault
    <3>7. Good(VaultCells(table), written') /\ Len(VaultCells(table)) > 0
      BY <3>1, <3>4, GoodVaultCells
    <3> HIDE DEF w, cmd
    <3>8. StateInv(s, file, written')
      BY <1>1, <3>6, <3>7, CreatingInv DEF Path
    <3>9. WrittenInv'
      BY <3>1, <3>4 DEF Inv, WrittenInv
    <3> HIDE DEF s
    <3>10. /\ FilesInv(file', written')
           /\ proc' = [u \in Terminal |-> proc'[u]]
           /\ \A u \in Terminal : StateInv(proc'[u], file', written')
      BY <1>1, <3>1, <3>8, CommandStep
    <3> QED
      BY <1>1, <3>9, <3>10 DEF Inv, HistoryInv
  <2> QED
    BY <2>1, <2>2
<1>4. ASSUME NEW v \in OpenVault, UseOpened(t, v)  PROVE Inv'
  <2>1. UNCHANGED written
    BY <1>4 DEF UseOpened
  <2>2. CASE Goes(t, Idle)
    BY <1>2, <2>1, <2>2
  <2>3. CASE Goes(t, Reading(cmd, "sealed", v))
    <3> HIDE DEF cmd
    <3>1. StateInv(Reading(cmd, "sealed", v), file, written)
      BY <1>1, ReadingInv
    <3> QED
      BY <1>1, <2>1, <2>3, <3>1, QuietStep
  <2>4. ASSUME cmd.name = "seal",
               Goes(t, Creating(cmd, "sealed", v, BlobCells(SealedWith(v, cmd.i, cmd.draw))))
        PROVE  Inv'
    <3>1. cmd.i \in Plaintext /\ cmd.draw \in 1 .. MaxDraws
      BY <1>1, <2>4 DEF Cmd
    <3> DEFINE cells == BlobCells(SealedWith(v, cmd.i, cmd.draw))
    <3>2. Good(cells, written) /\ Len(cells) > 0
      BY <3>1, SealedCells
    <3> HIDE DEF cmd, cells
    <3>3. StateInv(Creating(cmd, "sealed", v, cells), file, written)
      BY <1>1, <3>2, CreatingInv DEF Path
    <3> QED
      BY <1>1, <2>1, <2>4, <3>3, QuietStep DEF cells
  <2> QED
    BY <1>4, <2>2, <2>3, <2>4 DEF UseOpened
<1>5. OpenedBy(t).ok => VaultFrom(OpenedBy(t).val, cmd.p) \in OpenVault
  BY <1>1, OpenedVault
<1>. QED
  BY <1>2, <1>3, <1>4, <1>5 DEF UseVault

(* What open finds in a blob is a text. *)
LEMMA UnsealedText ==
  ASSUME NEW v, NEW W, NEW cells, Good(cells, W), UnsealedWith(v, cells).ok
  PROVE  UnsealedWith(v, cells).val \in Plaintext
<1> DEFINE nonce == cells[1].nonce
           ct    == cells[2].ct
           algo  == "XChaCha20Poly1305"
<1>1. IsBlob(cells) /\ UnsealedWith(v, cells) = open(algo, v.hierarchy["Enc"], nonce, ct, "aegis-cli")
  BY DEF UnsealedWith, Decrypted, domain, Err
<1>2. cells[2] \in Cell /\ cells[2].part = "ct"
  <2>1. cells \in Seq(Cell)
    BY DEF Good, IsContents
  <2>2. Len(cells) = 2 /\ cells[2].part = "ct"
    BY <1>1 DEF IsBlob
  <2> QED
    BY <2>1, <2>2
<1>3. ct \in Blob
  BY <1>2, CellKinds
<1> HIDE DEF nonce, ct
<1>4. open(algo, v.hierarchy["Enc"], nonce, ct, "aegis-cli").val = ct.msg
  BY <1>1 DEF open, AeadDecrypt, Panic, Ok, Err
<1>5. ct.msg \in Plaintext
  <2> DEFINE EncKey == {from_master(m)["Enc"] : m \in Master}
  <2>1. Blob = [algo : {algo}, key : EncKey, nonce : Nonce(24), msg : Plaintext,
                aad : {"aegis-cli"}]
    BY DEF Blob
  <2> HIDE DEF EncKey
  <2> QED
    BY <1>3, <2>1
<1>. QED
  BY <1>1, <1>4, <1>5

LEMMA DecryptInv ==
  ASSUME Inv, NEW t \in Terminal, Decrypt(t)
  PROVE  Inv'
<1> DEFINE opened == UnsealedWith(proc[t].vault, proc[t].buf)
           text   == [part |-> "text", text |-> opened.val]
           s      == Creating(proc[t].cmd, "plain", proc[t].vault, <<text>>)
<1>1. /\ proc[t].at = "read" /\ proc[t].path = "sealed"
      /\ Goes(t, IF opened.ok THEN s ELSE Idle)
      /\ UNCHANGED <<file, draws, written, members, sealed>>
  BY DEF Decrypt, HasRead, At
<1> HIDE DEF opened, s
<1>2. proc[t].cmd \in Cmd /\ proc[t].vault \in OpenVault /\ Good(proc[t].buf, written)
  <2>1. ReadsVault(proc[t], written) \/ ReadsSealed(proc[t], written)
    BY <1>1, Stages
  <2>2. ReadsVault(proc[t], written) => proc[t].path = "vault"
    BY DEF ReadsVault
  <2>3. ReadsSealed(proc[t], written)
    BY <1>1, <2>1, <2>2
  <2> QED
    BY <2>3 DEF ReadsSealed
<1>3. ASSUME opened.ok  PROVE StateInv(s, file, written)
  <2>1. opened.val \in Plaintext
    BY <1>2, <1>3, UnsealedText DEF opened
  <2>2. text \in Cell /\ text.part # "tail"
    BY <2>1 DEF Cell
  <2> HIDE DEF text
  <2>3. /\ <<text>> \in Seq(Cell) /\ Len(<<text>>) = 1 /\ <<text>>[1] = text
        /\ 1 <= 2 * MAX_SLOTS + 2
    BY <2>2, MaxSlotsAssumption
  <2>4. Good(<<text>>, written) /\ Len(<<text>>) > 0
    BY <2>2, <2>3 DEF Good, IsContents
  <2> QED
    BY <1>2, <2>4, CreatingInv DEF Path, s
<1>4. StateInv(IF opened.ok THEN s ELSE Idle, file, written)
  BY <1>3, IdleInv
<1>. QED
  BY <1>1, <1>4, QuietStep

LEMMA CreateFileInv ==
  ASSUME Inv, NEW t \in Terminal, CreateFile(t)
  PROVE  Inv'
<1> DEFINE path == proc[t].path
           s    == [proc[t] EXCEPT !.at = "write"]
<1>1. /\ proc[t].at = "create" /\ Goes(t, s) /\ UNCHANGED <<draws, written>>
      /\ file' = [file EXCEPT ![path] = Truncated(file[path])]
  BY DEF CreateFile
<1>2. Writes(proc[t], written)
  BY <1>1, Stages
<1>3. path \in Path
  BY <1>2 DEF Writes
<1>4. Good(Truncated(file[path]), written)
  BY GoodEmpty DEF Truncated
<1>5. file'[path] = Truncated(file[path])
  BY <1>1, <1>3 DEF Inv, FilesInv
<1>6. Writes(s, written) /\ s.path = path
  BY <1>2 DEF Writes
<1>7. StateInv(s, file', written)
  BY <1>4, <1>5, <1>6 DEF StateInv
<1> HIDE DEF s
<1>8. /\ FilesInv(file', written')
      /\ proc' = [u \in Terminal |-> proc'[u]]
      /\ \A u \in Terminal : StateInv(proc'[u], file', written')
  BY <1>1, <1>3, <1>4, <1>7, FileStep
<1>9. HistoryInv'
  BY DEF CreateFile, Inv, HistoryInv
<1>. QED
  BY <1>1, <1>8, <1>9 DEF Inv, WrittenInv

(* The next cell goes into the file. *)
LEMMA PutNextParts ==
  ASSUME Inv, NEW t \in Terminal, proc[t].at = "write", PutNext(t)
  PROVE  LET path == proc[t].path
             pos  == proc[t].pos + 1
         IN  /\ path \in Path
             /\ file' = [file EXCEPT ![path] = Put(file[path], pos, proc[t].data[pos])]
             /\ Good(Put(file[path], pos, proc[t].data[pos]), written)
             /\ file'[path] = Put(file[path], pos, proc[t].data[pos])
<1> DEFINE path == proc[t].path
           pos  == proc[t].pos + 1
           data == proc[t].data
<1>1. Writes(proc[t], written) /\ Good(file[path], written)
  BY Stages
<1>2. /\ path \in Path /\ Good(data, written) /\ proc[t].pos \in 0 .. Len(data) - 1
      /\ Len(data) \in Nat
  BY <1>1 DEF Writes, Good, IsContents
<1>3. pos \in 1 .. Len(data)
  BY <1>2
<1>4. Good(Put(file[path], pos, data[pos]), written)
  BY <1>1, <1>2, <1>3, GoodPut
<1>5. file' = [file EXCEPT ![path] = Put(file[path], pos, data[pos])]
  BY DEF PutNext
<1>6. file'[path] = Put(file[path], pos, data[pos])
  BY <1>2, <1>5 DEF Inv, FilesInv
<1>. QED
  BY <1>2, <1>4, <1>5, <1>6, Zenon

LEMMA WriteCellInv ==
  ASSUME Inv, NEW t \in Terminal, WriteCell(t)
  PROVE  Inv'
<1> DEFINE path  == proc[t].path
           pos   == proc[t].pos + 1
           cells == Put(file[path], pos, proc[t].data[pos])
           s     == [proc[t] EXCEPT !.pos = @ + 1]
<1>1. /\ proc[t].at = "write" /\ pos < Len(proc[t].data) /\ PutNext(t) /\ Goes(t, s)
      /\ UNCHANGED <<draws, written, members, sealed>>
  BY DEF WriteCell
<1>2. /\ path \in Path /\ file' = [file EXCEPT ![path] = cells]
      /\ Good(cells, written) /\ file'[path] = cells
  BY <1>1, PutNextParts
<1> HIDE DEF cells
<1>3. Writes(proc[t], written) /\ Len(proc[t].data) \in Nat
  BY <1>1, Stages DEF Writes, Good, IsContents
<1>4. pos \in 0 .. Len(proc[t].data) - 1
  BY <1>1, <1>3 DEF Writes
<1> HIDE DEF pos
<1>5. s = [proc[t] EXCEPT !.pos = pos]
  BY DEF pos
<1> HIDE DEF s
<1>6. Writes(s, written) /\ s.path = path
  BY <1>3, <1>4, <1>5 DEF Writes
<1>7. StateInv(s, file', written)
  BY <1>2, <1>6 DEF StateInv
<1>8. /\ FilesInv(file', written')
      /\ proc' = [u \in Terminal |-> proc'[u]]
      /\ \A u \in Terminal : StateInv(proc'[u], file', written')
  BY <1>1, <1>2, <1>7, FileStep
<1>. QED
  BY <1>1, <1>8 DEF Inv, WrittenInv, HistoryInv

LEMMA FinishInv ==
  ASSUME Inv, NEW t \in Terminal, Finish(t)
  PROVE  Inv'
<1> DEFINE path   == proc[t].path
           pos    == proc[t].pos + 1
           cells  == Put(file[path], pos, proc[t].data[pos])
           cmd    == proc[t].cmd
           master == proc[t].vault.master
<1>1. proc[t].at = "write" /\ PutNext(t) /\ Goes(t, Idle) /\ UNCHANGED <<draws, written>>
  BY DEF Finish
<1>2. /\ path \in Path /\ file' = [file EXCEPT ![path] = cells]
      /\ Good(cells, written)
  BY <1>1, PutNextParts
<1> HIDE DEF cells
<1>3. /\ FilesInv(file', written')
      /\ proc' = [u \in Terminal |-> proc'[u]]
      /\ \A u \in Terminal : StateInv(proc'[u], file', written')
  BY <1>1, <1>2, IdleInv, FileStep
<1>4. cmd \in Cmd /\ proc[t].vault \in OpenVault
  BY <1>1, Stages DEF Writes
<1>5. master \in Master
  BY <1>4 DEF OpenVault
<1>6. /\ cmd.p \in Passphrase
      /\ cmd.name = "add" => cmd.n \in Passphrase
      /\ cmd.name = "seal" => cmd.i \in Plaintext
  BY <1>4 DEF Cmd
<1>7. /\ members' = CASE cmd.name = "init" -> {Member(cmd.p, master)}
                      [] cmd.name = "add"  -> members \cup {Member(cmd.n, master)}
                      [] OTHER             -> members
      /\ sealed' = IF cmd.name = "seal" THEN [text |-> cmd.i, master |-> master] ELSE sealed
  BY DEF Finish
<1> HIDE DEF cmd, master
<1>8. \/ members' \subseteq members \cup {Member(cmd.p, master)}
      \/ cmd.name = "add" /\ members' = members \cup {Member(cmd.n, master)}
  BY <1>7
<1>9. members' \subseteq [passphrase : Passphrase, master : Master]
  BY <1>5, <1>6, <1>8 DEF Member, Inv, HistoryInv
<1>10. sealed' \in [text : Plaintext, master : Master] \cup {None}
  BY <1>5, <1>6, <1>7 DEF Inv, HistoryInv
<1>. QED
  BY <1>1, <1>3, <1>9, <1>10 DEF Inv, WrittenInv, HistoryInv

-----------------------------------------------------------------------------
(* The invariant and what follows from it                                  *)

LEMMA InitInv == Init => Inv
<1> SUFFICES ASSUME Init  PROVE Inv
  OBVIOUS
<1>1. FilesInv(file, written)
  BY DEF Init, FilesInv
<1>2. proc = [t \in Terminal |-> proc[t]] /\ \A t \in Terminal : StateInv(proc[t], file, written)
  BY IdleInv DEF Init
<1>3. draws \in 0 .. MaxDraws
  BY CliAssumption DEF Init
<1>. QED
  BY <1>1, <1>2, <1>3 DEF Init, Inv, WrittenInv, HistoryInv

LEMMA NextInv == Inv /\ [Next]_vars => Inv'
<1> SUFFICES ASSUME Inv, [Next]_vars  PROVE Inv'
  OBVIOUS
<1>1. CASE UNCHANGED vars
  BY <1>1 DEF vars, Inv, WrittenInv, HistoryInv
<1>2. ASSUME NEW t \in Terminal, StartAny(t)  PROVE Inv'
  BY <1>2, StartAnyInv
<1>3. ASSUME NEW t \in Terminal, Advance(t)  PROVE Inv'
  BY <1>3, NotFoundInv, ReadCellInv, EndVaultInv, UseVaultInv, DecryptInv, CreateFileInv,
     WriteCellInv, FinishInv DEF Advance
<1>4. ASSUME NEW t \in Terminal, Die(t)  PROVE Inv'
  BY <1>4, DieInv
<1>. QED
  BY <1>1, <1>2, <1>3, <1>4 DEF Next

LEMMA Invariant == Spec => []Inv
BY InitInv, NextInv, PTL DEF Spec

LEMMA StateTypes ==
  ASSUME NEW s, NEW F, NEW W, StateInv(s, F, W)
  PROVE  ProcOK(s)
<1>1. CASE s = Idle
  BY <1>1 DEF ProcOK
<1>2. CASE ReadsVault(s, W)
  BY <1>2 DEF ReadsVault, Good, ProcOK
<1>3. CASE ReadsSealed(s, W)
  <2>1. s.vault.master \in Master
    BY <1>3 DEF ReadsSealed, OpenVault
  <2>2. s.at = "read" /\ s.path = "sealed" /\ IsContents(s.buf)
    BY <1>3 DEF ReadsSealed, Good
  <2> QED
    BY <2>1, <2>2 DEF ProcOK
<1>4. CASE OpensVault(s, W)
  BY <1>4 DEF OpensVault, ProcOK
<1>5. CASE Writes(s, W)
  <2>1. s.vault.master \in Master
    BY <1>5 DEF Writes, OpenVault
  <2>2. /\ s.at \in {"create", "write"} /\ s.path \in Path /\ IsContents(s.data)
        /\ s.pos \in 0 .. Len(s.data) - 1
    BY <1>5 DEF Writes, Good
  <2> QED
    BY <2>1, <2>2 DEF ProcOK
<1>. QED
  BY <1>1, <1>2, <1>3, <1>4, <1>5 DEF StateInv

(* Whatever other commands do to the files that a command of aegis.rs reads
   or writes, and wherever it dies, the cells it reads and the ones it writes
   are cells of a vault, of a blob or of a text, no file is longer than that of a
   full table, and the vault a command holds has a master from a passphrase. *)
THEOREM CliTypeCorrect == Spec => []TypeOK
<1>1. Inv => TypeOK
  <2> SUFFICES ASSUME Inv  PROVE TypeOK
    OBVIOUS
  <2>1. DOMAIN file = Path /\ \A path \in Path : file[path] = None \/ IsContents(file[path])
    <3>1. file = [path \in Path |-> file[path]]
      BY DEF Inv, FilesInv
    <3>2. DOMAIN file = Path
      BY <3>1, Zenon
    <3>3. \A path \in Path : file[path] = None \/ IsContents(file[path])
      BY DEF Inv, FilesInv, Good
    <3> QED
      BY <3>2, <3>3
  <2>2. DOMAIN proc = Terminal
    <3>1. proc = [t \in Terminal |-> proc[t]]
      BY DEF Inv
    <3> QED
      BY <3>1, Zenon
  <2>3. \A t \in Terminal : ProcOK(proc[t])
    BY StateTypes DEF Inv
  <2> QED
    BY <2>1, <2>2, <2>3 DEF Inv, WrittenInv, HistoryInv, TypeOK
<1>. QED
  BY <1>1, Invariant, PTL

(* open_vault of aegis.rs never opens a table of torn cells, of two writes
   under way at once, or cut short: one that opens is whole and was written by
   some command, however many commands overlap. *)
THEOREM AlwaysOpensWhole == Spec => []OpensWholeTables
<1>1. Inv => OpensWholeTables
  BY OpenedVault DEF OpensWholeTables
<1>. QED
  BY <1>1, Invariant, PTL
-----------------------------------------------------------------------------
(* Progress                                                                *)

(* How far from its end a command is at each stage (aegis.rs:72-189). *)
LEMMA LeftAt ==
  ASSUME NEW s
  PROVE  /\ s.at = "idle" => StepsLeft(s) = 0
         /\ s.at = "write" => StepsLeft(s) = Len(s.data) - s.pos
         /\ s.at = "create" => StepsLeft(s) = Len(s.data) + 1
         /\ s.at = "read" /\ s.path = "sealed" => StepsLeft(s) = MaxCells - Len(s.buf) + 3
         /\ s.at = "opening" => StepsLeft(s) = MaxCells + 4
         /\ s.at = "read" /\ s.path = "vault" => StepsLeft(s) = 2 * MaxCells - Len(s.buf) + 5
<1>1. s.at = "idle" => StepsLeft(s) = 0
  BY DEF StepsLeft
<1>2. s.at = "write" => StepsLeft(s) = Len(s.data) - s.pos
  BY DEF StepsLeft
<1>3. s.at = "create" => StepsLeft(s) = Len(s.data) + 1
  BY DEF StepsLeft
<1>4. s.at = "read" /\ s.path = "sealed" => StepsLeft(s) = MaxCells - Len(s.buf) + 3
  BY DEF StepsLeft
<1>5. s.at = "opening" => StepsLeft(s) = MaxCells + 4
  BY DEF StepsLeft
<1>6. s.at = "read" /\ s.path = "vault" => StepsLeft(s) = 2 * MaxCells - Len(s.buf) + 5
  BY DEF StepsLeft
<1>. QED
  BY <1>1, <1>2, <1>3, <1>4, <1>5, <1>6

LEMMA GoodLength ==
  ASSUME NEW cells, NEW W, Good(cells, W)
  PROVE  Len(cells) \in 0 .. MaxCells /\ MaxCells \in Nat \ {0}
BY MaxSlotsAssumption DEF Good, IsContents, MaxCells

(* A command has a number of steps before it, none only once it has ended. *)
LEMMA LeftBounds ==
  ASSUME NEW s, NEW F, NEW W, StateInv(s, F, W)
  PROVE  StepsLeft(s) \in 0 .. MaxSteps /\ (s # Idle => StepsLeft(s) > 0)
<1>1. MaxCells \in Nat \ {0}
  BY MaxSlotsAssumption DEF MaxCells
<1>2. CASE s = Idle
  BY <1>1, <1>2, LeftAt DEF Idle, MaxSteps
<1>3. CASE ReadsVault(s, W)
  <2>1. s.at = "read" /\ s.path = "vault" /\ Len(s.buf) \in 0 .. MaxCells
    BY <1>3, GoodLength DEF ReadsVault
  <2>2. StepsLeft(s) = 2 * MaxCells - Len(s.buf) + 5
    BY <2>1, LeftAt
  <2>. DEFINE n == Len(s.buf)
  <2>3. n \in 0 .. MaxCells /\ StepsLeft(s) = 2 * MaxCells - n + 5
    BY <2>1, <2>2
  <2>. HIDE DEF n
  <2>. QED
    BY <1>1, <2>3 DEF MaxSteps
<1>4. CASE ReadsSealed(s, W)
  <2>1. s.at = "read" /\ s.path = "sealed" /\ Len(s.buf) \in 0 .. MaxCells
    BY <1>4, GoodLength DEF ReadsSealed
  <2>2. StepsLeft(s) = MaxCells - Len(s.buf) + 3
    BY <2>1, LeftAt
  <2>. DEFINE n == Len(s.buf)
  <2>3. n \in 0 .. MaxCells /\ StepsLeft(s) = MaxCells - n + 3
    BY <2>1, <2>2
  <2>. HIDE DEF n
  <2>. QED
    BY <1>1, <2>3 DEF MaxSteps
<1>5. CASE OpensVault(s, W)
  <2>1. StepsLeft(s) = MaxCells + 4
    BY <1>5, LeftAt DEF OpensVault
  <2>. QED
    BY <1>1, <2>1 DEF MaxSteps
<1>6. CASE Writes(s, W)
  <2>1. s.at \in {"create", "write"} /\ Len(s.data) \in 0 .. MaxCells
        /\ s.pos \in 0 .. Len(s.data) - 1
    BY <1>6, GoodLength DEF Writes
  <2>2. StepsLeft(s) \in {Len(s.data) - s.pos, Len(s.data) + 1}
    BY <2>1, LeftAt
  <2>. QED
    BY <1>1, <2>1, <2>2 DEF MaxSteps
<1>. QED
  BY <1>2, <1>3, <1>4, <1>5, <1>6 DEF StateInv

(* What the state of a command is after a step of its own. *)
LEMMA StateAfter ==
  ASSUME Inv, NEW t \in Terminal, NEW s, Goes(t, s)
  PROVE  proc'[t] = s /\ \A u \in Terminal \ {t} : proc'[u] = proc[u]
<1>1. proc = [u \in Terminal |-> proc[u]]
  BY DEF Inv
<1>2. proc' = [proc EXCEPT ![t] = s]
  BY DEF Goes
<1>. QED
  BY <1>1, <1>2

(* A command that ends from any stage is nearer its end. *)
LEMMA EndsNearer ==
  ASSUME Inv, NEW t \in Terminal, proc[t] # Idle, Goes(t, Idle)
  PROVE  StepsLeft(proc'[t]) < StepsLeft(proc[t])
<1>1. StepsLeft(proc[t]) > 0
  BY LeftBounds DEF Inv
<1>2. StepsLeft(proc'[t]) = 0
  BY StateAfter, LeftAt DEF Idle
<1>. QED
  BY <1>1, <1>2

(* A read command reads one of two files, and no more than a full one holds
   (aegis.rs:72-82, 168-189). *)
LEMMA ReadingStage ==
  ASSUME Inv, NEW t \in Terminal, proc[t].at = "read"
  PROVE  /\ Len(proc[t].buf) \in 0 .. MaxCells /\ proc[t].buf \in Seq(Cell)
         /\ \/ ReadsVault(proc[t], written) /\ proc[t].path = "vault"
               /\ StepsLeft(proc[t]) = 2 * MaxCells - Len(proc[t].buf) + 5
            \/ ReadsSealed(proc[t], written) /\ proc[t].path = "sealed"
               /\ StepsLeft(proc[t]) = MaxCells - Len(proc[t].buf) + 3
<1>1. ReadsVault(proc[t], written) \/ ReadsSealed(proc[t], written)
  BY Stages
<1>2. Good(proc[t].buf, written)
  BY <1>1 DEF ReadsVault, ReadsSealed
<1>3. /\ ReadsVault(proc[t], written) => proc[t].path = "vault"
      /\ ReadsSealed(proc[t], written) => proc[t].path = "sealed"
  BY DEF ReadsVault, ReadsSealed
<1>4. proc[t].buf \in Seq(Cell)
  BY <1>2 DEF Good, IsContents
<1>. QED
  BY <1>1, <1>2, <1>3, <1>4, GoodLength, LeftAt

LEMMA ReadCellNearer ==
  ASSUME Inv, NEW t \in Terminal, ReadCell(t)
  PROVE  StepsLeft(proc'[t]) < StepsLeft(proc[t])
<1>. DEFINE buf  == proc[t].buf
            cell == file[proc[t].path][Len(buf) + 1]
            s    == [proc[t] EXCEPT !.buf = Append(buf, cell)]
<1>1. proc[t].at = "read" /\ Goes(t, s)
  BY DEF ReadCell
<1>2. /\ Len(buf) \in 0 .. MaxCells /\ buf \in Seq(Cell)
      /\ \/ ReadsVault(proc[t], written) /\ proc[t].path = "vault"
            /\ StepsLeft(proc[t]) = 2 * MaxCells - Len(buf) + 5
         \/ ReadsSealed(proc[t], written) /\ proc[t].path = "sealed"
            /\ StepsLeft(proc[t]) = MaxCells - Len(buf) + 3
  BY <1>1, ReadingStage
<1>3. Len(Append(buf, cell)) = Len(buf) + 1
  BY <1>2
<1>. HIDE DEF cell
<1>4. s.at = "read" /\ s.path = proc[t].path /\ s.buf = Append(buf, cell)
  BY <1>1, <1>2 DEF ReadsVault, ReadsSealed
<1>. HIDE DEF s
<1>5. proc'[t] = s
  BY <1>1, StateAfter
<1>6. \/ proc[t].path = "vault" /\ StepsLeft(s) = 2 * MaxCells - (Len(buf) + 1) + 5
         /\ StepsLeft(proc[t]) = 2 * MaxCells - Len(buf) + 5
      \/ proc[t].path = "sealed" /\ StepsLeft(s) = MaxCells - (Len(buf) + 1) + 3
         /\ StepsLeft(proc[t]) = MaxCells - Len(buf) + 3
  BY <1>2, <1>3, <1>4, LeftAt
<1>7. MaxCells \in Nat
  BY MaxSlotsAssumption DEF MaxCells
<1>. DEFINE n == Len(buf)
<1>8. /\ n \in 0 .. MaxCells
      /\ \/ StepsLeft(s) = 2 * MaxCells - (n + 1) + 5 /\ StepsLeft(proc[t]) = 2 * MaxCells - n + 5
         \/ StepsLeft(s) = MaxCells - (n + 1) + 3 /\ StepsLeft(proc[t]) = MaxCells - n + 3
  BY <1>2, <1>6
<1>. HIDE DEF n
<1>9. StepsLeft(s) < StepsLeft(proc[t])
  BY <1>7, <1>8
<1>. QED
  BY <1>5, <1>9

LEMMA EndVaultNearer ==
  ASSUME Inv, NEW t \in Terminal, EndVault(t)
  PROVE  StepsLeft(proc'[t]) < StepsLeft(proc[t])
<1>. DEFINE s == Opening(proc[t].cmd, proc[t].buf)
<1>1. proc[t].at = "read" /\ proc[t].path = "vault" /\ (Goes(t, s) \/ Goes(t, Idle))
  BY DEF EndVault, HasRead, At
<1>2. MaxCells \in Nat /\ Len(proc[t].buf) \in 0 .. MaxCells
      /\ StepsLeft(proc[t]) = 2 * MaxCells - Len(proc[t].buf) + 5
  BY <1>1, ReadingStage, MaxSlotsAssumption DEF MaxCells
<1>3. CASE Goes(t, Idle)
  BY <1>1, <1>3, EndsNearer DEF Idle
<1>4. CASE Goes(t, s)
  <2>1. proc'[t] = s
    BY <1>4, StateAfter
  <2>2. s.at = "opening"
    BY DEF Opening
  <2>. HIDE DEF s
  <2>3. StepsLeft(s) = MaxCells + 4
    BY <2>2, LeftAt
  <2>. QED
    BY <1>2, <2>1, <2>3
<1>. QED
  BY <1>1, <1>3, <1>4

(* A command that is about to create a file writes no more than a full vault
   file holds. *)
LEMMA CreatingLeft ==
  ASSUME NEW cmd, NEW path, NEW v, NEW cells
  PROVE  StepsLeft(Creating(cmd, path, v, cells)) = Len(cells) + 1
<1>1. /\ Creating(cmd, path, v, cells).at = "create"
      /\ Creating(cmd, path, v, cells).data = cells
  BY DEF Creating
<1>. QED
  BY <1>1, LeftAt

LEMMA UseVaultNearer ==
  ASSUME Inv, NEW t \in Terminal, UseVault(t), Inv'
  PROVE  StepsLeft(proc'[t]) < StepsLeft(proc[t])
<1>. DEFINE cmd == proc[t].cmd
<1>1. proc[t].at = "opening" /\ MaxCells \in Nat
  BY MaxSlotsAssumption DEF UseVault, MaxCells
<1>2. StepsLeft(proc[t]) = MaxCells + 4 /\ proc[t] # Idle
  BY <1>1, LeftAt DEF Idle
<1>3. \/ Goes(t, Idle)
      \/ \E v : Goes(t, Reading(cmd, "sealed", v))
      \/ \E path, v, cells : Goes(t, Creating(cmd, path, v, cells))
  <2>1. CASE Goes(t, Idle)
    BY <2>1
  <2>2. ASSUME NEW v, Add(t, v)
        PROVE  Goes(t, Idle) \/ \E path, w, cells : Goes(t, Creating(cmd, path, w, cells))
    BY <2>2 DEF Add
  <2>3. ASSUME NEW v, UseOpened(t, v)
        PROVE  \/ Goes(t, Idle)
               \/ \E w : Goes(t, Reading(cmd, "sealed", w))
               \/ \E path, w, cells : Goes(t, Creating(cmd, path, w, cells))
    BY <2>3 DEF UseOpened
  <2>4. Goes(t, Idle) \/ \E v : Add(t, v) \/ UseOpened(t, v)
    BY DEF UseVault
  <2>. HIDE DEF cmd
  <2>. QED
    BY <2>1, <2>2, <2>3, <2>4
<1>. HIDE DEF cmd
<1>4. CASE Goes(t, Idle)
  BY <1>2, <1>4, EndsNearer
<1>5. ASSUME NEW v, Goes(t, Reading(cmd, "sealed", v))
      PROVE  StepsLeft(proc'[t]) < StepsLeft(proc[t])
  <2>1. proc'[t] = Reading(cmd, "sealed", v)
    BY <1>5, StateAfter
  <2>2. /\ Reading(cmd, "sealed", v).at = "read" /\ Reading(cmd, "sealed", v).path = "sealed"
        /\ Len(Reading(cmd, "sealed", v).buf) = 0
    BY DEF Reading
  <2>3. StepsLeft(proc'[t]) = MaxCells - 0 + 3
    BY <2>1, <2>2, LeftAt
  <2>. QED
    BY <1>1, <1>2, <2>3
<1>6. ASSUME NEW path, NEW v, NEW cells, Goes(t, Creating(cmd, path, v, cells))
      PROVE  StepsLeft(proc'[t]) < StepsLeft(proc[t])
  <2>. DEFINE s == Creating(cmd, path, v, cells)
  <2>1. proc'[t] = s
    BY <1>6, StateAfter
  <2>2. s.at = "create" /\ s.data = cells
    BY DEF Creating
  <2>3. Writes(proc'[t], written')
    <3>1. StateInv(proc'[t], file', written')
      BY DEF Inv
    <3>2. proc'[t].at = "create"
      BY <2>1, <2>2
    <3>. QED
      BY <3>1, <3>2 DEF StateInv, Idle, ReadsVault, ReadsSealed, OpensVault
  <2>4. Good(cells, written')
    BY <2>1, <2>2, <2>3 DEF Writes
  <2>5. Len(cells) \in 0 .. MaxCells
    BY <2>4, GoodLength
  <2>6. StepsLeft(proc'[t]) = Len(cells) + 1
    BY <2>1, CreatingLeft
  <2>. QED
    BY <1>1, <1>2, <2>5, <2>6
<1>. QED
  BY <1>3, <1>4, <1>5, <1>6

LEMMA DecryptNearer ==
  ASSUME Inv, NEW t \in Terminal, Decrypt(t)
  PROVE  StepsLeft(proc'[t]) < StepsLeft(proc[t])
<1>. DEFINE opened == UnsealedWith(proc[t].vault, proc[t].buf)
            text   == [part |-> "text", text |-> opened.val]
            s      == Creating(proc[t].cmd, "plain", proc[t].vault, <<text>>)
<1>1. proc[t].at = "read" /\ proc[t].path = "sealed" /\ (Goes(t, s) \/ Goes(t, Idle))
  BY DEF Decrypt, HasRead, At
<1>. HIDE DEF text
<1>2. StepsLeft(s) = 2
  <2>1. Len(<<text>>) = 1
    OBVIOUS
  <2>2. StepsLeft(s) = Len(<<text>>) + 1
    BY CreatingLeft
  <2>. QED
    BY <2>1, <2>2
<1>. HIDE DEF s
<1>3. StepsLeft(proc[t]) > 2
  <2>. DEFINE n == Len(proc[t].buf)
  <2>1. n \in 0 .. MaxCells /\ StepsLeft(proc[t]) = MaxCells - n + 3
    BY <1>1, ReadingStage
  <2>2. MaxCells \in Nat
    BY MaxSlotsAssumption DEF MaxCells
  <2>. HIDE DEF n
  <2>. QED
    BY <2>1, <2>2
<1>4. CASE Goes(t, Idle)
  BY <1>1, <1>4, EndsNearer DEF Idle
<1>5. CASE Goes(t, s)
  <2>1. proc'[t] = s
    BY <1>5, StateAfter
  <2>. QED
    BY <1>2, <1>3, <2>1
<1>. QED
  BY <1>1, <1>4, <1>5

LEMMA WritingNearer ==
  ASSUME Inv, NEW t \in Terminal, CreateFile(t) \/ WriteCell(t) \/ Finish(t)
  PROVE  StepsLeft(proc'[t]) < StepsLeft(proc[t])
<1>. DEFINE len == Len(proc[t].data)
            pos == proc[t].pos
<1>1. proc[t].at \in {"create", "write"}
  BY DEF CreateFile, WriteCell, Finish
<1>2. Writes(proc[t], written)
  BY <1>1, Stages
<1>3. len \in Nat /\ pos \in 0 .. len - 1
  BY <1>2, GoodLength DEF Writes
<1>4. CASE CreateFile(t)
  <2>. DEFINE s == [proc[t] EXCEPT !.at = "write"]
  <2>1. Goes(t, s) /\ proc[t].at = "create"
    BY <1>4 DEF CreateFile
  <2>2. s.at = "write" /\ s.data = proc[t].data /\ s.pos = pos
    BY <1>2 DEF Writes
  <2>. HIDE DEF s
  <2>3. StepsLeft(s) = len - pos /\ StepsLeft(proc[t]) = len + 1
    BY <2>1, <2>2, LeftAt
  <2>4. proc'[t] = s
    BY <2>1, StateAfter
  <2>. HIDE DEF len, pos
  <2>. QED
    BY <1>3, <2>3, <2>4
<1>5. CASE WriteCell(t)
  <2>. DEFINE s == [proc[t] EXCEPT !.pos = pos + 1]
  <2>1. Goes(t, s) /\ proc[t].at = "write"
    BY <1>5 DEF WriteCell
  <2>2. s.at = "write" /\ s.data = proc[t].data /\ s.pos = pos + 1
    BY <1>2, <2>1 DEF Writes
  <2>. HIDE DEF s
  <2>3. StepsLeft(s) = len - (pos + 1) /\ StepsLeft(proc[t]) = len - pos
    BY <2>1, <2>2, LeftAt
  <2>4. proc'[t] = s
    BY <2>1, StateAfter
  <2>. HIDE DEF len, pos
  <2>. QED
    BY <1>3, <2>3, <2>4
<1>6. CASE Finish(t)
  BY <1>1, <1>6, EndsNearer DEF Finish, Idle
<1>. QED
  BY <1>4, <1>5, <1>6

(* A step of command t brings its end nearer. *)
LEMMA AdvanceNearer ==
  ASSUME Inv, NEW t \in Terminal, Advance(t), Inv'
  PROVE  StepsLeft(proc'[t]) < StepsLeft(proc[t])
<1>1. CASE NotFound(t)
  BY <1>1, EndsNearer DEF NotFound, Idle
<1>. QED
  BY <1>1, ReadCellNearer, EndVaultNearer, UseVaultNearer, DecryptNearer, WritingNearer
  DEF Advance

(* A command of aegis.rs never loops: whatever others write to the files it
   reads, it has at most MaxSteps steps, each of its own brings its end nearer,
   and no step of another puts it off.  That it takes them is what the fairness
   of FairSpec is for, and TLC checks. *)
THEOREM CommandsRunDown == Spec => BoundedSteps
<1>1. ASSUME Inv, Inv', [Next]_vars, NEW t \in Terminal
      PROVE  /\ StepsLeft(proc[t]) \in 0 .. MaxSteps
             /\ Advance(t) => StepsLeft(proc[t])' < StepsLeft(proc[t])
             /\ proc[t] # Idle => StepsLeft(proc[t])' <= StepsLeft(proc[t])
  <2>1. StepsLeft(proc[t]) \in 0 .. MaxSteps /\ StepsLeft(proc[t])' \in 0 .. MaxSteps
        /\ MaxSteps \in Nat
    <3>1. StateInv(proc[t], file, written) /\ StateInv(proc'[t], file', written')
      BY <1>1 DEF Inv
    <3>2. MaxSteps \in Nat
      BY MaxSlotsAssumption DEF MaxSteps, MaxCells
    <3>. QED
      BY <3>1, <3>2, LeftBounds
  <2>2. Advance(t) => StepsLeft(proc'[t]) < StepsLeft(proc[t])
    BY <1>1, AdvanceNearer
  <2>3. ASSUME proc[t] # Idle  PROVE StepsLeft(proc'[t]) <= StepsLeft(proc[t])
    <3>1. CASE UNCHANGED vars
      BY <2>1, <3>1 DEF vars
    <3>2. ASSUME NEW u \in Terminal, u # t, NEW s, Goes(u, s)
          PROVE  StepsLeft(proc'[t]) <= StepsLeft(proc[t])
      <4>1. proc'[t] = proc[t]
        BY <1>1, <3>2, StateAfter
      <4>. QED
        BY <2>1, <4>1
    <3>3. ASSUME NEW u \in Terminal, StartAny(u) \/ Advance(u) \/ Die(u)
          PROVE  \E s : Goes(u, s)
      BY <3>3 DEF StartAny, StartWriter, StartInit, StartAdd, StartSeal, StartReader,
         StartOnVault, Advance, NotFound, ReadCell, EndVault, UseVault, Add, UseOpened, Decrypt,
         CreateFile, WriteCell, Finish, Die
    <3>4. StartAny(t) => proc[t] = Idle
      BY DEF StartAny, StartWriter, StartInit, StartAdd, StartSeal, StartReader, StartOnVault
    <3>5. Die(t) => Goes(t, Idle)
      BY DEF Die
    <3>6. CASE Advance(t)
      BY <2>1, <2>2, <3>6
    <3>7. CASE Die(t)
      BY <1>1, <2>1, <2>3, <3>5, <3>7, EndsNearer
    <3>8. CASE \E u \in Terminal \ {t} : StartAny(u) \/ Advance(u) \/ Die(u)
      BY <3>2, <3>3, <3>8
    <3>9. CASE Next
      <4>1. PICK u \in Terminal : StartAny(u) \/ Advance(u) \/ Die(u)
        BY <3>9 DEF Next
      <4>. QED
        BY <4>1, <2>3, <3>4, <3>6, <3>7, <3>8
    <3>. QED
      BY <1>1, <3>1, <3>9
  <2>. QED
    BY <2>1, <2>2, <2>3
<1>2. ASSUME Inv, Inv', [Next]_vars
      PROVE  [\A t \in Terminal :
                /\ StepsLeft(proc[t]) \in 0 .. MaxSteps
                /\ Advance(t) => StepsLeft(proc[t])' < StepsLeft(proc[t])
                /\ proc[t] # Idle => StepsLeft(proc[t])' <= StepsLeft(proc[t])]_vars
  BY <1>1, <1>2
<1>. QED
  BY <1>2, Invariant, PTL DEF Spec, BoundedSteps
=============================================================================
