------------------------------ MODULE FileProofs ----------------------------
(***************************************************************************)
(* The commands implement the vault file, if one of them at a time changes *)
(* files: every step of theirs maps to a step of VaultFile or to none.     *)
(***************************************************************************)
EXTENDS CliImplementsVaultFile, AegisSerialProofs

LEMMA TheOne ==
  ASSUME NEW x
  PROVE  The({x}) = x
BY DEF The

-----------------------------------------------------------------------------
(* Who opens a table                                                       *)

LEMMA OpensIfSlot ==
  ASSUME NEW table \in Table, NEW p
  PROVE  Opens(table, p) # {} <=> HasSlot(table, p)
<1>1. table.slots \in Seq(Slot)
  BY DEF Table
<1>2. DOMAIN table.slots = 1 .. Len(table.slots)
  BY <1>1
<1>3. \A i \in DOMAIN table.slots : is_enabled(table.slots[i])
  BY <1>1, SlotEnabled DEF is_enabled
<1>. QED
  BY <1>2, <1>3 DEF Opens, enabled_slots, HasSlot

(* The key of a slot tells the passphrase. *)
LEMMA SlotKeysDiffer ==
  ASSUME NEW p, NEW q, NEW d, SlotKey(p, SlotSalt(d)) = SlotKey(q, SlotSalt(d))
  PROVE  p = q
<1>1. Argon2Accepts(SlotSalt(d), SLOT_M_COST, SLOT_T_COST)
  BY DEF Argon2Accepts, SlotSalt, SaltOf, SLOT_M_COST, SLOT_T_COST
<1>2. \A x : SlotKey(x, SlotSalt(d))
              = [kdf |-> "argon2id", passphrase |-> x, salt |-> SlotSalt(d),
                 m_cost |-> SLOT_M_COST, t_cost |-> SLOT_T_COST]
  BY <1>1 DEF SlotKey, argon2id_root, Ok
<1>. QED
  BY <1>2

LEMMA SlotOpensFor ==
  ASSUME NEW m, NEW p, NEW d, NEW q
  PROVE  unseal(KeySlot_create(m, p, d), q).ok <=> q = p
<1> DEFINE slot  == KeySlot_create(m, p, d)
           nonce == FreshNonce("Aes256Gcm", d)
           key   == SlotKey(p, SlotSalt(d))
           other == SlotKey(q, SlotSalt(d))
<1>1. unseal(slot, p).ok
  BY CreatedOpens
<1>2. ASSUME unseal(slot, q).ok  PROVE q = p
  <2>1. slot = [salt |-> SlotSalt(d), nonce |-> nonce,
                ct |-> Ciphertext("Aes256Gcm", key, nonce, m, HEADER_MAGIC), enabled |-> TRUE]
    BY DEF KeySlot_create, seal
  <2> HIDE DEF slot
  <2>2. slot.salt = SlotSalt(d) /\ slot.ct.key = key
    BY <2>1 DEF Ciphertext
  <2>3. open("Aes256Gcm", other, slot.nonce, slot.ct, HEADER_MAGIC).ok
    BY <1>2, <2>2 DEF unseal, Err
  <2>4. slot.ct = Ciphertext("Aes256Gcm", other, slot.nonce, slot.ct.msg, HEADER_MAGIC)
    BY <2>3 DEF open, AeadDecrypt, Panic, Err
  <2> HIDE DEF key, other
  <2>5. slot.ct.key = other
    BY <2>4 DEF Ciphertext
  <2> QED
    BY <2>2, <2>5, SlotKeysDiffer DEF key, other
<1>. QED
  BY <1>1, <1>2

LEMMA InitialUser ==
  ASSUME NEW m, NEW p, NEW d, NEW q
  PROVE  HasSlot(new_initial(m, p, d), q) <=> q = p
<1> DEFINE table == new_initial(m, p, d)
<1>1. Len(table.slots) = 1 /\ table.slots[1] = KeySlot_create(m, p, d)
  <2> DEFINE slot == KeySlot_create(m, p, d)
  <2>1. table.slots = <<slot>>
    BY DEF new_initial
  <2> HIDE DEF slot
  <2>2. Len(table.slots) = 1 /\ table.slots[1] = slot
    BY <2>1
  <2> QED
    BY <2>2 DEF slot
<1> HIDE DEF table
<1>2. HasSlot(table, q) <=> unseal(table.slots[1], q).ok
  BY <1>1 DEF HasSlot
<1>. QED
  BY <1>1, <1>2, SlotOpensFor DEF table

LEMMA AddedUser ==
  ASSUME NEW table \in Table, NEW m, NEW p, NEW d, table_add_slot(table, m, p, d).ok, NEW q
  PROVE  HasSlot(table_add_slot(table, m, p, d).val.table, q) <=> HasSlot(table, q) \/ q = p
<1> DEFINE slot  == KeySlot_create(m, p, d)
           added == table_add_slot(table, m, p, d).val.table
           n     == Len(table.slots)
<1>1. added = [table EXCEPT !.slots = Append(@, slot)]
  BY DEF table_add_slot, Ok, Err
<1>2. unseal(slot, q).ok <=> q = p
  BY SlotOpensFor
<1> HIDE DEF slot, added
<1>3. /\ table = [header_salt |-> table.header_salt, slots |-> table.slots,
                  verifier |-> table.verifier]
      /\ table.slots \in Seq(Slot)
  BY DEF Table
<1>4. added.slots = Append(table.slots, slot)
  BY <1>1, <1>3
<1>5. /\ n \in Nat /\ Len(added.slots) = n + 1 /\ added.slots[n + 1] = slot
      /\ \A i \in 1 .. n : added.slots[i] = table.slots[i]
  BY <1>3, <1>4
<1> HIDE DEF n
<1>6. 1 .. n + 1 = (1 .. n) \cup {n + 1}
  BY <1>5
<1>7. HasSlot(table, q) <=> \E i \in 1 .. n : unseal(added.slots[i], q).ok
  BY <1>5 DEF HasSlot, n
<1>8. HasSlot(added, q) <=> \E i \in (1 .. n) \cup {n + 1} : unseal(added.slots[i], q).ok
  BY <1>5, <1>6 DEF HasSlot
<1>. QED
  BY <1>2, <1>5, <1>7, <1>8 DEF added

-----------------------------------------------------------------------------
(* What contents stand for                                                 *)

(* What there is of a file with contents c. *)
Present(c) == {c} \ {None}

LEMMA ParsedBack ==
  ASSUME NEW table \in Table
  PROVE  from_bytes(to_bytes(table), table.header_salt) = Ok(table)
<1> DEFINE bytes == to_bytes(table)
           salt  == table.header_salt
<1>1. table = [header_salt |-> table.header_salt, slots |-> table.slots,
               verifier |-> table.verifier]
  BY DEF Table
<1>2. /\ bytes.body = [slots |-> table.slots, verifier |-> table.verifier]
      /\ bytes.mac = keyed_hash(salt, bytes.body)
  BY DEF to_bytes
<1>3. from_bytes(bytes, salt)
        = Ok([header_salt |-> salt, slots |-> bytes.body.slots,
              verifier |-> bytes.body.verifier])
  BY <1>2 DEF from_bytes
<1>. QED
  BY <1>1, <1>2, <1>3

LEMMA OneTable ==
  ASSUME NEW cells, IsVault(cells), NEW table,
         from_bytes(VaultBytes(cells), cells[1].header_salt) = Ok(table)
  PROVE  TablesIn({cells}) = {table}
<1> DEFINE read == from_bytes(VaultBytes(cells), cells[1].header_salt)
<1>1. {c \in {cells} : IsVault(c)} = {cells}
  OBVIOUS
<1>2. {from_bytes(VaultBytes(c), c[1].header_salt) : c \in {cells}} = {read}
  OBVIOUS
<1>3. read.ok /\ read.val = table
  BY DEF Ok
<1> HIDE DEF read
<1>4. {parsed.val : parsed \in {r \in {read} : r.ok}} = {table}
  BY <1>3
<1>. QED
  BY <1>1, <1>2, <1>4 DEF TablesIn

LEMMA NoTable ==
  ASSUME NEW contents, \A cells \in contents : ~IsVault(cells)
  PROVE  TablesIn(contents) = {} /\ UsersIn(contents) = {} /\ VolumeIn(contents) = None
<1>1. {c \in contents : IsVault(c)} = {}
  OBVIOUS
<1>2. TablesIn(contents) = {}
  BY <1>1 DEF TablesIn
<1>. QED
  BY <1>2 DEF UsersIn, VolumeIn, The

LEMMA TableStandsFor ==
  ASSUME NEW contents, NEW table \in Table, TablesIn(contents) = {table}
  PROVE  /\ UsersIn(contents) = {p \in Passphrase : HasSlot(table, p)}
         /\ VolumeIn(contents) = table.verifier.data
<1>1. UsersIn(contents) = {p \in Passphrase : Opens(table, p) # {}}
  BY DEF UsersIn
<1>2. {t.verifier.data : t \in {table}} = {table.verifier.data}
  OBVIOUS
<1>3. VolumeIn(contents) = table.verifier.data
  BY <1>2, TheOne DEF VolumeIn
<1>. QED
  BY <1>1, <1>3, OpensIfSlot

LEMMA WrittenStandsFor ==
  ASSUME NEW table \in Table, Len(table.slots) \in 1 .. MAX_SLOTS
  PROVE  /\ UsersIn({VaultCells(table)}) = {p \in Passphrase : HasSlot(table, p)}
         /\ VolumeIn({VaultCells(table)}) = table.verifier.data
<1> DEFINE cells == VaultCells(table)
<1>1. /\ IsVault(cells) /\ VaultBytes(cells) = to_bytes(table)
      /\ cells[1].header_salt = table.header_salt
  BY ReadBack
<1> HIDE DEF cells
<1>2. from_bytes(VaultBytes(cells), cells[1].header_salt) = Ok(table)
  BY <1>1, ParsedBack
<1>3. TablesIn({cells}) = {table}
  BY <1>1, <1>2, OneTable
<1>. QED
  BY <1>3, TableStandsFor DEF cells

(* The tail comes last: what is written of a table is not one before the end. *)
LEMMA PartIsNoVault ==
  ASSUME NEW table \in Table, Len(table.slots) \in 1 .. MAX_SLOTS,
         NEW pos \in 0 .. Len(VaultCells(table)) - 1, NEW cells, Len(cells) = pos,
         \A k \in 1 .. pos : cells[k] = VaultCells(table)[k]
  PROVE  ~IsVault(cells)
<1> DEFINE n    == Len(table.slots)
           head == [part |-> "head", header_salt |-> table.header_salt, count |-> n]
           tail == [part |-> "tail", verifier |-> table.verifier, mac |-> to_bytes(table).mac]
           data == VaultCells(table)
<1>1. data = [k \in 1 .. 2 * n + 2 |->
                IF k = 1 THEN head
                ELSE IF k < 2 * n + 2 THEN SlotCell(table.slots, k) ELSE tail]
  BY DEF VaultCells
<1>2. n \in Nat
  BY MaxSlotsAssumption
<1>3. head.part = "head" /\ \A k : SlotCell(table.slots, k).part \in {"front", "back"}
  BY DEF SlotCell
<1>4. Len(data) = 2 * n + 2
  <2> DEFINE len == 2 * n + 2
  <2>1. len \in Nat
    BY <1>2
  <2>2. DOMAIN data = 1 .. len /\ data = [k \in 1 .. len |-> data[k]]
    BY <1>1
  <2> HIDE DEF len, data
  <2>3. Len(data) = len
    BY <2>1, <2>2
  <2> QED
    BY <2>3 DEF len
<1> HIDE DEF head, tail, n
<1>5. ASSUME NEW k \in 1 .. pos  PROVE data[k].part # "tail"
  <2>1. k \in 1 .. 2 * n + 2 /\ k < 2 * n + 2
    BY <1>2, <1>4
  <2>2. data[k] = head \/ data[k] = SlotCell(table.slots, k)
    BY <1>1, <2>1
  <2> QED
    BY <1>3, <2>2
<1> HIDE DEF data
<1>6. \A k \in 1 .. pos : cells[k].part # "tail"
  BY <1>5 DEF data
<1>7. SUFFICES ASSUME IsVault(cells)  PROVE FALSE
  OBVIOUS
<1>8. Len(cells) >= 2 /\ cells[Len(cells)].part = "tail"
  <2> DEFINE m == (Len(cells) - 2) \div 2
  <2>1. Len(cells) >= 2 /\ Len(cells) = 2 * m + 2 /\ cells[2 * m + 2].part = "tail"
    BY <1>7 DEF IsVault
  <2> HIDE DEF m
  <2> QED
    BY <2>1
<1>9. pos \in 1 .. pos
  BY <1>4, <1>8
<1>. QED
  BY <1>6, <1>8, <1>9

(* A sealed file stands for its text and the volume of its key. *)
LEMMA SealedStandsFor ==
  ASSUME NEW v \in OpenVault, NEW i, NEW d
  PROVE  SealedIn({BlobCells(SealedWith(v, i, d))}) = [text |-> i, volume |-> v.master]
<1> DEFINE key   == v.hierarchy["Enc"]
           nonce == FreshNonce("XChaCha20Poly1305", d)
           ct    == Ciphertext("XChaCha20Poly1305", key, nonce, i, "aegis-cli")
           cells == BlobCells(SealedWith(v, i, d))
           entry == [text |-> i, volume |-> v.master]
<1>1. SealedWith(v, i, d) = [nonce |-> nonce, ct |-> ct]
  BY DEF SealedWith, Encrypted, domain, seal
<1>2. ct.msg = i /\ ct.key = key
  BY DEF Ciphertext
<1> HIDE DEF nonce, ct
<1>3. cells = <<[part |-> "nonce", nonce |-> nonce], [part |-> "ct", ct |-> ct]>>
  BY <1>1 DEF BlobCells
<1> HIDE DEF cells
<1>4. IsBlob(cells) /\ cells[2].ct = ct
  BY <1>3 DEF IsBlob
<1>5. v.hierarchy = from_master(v.master) /\ v.master \in Master
  BY DEF OpenVault
<1>6. \A n : from_master(n)["Enc"].ikm = n
  BY DEF from_master, derive, hkdf_sha256, Domain
<1>7. {n \in Master : from_master(n)["Enc"] = key} = {v.master}
  <2>1. \A n \in Master : from_master(n)["Enc"] = from_master(v.master)["Enc"] <=> n = v.master
    BY <1>6
  <2> QED
    BY <1>5, <2>1
<1> HIDE DEF key
<1>8. [text |-> cells[2].ct.msg, volume |-> VolumeUnder(cells[2].ct.key)] = entry
  BY <1>2, <1>4, <1>7, TheOne DEF VolumeUnder
<1>9. {c \in {cells} : IsBlob(c)} = {cells}
  BY <1>4
<1>10. {[text |-> c[2].ct.msg, volume |-> VolumeUnder(c[2].ct.key)] : c \in {cells}} = {entry}
  BY <1>8
<1>11. SealedIn({cells}) = The({entry})
  BY <1>9, <1>10 DEF SealedIn
<1>. QED
  BY <1>11, TheOne DEF cells

LEMMA NoBlob ==
  ASSUME NEW contents, \A cells \in contents : ~IsBlob(cells)
  PROVE  SealedIn(contents) = None
<1>1. {c \in contents : IsBlob(c)} = {}
  OBVIOUS
<1>. QED
  BY <1>1 DEF SealedIn, The

-----------------------------------------------------------------------------
(* What a writer is about to change, and for whom                          *)

(* What init will write makes its user the only one of that user's volume,
   and while it writes nobody has been told of access. *)
Founds(s, M) ==
  s.cmd.name = "init" =>
    /\ s.at = "create" => /\ UsersIn({s.data}) = {s.cmd.p}
                          /\ VolumeIn({s.data}) = MasterOf(s.cmd.p)
    /\ s.at = "write" => M = {}

(* What add will write has a user more than the file with contents c, and the
   same volume; one of the file's users has asked for it. *)
LetsIn(s, c) ==
  s.at = "create" /\ s.cmd.name = "add" =>
    /\ s.cmd.p \in UsersIn(Present(c))
    /\ UsersIn({s.data}) = UsersIn(Present(c)) \cup {s.cmd.n}
    /\ VolumeIn({s.data}) = VolumeIn(Present(c))

(* A user of the file seals, under its volume. *)
SealsFor(s, c) ==
  s.at = "create" /\ s.cmd.name = "seal" =>
    s.cmd.p \in UsersIn(Present(c)) /\ s.vault.master = VolumeIn(Present(c))

Prepared(s, c, M) == Founds(s, M) /\ LetsIn(s, c) /\ SealsFor(s, c)

FileInv ==
  \A t \in Terminal : Writer(proc[t]) => Prepared(proc[t], file["vault"], members)

LEMMA FileTurn ==
  ASSUME SerialInv, FileInv, NEW t \in Terminal, NEW s, Goes(t, s),
         Writer(s) => Prepared(s, file'["vault"], members'),
         \/ Writer(proc[t])
         \/ file'["vault"] = file["vault"] /\ members' = members
  PROVE  FileInv'
<1> SUFFICES ASSUME NEW u \in Terminal, Writer(proc'[u])
             PROVE  Prepared(proc'[u], file'["vault"], members')
  BY DEF FileInv
<1>1. proc'[t] = s /\ \A x \in Terminal : x # t => proc'[x] = proc[x]
  BY TurnsTo DEF SerialInv
<1>2. CASE u = t
  BY <1>1, <1>2, Zenon
<1>3. ASSUME u # t  PROVE Prepared(proc'[u], file'["vault"], members')
  <2>1. proc'[u] = proc[u] /\ Writer(proc[u]) /\ ~Writer(proc[t])
    BY <1>1, <1>3, Zenon DEF SerialInv
  <2>2. Prepared(proc[u], file["vault"], members)
    BY <2>1, Zenon DEF FileInv
  <2>3. file'["vault"] = file["vault"] /\ members' = members
    BY <2>1, Zenon
  <2> QED
    BY <2>1, <2>2, <2>3, Zenon
<1>. QED
  BY <1>2, <1>3

(* A step after which the command neither begins to change a file nor goes on
   to write one. *)
LEMMA IdleFileTurn ==
  ASSUME SerialInv, FileInv, NEW t \in Terminal, NEW s, Goes(t, s),
         s.at \in {"idle", "read", "opening"} \/ ~Writer(s),
         \/ Writer(proc[t])
         \/ file'["vault"] = file["vault"] /\ members' = members
  PROVE  FileInv'
<1>1. Writer(s) => Prepared(s, file'["vault"], members')
  BY DEF Prepared, Founds, LetsIn, SealsFor
<1> HIDE DEF Writer, Prepared
<1>. QED
  BY <1>1, FileTurn

LEMMA InitPrepared ==
  ASSUME SerialInv, SerialInv', FileInv, NEW t \in Terminal, NEW p \in Passphrase,
         StartInit(t, p)
  PROVE  FileInv'
<1> DEFINE v     == NewVault(MasterOf(p))
           table == new_initial(v.master, p, draws')
           cmd   == [name |-> "init", p |-> p]
           w     == [v EXCEPT !.slots = table]
           s     == Creating(cmd, "vault", w, VaultCells(table))
<1>1. /\ Goes(t, s) /\ written' = written \cup {table} /\ UNCHANGED <<file, members>>
  BY DEF StartInit
<1>2. v.master = MasterOf(p)
  BY DEF NewVault
<1>3. table.verifier.data = v.master
  BY DEF new_initial, volume_verifier, keyed_hash
<1>4. \A q : HasSlot(table, q) <=> q = p
  BY InitialUser
<1>5. s.at = "create" /\ s.data = VaultCells(table) /\ s.cmd.name = "init" /\ s.cmd.p = p
  BY DEF Creating
<1> HIDE DEF s, table, v
<1>6. table \in Table /\ Len(table.slots) \in 1 .. MAX_SLOTS
  BY <1>1 DEF SerialInv, Inv, WrittenInv
<1>7. UsersIn({s.data}) = {p}
  BY <1>4, <1>5, <1>6, WrittenStandsFor
<1>8. VolumeIn({s.data}) = MasterOf(p)
  BY <1>2, <1>3, <1>5, <1>6, WrittenStandsFor
<1>9. Prepared(s, file'["vault"], members')
  BY <1>5, <1>7, <1>8 DEF Prepared, Founds, LetsIn, SealsFor
<1>. QED
  BY <1>1, <1>9, FileTurn

(* A writer that opens a table has read it from the file as it is, and its user
   is one of the table's. *)
LEMMA OpensForUser ==
  ASSUME SerialInv, NEW t \in Terminal, Writer(proc[t]), proc[t].at = "opening",
         OpenedBy(t).ok
  PROVE  LET table == OpenedBy(t).val.table
         IN  /\ UsersIn(Present(file["vault"])) = {p \in Passphrase : HasSlot(table, p)}
             /\ VolumeIn(Present(file["vault"])) = OpenedBy(t).val.master
             /\ proc[t].cmd.p \in UsersIn(Present(file["vault"]))
<1> DEFINE opened == OpenedBy(t).val
           cells  == file["vault"]
           bytes  == proc[t].bytes
           salt   == proc[t].header_salt
           p      == proc[t].cmd.p
<1>1. /\ cells # None /\ IsVault(cells)
      /\ bytes = VaultBytes(cells) /\ salt = cells[1].header_salt
  BY Zenon DEF SerialInv, Holds, Knows
<1>2. OpenTable(bytes, salt, p).ok /\ opened = OpenTable(bytes, salt, p).val
  BY DEF OpenedBy
<1>3. opened.table \in Table
  BY OpenedVault DEF SerialInv, Inv, WrittenInv
<1>4. p \in Passphrase
  BY Stages DEF SerialInv, OpensVault, Cmd
<1> HIDE DEF opened, cells, bytes, salt, p
<1>5. opened.table.verifier = volume_verifier(opened.master)
  BY <1>2, OpenedVerified
<1> DEFINE parsed   == from_bytes(bytes, salt)
           unsealed == unseal_with(parsed.val, p)
<1>6. OpenTable(bytes, salt, p)
        = IF ~parsed.ok THEN parsed
          ELSE IF ~unsealed.ok THEN unsealed
          ELSE IF volume_verifier(unsealed.val.master) # parsed.val.verifier
          THEN Err("VolumeMismatch")
          ELSE Ok([master |-> unsealed.val.master, table |-> parsed.val])
  BY DEF OpenTable
<1>7. unsealed.ok => Opens(parsed.val, p) # {}
  BY DEF unseal_with, Err
<1>8. parsed.ok => parsed = Ok(parsed.val)
  BY DEF from_bytes, Ok, Err
<1> HIDE DEF parsed, unsealed
<1>9. parsed.ok /\ unsealed.ok /\ opened.table = parsed.val
  BY <1>2, <1>6 DEF Ok, Err
<1>10. Present(cells) = {cells}
  BY <1>1 DEF Present
<1>11. TablesIn({cells}) = {opened.table}
  BY <1>1, <1>8, <1>9, OneTable DEF parsed
<1>12. /\ UsersIn(Present(cells)) = {q \in Passphrase : HasSlot(opened.table, q)}
       /\ VolumeIn(Present(cells)) = opened.table.verifier.data
  BY <1>3, <1>10, <1>11, TableStandsFor
<1>13. VolumeIn(Present(cells)) = opened.master
  BY <1>5, <1>12 DEF volume_verifier, keyed_hash
<1>14. HasSlot(opened.table, p)
  BY <1>3, <1>7, <1>9, OpensIfSlot
<1>. QED
  BY <1>4, <1>12, <1>13, <1>14 DEF opened, cells, p

LEMMA AddPrepared ==
  ASSUME SerialInv, SerialInv', FileInv, NEW t \in Terminal,
         proc[t].at = "opening", OpenedBy(t).ok,
         Add(t, VaultFrom(OpenedBy(t).val, proc[t].cmd.p)), UNCHANGED <<file, members>>
  PROVE  FileInv'
<1> DEFINE opened == OpenedBy(t).val
           cmd    == proc[t].cmd
           v      == VaultFrom(opened, cmd.p)
           added  == table_add_slot(v.slots, v.master, cmd.n, cmd.draw)
           table  == added.val.table
           w      == [v EXCEPT !.slots = table]
           s      == Creating(cmd, "vault", w, VaultCells(table))
           c      == file["vault"]
<1>1. cmd.name = "add" /\ Writer(proc[t])
  BY DEF Add, Writer, Idle
<1>2. CASE ~added.ok
  BY <1>1, <1>2, IdleFileTurn DEF Add, Idle
<1>3. ASSUME added.ok  PROVE FileInv'
  <2>1. Goes(t, s) /\ written' = written \cup {table}
    BY <1>3 DEF Add
  <2>2. opened.table \in Table /\ v.slots = opened.table /\ v.master = opened.master
    BY OpenedVault, VaultMade DEF SerialInv, Inv, WrittenInv
  <2>3. /\ UsersIn(Present(c)) = {q \in Passphrase : HasSlot(opened.table, q)}
        /\ VolumeIn(Present(c)) = opened.master
        /\ cmd.p \in UsersIn(Present(c))
    BY <1>1, OpensForUser
  <2>4. opened.table.verifier = volume_verifier(opened.master)
    BY OpenedVerified DEF OpenedBy
  <2>5. cmd.n \in Passphrase
    BY <1>1, Stages DEF SerialInv, OpensVault, Cmd
  <2>6. s.at = "create" /\ s.data = VaultCells(table) /\ s.cmd = cmd
    BY DEF Creating
  <2> HIDE DEF s, opened, v, cmd
  <2>7. added = table_add_slot(opened.table, v.master, cmd.n, cmd.draw)
    BY <2>2
  <2>8. \A q : HasSlot(table, q) <=> HasSlot(opened.table, q) \/ q = cmd.n
    BY <1>3, <2>2, <2>7, AddedUser
  <2>9. table.verifier = opened.table.verifier
    <3>1. table = [opened.table EXCEPT
                     !.slots = Append(@, KeySlot_create(v.master, cmd.n, cmd.draw))]
      BY <1>3, <2>7 DEF table_add_slot, Ok, Err
    <3>2. opened.table = [header_salt |-> opened.table.header_salt,
                          slots |-> opened.table.slots, verifier |-> opened.table.verifier]
      BY <2>2 DEF Table
    <3> HIDE DEF table
    <3> QED
      BY <3>1, <3>2
  <2> HIDE DEF table
  <2>10. table \in Table /\ Len(table.slots) \in 1 .. MAX_SLOTS
    BY <2>1 DEF SerialInv, Inv, WrittenInv
  <2>11. /\ UsersIn({s.data}) = {q \in Passphrase : HasSlot(table, q)}
         /\ VolumeIn({s.data}) = table.verifier.data
    BY <2>6, <2>10, WrittenStandsFor
  <2>12. UsersIn({s.data}) = UsersIn(Present(c)) \cup {cmd.n}
    BY <2>3, <2>5, <2>8, <2>11
  <2>13. volume_verifier(opened.master).data = opened.master
    BY DEF volume_verifier, keyed_hash
  <2>14. VolumeIn({s.data}) = VolumeIn(Present(c))
    BY <2>3, <2>4, <2>9, <2>11, <2>13
  <2>15. Prepared(s, file'["vault"], members')
    BY <1>1, <2>3, <2>6, <2>12, <2>14 DEF Prepared, Founds, LetsIn, SealsFor
  <2> QED
    BY <2>1, <2>15, <1>1, FileTurn
<1>. QED
  BY <1>2, <1>3

LEMMA UsePrepared ==
  ASSUME SerialInv, SerialInv', FileInv, NEW t \in Terminal, UseVault(t)
  PROVE  FileInv'
<1> DEFINE cmd == proc[t].cmd
           c   == file["vault"]
<1>1. proc[t].at = "opening" /\ UNCHANGED <<file, members>>
  BY DEF UseVault
<1>2. ASSUME Goes(t, Idle)  PROVE FileInv'
  BY <1>1, <1>2, IdleFileTurn DEF Idle
<1>3. ASSUME OpenedBy(t).ok, Add(t, VaultFrom(OpenedBy(t).val, cmd.p))  PROVE FileInv'
  BY <1>1, <1>3, AddPrepared
<1>4. ASSUME OpenedBy(t).ok, NEW v, v = VaultFrom(OpenedBy(t).val, cmd.p), UseOpened(t, v)
      PROVE  FileInv'
  <2>1. ASSUME Goes(t, Reading(cmd, "sealed", v))  PROVE FileInv'
    BY <1>1, <2>1, IdleFileTurn DEF Reading
  <2>2. ASSUME cmd.name = "seal",
               Goes(t, Creating(cmd, "sealed", v, BlobCells(SealedWith(v, cmd.i, cmd.draw))))
        PROVE  FileInv'
    <3> DEFINE s == Creating(cmd, "sealed", v, BlobCells(SealedWith(v, cmd.i, cmd.draw)))
    <3>1. Writer(proc[t])
      BY <1>1, <2>2 DEF Writer, Idle
    <3>2. VolumeIn(Present(c)) = OpenedBy(t).val.master /\ cmd.p \in UsersIn(Present(c))
      BY <1>1, <1>4, <3>1, OpensForUser
    <3>3. v.master = OpenedBy(t).val.master
      BY <1>4, VaultMade
    <3>4. s.at = "create" /\ s.cmd = cmd /\ s.vault = v
      BY DEF Creating
    <3>5. Goes(t, s)
      BY <2>2
    <3> HIDE DEF s
    <3>6. Prepared(s, file'["vault"], members')
      BY <1>1, <2>2, <3>2, <3>3, <3>4 DEF Prepared, Founds, LetsIn, SealsFor
    <3> QED
      BY <1>1, <3>5, <3>6, FileTurn
  <2> QED
    BY <1>2, <1>4, <2>1, <2>2 DEF UseOpened
<1>. QED
  BY <1>2, <1>3, <1>4 DEF UseVault

(* A command that has emptied its file, or writes on. *)
LEMMA WritePrepared ==
  ASSUME SerialInv, FileInv, NEW t \in Terminal, CreateFile(t) \/ WriteCell(t)
  PROVE  FileInv'
<1> DEFINE cmd == proc[t].cmd
<1>1. proc[t].at \in {"create", "write"}
  BY DEF CreateFile, WriteCell
<1>2. /\ Kind(proc[t]) /\ Writes(proc[t], written) /\ proc[t].path \in Path
      /\ proc[t] # Idle
  BY <1>1, WriteParts
<1>3. \A q \in Path : q # proc[t].path => file'[q] = file[q]
  BY <1>2, OtherFiles DEF CreateFile, WriteCell, PutNext
<1>4. PICK s : /\ Goes(t, s) /\ s.at = "write" /\ s.cmd = cmd
               /\ \/ cmd.name = "init" /\ members' = {}
                  \/ cmd.name # "init" /\ members' = members
                  \/ proc[t].at = "write" /\ members' = members
  <2>1. ASSUME CreateFile(t)
        PROVE  LET s == [proc[t] EXCEPT !.at = "write"]
               IN  /\ Goes(t, s) /\ s.at = "write" /\ s.cmd = cmd
                   /\ cmd.name = "init" => members' = {}
                   /\ cmd.name # "init" => members' = members
    BY <1>2, <2>1 DEF CreateFile, Writes
  <2>2. ASSUME WriteCell(t)
        PROVE  LET s == [proc[t] EXCEPT !.pos = @ + 1]
               IN  /\ Goes(t, s) /\ s.at = "write" /\ s.cmd = cmd
                   /\ proc[t].at = "write" /\ members' = members
    BY <1>2, <2>2 DEF WriteCell, Writes
  <2> QED
    BY <2>1, <2>2
<1>5. CASE proc[t].path \in {"vault", "sealed"}
  <2>1. Writer(proc[t])
    BY <1>1, <1>2, <1>5 DEF Kind, Writer
  <2>2. Founds(proc[t], members)
    BY <2>1, Zenon DEF FileInv, Prepared
  <2>3. Prepared(s, file'["vault"], members')
    BY <1>4, <2>2 DEF Prepared, Founds, LetsIn, SealsFor
  <2> QED
    BY <1>4, <2>1, <2>3, FileTurn
<1>6. CASE proc[t].path = "plain"
  <2>1. cmd.name = "open"
    BY <1>1, <1>2, <1>6 DEF Kind
  <2>2. ~Writer(s) /\ members' = members /\ file'["vault"] = file["vault"]
    BY <1>3, <1>4, <1>6, <2>1 DEF Writer, Path
  <2> QED
    BY <1>4, <2>2, IdleFileTurn
<1>. QED
  BY <1>2, <1>5, <1>6 DEF Path

LEMMA StartPrepared ==
  ASSUME SerialInv, SerialInv', FileInv, NEW t \in Terminal, StartAny(t)
  PROVE  FileInv'
<1>1. ASSUME NEW cmd, StartOnVault(t, cmd)  PROVE FileInv'
  BY <1>1, IdleFileTurn DEF StartOnVault, Reading
<1>2. ASSUME NEW p \in Passphrase, StartInit(t, p)  PROVE FileInv'
  BY <1>2, InitPrepared
<1>. QED
  BY <1>1, <1>2 DEF StartAny, StartWriter, StartAdd, StartSeal, StartReader

LEMMA ReadPrepared ==
  ASSUME SerialInv, FileInv, NEW t \in Terminal,
         NotFound(t) \/ ReadCell(t) \/ EndVault(t) \/ Decrypt(t)
  PROVE  FileInv'
<1>1. proc[t].at = "read" /\ UNCHANGED <<file, members>>
  BY DEF NotFound, ReadCell, EndVault, Decrypt, HasRead, At
<1>2. ReadsVault(proc[t], written) \/ ReadsSealed(proc[t], written)
  BY <1>1, Stages DEF SerialInv
<1>3. ASSUME Goes(t, Idle)  PROVE FileInv'
  BY <1>1, <1>3, IdleFileTurn DEF Idle
<1>4. ASSUME ReadCell(t)  PROVE FileInv'
  <2> DEFINE s == [proc[t] EXCEPT !.buf = Append(@, file[proc[t].path][Len(@) + 1])]
  <2>1. Goes(t, s)
    BY <1>4 DEF ReadCell
  <2>2. s.at = "read"
    BY <1>2 DEF ReadsVault, ReadsSealed
  <2> HIDE DEF s
  <2> QED
    BY <1>1, <2>1, <2>2, IdleFileTurn
<1>5. ASSUME EndVault(t)  PROVE FileInv'
  <2>1. Goes(t, Opening(proc[t].cmd, proc[t].buf)) \/ Goes(t, Idle)
    BY <1>5 DEF EndVault
  <2>2. Opening(proc[t].cmd, proc[t].buf).at = "opening"
    BY DEF Opening
  <2> QED
    BY <1>1, <1>3, <2>1, <2>2, IdleFileTurn
<1>6. ASSUME Decrypt(t)  PROVE FileInv'
  <2> DEFINE opened == UnsealedWith(proc[t].vault, proc[t].buf)
             s      == Creating(proc[t].cmd, "plain", proc[t].vault,
                                <<[part |-> "text", text |-> opened.val]>>)
  <2>1. Goes(t, s) \/ Goes(t, Idle)
    BY <1>6 DEF Decrypt
  <2>2. proc[t].path = "sealed" /\ Kind(proc[t])
    BY <1>6 DEF Decrypt, HasRead, At, SerialInv
  <2>3. s.cmd.name = "open"
    BY <1>1, <2>2 DEF Kind, Creating
  <2> HIDE DEF s
  <2>4. ~Writer(s)
    BY <2>3 DEF Writer
  <2> QED
    BY <1>1, <1>3, <2>1, <2>4, IdleFileTurn
<1>. QED
  BY <1>3, <1>4, <1>5, <1>6 DEF NotFound

LEMMA EndPrepared ==
  ASSUME SerialInv, FileInv, NEW t \in Terminal, Finish(t) \/ Die(t)
  PROVE  FileInv'
<1>1. Goes(t, Idle)
  BY DEF Finish, Die
<1>2. Writer(proc[t]) \/ (file'["vault"] = file["vault"] /\ members' = members)
  <2>1. ASSUME Die(t)
        PROVE  Writer(proc[t]) \/ (file'["vault"] = file["vault"] /\ members' = members)
    BY <2>1, WritesVault DEF Die
  <2>2. ASSUME Finish(t), ~Writer(proc[t])
        PROVE  file'["vault"] = file["vault"] /\ members' = members
    <3>1. proc[t].at = "write"
      BY <2>2 DEF Finish
    <3>2. proc[t].path = "plain" /\ proc[t].cmd.name = "open" /\ proc[t].path \in Path
      BY <2>2, <3>1, WriteParts DEF Kind, Writer
    <3>3. members' = members
      BY <2>2, <3>2 DEF Finish
    <3> QED
      BY <2>2, <3>2, <3>3, OtherFiles DEF Finish, PutNext, Path
  <2> QED
    BY <2>1, <2>2
<1>. QED
  BY <1>1, <1>2, IdleFileTurn DEF Idle

LEMMA FileStart == Init => FileInv
<1>1. ~Writer(Idle)
  BY DEF Writer
<1>. QED
  BY <1>1 DEF Init, FileInv

LEMMA FileInvStep == SerialInv /\ SerialInv' /\ FileInv /\ [SerialNext]_vars => FileInv'
<1> SUFFICES ASSUME SerialInv, SerialInv', FileInv, [SerialNext]_vars  PROVE FileInv'
  OBVIOUS
<1>1. CASE UNCHANGED vars
  BY <1>1 DEF vars, FileInv
<1>2. ASSUME NEW t \in Terminal, StartAny(t)  PROVE FileInv'
  BY <1>2, StartPrepared
<1>3. ASSUME NEW t \in Terminal, Advance(t)  PROVE FileInv'
  BY <1>3, ReadPrepared, UsePrepared, WritePrepared, EndPrepared DEF Advance
<1>4. ASSUME NEW t \in Terminal, Die(t)  PROVE FileInv'
  BY <1>4, EndPrepared
<1>. QED
  BY <1>1, <1>2, <1>3, <1>4 DEF SerialNext

LEMMA FileInvariant == SerialSpec => []FileInv
BY FileStart, FileInvStep, SerialInvariant, PTL DEF SerialSpec

-----------------------------------------------------------------------------
(* What files stand for, from step to step                                 *)

LEMMA StandsSame ==
  ASSUME SerialInv, NEW t \in Terminal, NEW s, Goes(t, s), NEW path,
         file'[path] = file[path], ~At(t, "write", path), ~(s.at = "write" /\ s.path = path)
  PROVE  Stands(path)' = Stands(path)
<1>1. proc'[t] = s /\ \A u \in Terminal : u # t => proc'[u] = proc[u]
  BY TurnsTo DEF SerialInv
<1>2. \A u \in Terminal : At(u, "write", path)' <=> At(u, "write", path)
  BY <1>1 DEF At
<1> DEFINE Now == {u \in Terminal : At(u, "write", path)}
<1>3. {u \in Terminal : At(u, "write", path)'} = Now
  BY <1>2
<1>4. \A u \in Now : proc'[u] = proc[u]
  BY <1>1
<1>5. {proc'[u].data : u \in Now} = {proc[u].data : u \in Now}
  BY <1>4
<1>6. Stands(path) = IF \E u \in Terminal : At(u, "write", path)
                     THEN {proc[u].data : u \in Now} ELSE {file[path]} \ {None}
  BY DEF Stands
<1>7. Stands(path)' = IF \E u \in Terminal : At(u, "write", path)'
                      THEN {proc'[u].data : u \in {x \in Terminal : At(x, "write", path)'}}
                      ELSE {file'[path]} \ {None}
  BY DEF Stands
<1>. QED
  BY <1>2, <1>3, <1>5, <1>6, <1>7

LEMMA StandsForData ==
  ASSUME NEW t \in Terminal, NEW path, At(t, "write", path),
         \A u \in Terminal : u # t => ~At(u, "write", path)
  PROVE  Stands(path) = {proc[t].data}
<1>1. {u \in Terminal : At(u, "write", path)} = {t}
  OBVIOUS
<1>2. {proc[u].data : u \in {t}} = {proc[t].data}
  OBVIOUS
<1>. QED
  BY <1>1, <1>2 DEF Stands

LEMMA StandsForItself ==
  ASSUME NEW path, \A u \in Terminal : ~At(u, "write", path)
  PROVE  Stands(path) = Present(file[path])
BY DEF Stands, Present

LEMMA WillStandForData ==
  ASSUME SerialInv, NEW t \in Terminal, NEW s, Goes(t, s), NEW path,
         s.at = "write", s.path = path, \A u \in Terminal : u # t => ~At(u, "write", path)
  PROVE  Stands(path)' = {s.data}
<1>1. proc'[t] = s /\ \A u \in Terminal : u # t => proc'[u] = proc[u]
  BY TurnsTo DEF SerialInv
<1>2. \A u \in Terminal : At(u, "write", path)' <=> u = t
  BY <1>1 DEF At
<1>3. {u \in Terminal : At(u, "write", path)'} = {t}
  BY <1>2
<1>4. {proc'[u].data : u \in {t}} = {s.data}
  BY <1>1
<1>. QED
  BY <1>2, <1>3, <1>4 DEF Stands

LEMMA WillStandForItself ==
  ASSUME SerialInv, NEW t \in Terminal, NEW s, Goes(t, s), NEW path,
         ~(s.at = "write" /\ s.path = path), \A u \in Terminal : u # t => ~At(u, "write", path)
  PROVE  Stands(path)' = Present(file'[path])
<1>1. proc'[t] = s /\ \A u \in Terminal : u # t => proc'[u] = proc[u]
  BY TurnsTo DEF SerialInv
<1>2. \A u \in Terminal : ~At(u, "write", path)'
  BY <1>1 DEF At
<1>. QED
  BY <1>2 DEF Stands, Present

(* Where a writer is, nobody else writes. *)
LEMMA OthersDoNotWrite ==
  ASSUME SerialInv, NEW t \in Terminal, Writer(proc[t]), NEW path \in {"vault", "sealed"}
  PROVE  \A u \in Terminal : u # t => ~At(u, "write", path)
BY WritesVault, WriterAlone

-----------------------------------------------------------------------------
(* The steps of the abstract file                                          *)

LEMMA Unseen ==
  ASSUME Stands("vault")' = Stands("vault"), Stands("sealed")' = Stands("sealed"),
         members' = members
  PROVE  UNCHANGED VaultFile!fileVars
BY DEF VaultFile!fileVars, Told

(* A step of a command that does not write. *)
LEMMA ReadingUnseen ==
  ASSUME SerialInv, NEW t \in Terminal, NEW s, Goes(t, s), UNCHANGED <<file, members>>,
         proc[t].at # "write", s.at # "write"
  PROVE  UNCHANGED VaultFile!fileVars
BY StandsSame, Unseen DEF At

LEMMA StartUnseen ==
  ASSUME SerialInv, NEW t \in Terminal, StartAny(t)
  PROVE  UNCHANGED VaultFile!fileVars
<1>1. ASSUME NEW cmd, StartOnVault(t, cmd)  PROVE UNCHANGED VaultFile!fileVars
  BY <1>1, ReadingUnseen DEF StartOnVault, Reading, Idle
<1>2. ASSUME NEW p, StartInit(t, p)  PROVE UNCHANGED VaultFile!fileVars
  <2>1. \A c, v, d : Creating(c, "vault", v, d).at = "create"
    BY DEF Creating
  <2> QED
    BY <1>2, <2>1, ReadingUnseen DEF StartInit, Idle
<1>. QED
  BY <1>1, <1>2 DEF StartAny, StartWriter, StartAdd, StartSeal, StartReader

LEMMA ReadUnseen ==
  ASSUME SerialInv, NEW t \in Terminal,
         NotFound(t) \/ ReadCell(t) \/ EndVault(t) \/ UseVault(t) \/ Decrypt(t)
  PROVE  UNCHANGED VaultFile!fileVars
<1>1. proc[t].at \in {"read", "opening"} /\ UNCHANGED <<file, members>>
  BY DEF NotFound, ReadCell, EndVault, UseVault, Decrypt, HasRead, At
<1>2. ASSUME ReadCell(t)  PROVE UNCHANGED VaultFile!fileVars
  <2> DEFINE s == [proc[t] EXCEPT !.buf = Append(@, file[proc[t].path][Len(@) + 1])]
  <2>1. Goes(t, s) /\ proc[t].at = "read"
    BY <1>2 DEF ReadCell
  <2>2. ReadsVault(proc[t], written) \/ ReadsSealed(proc[t], written)
    BY <2>1, Stages DEF SerialInv
  <2>3. s.at = "read"
    BY <2>2 DEF ReadsVault, ReadsSealed
  <2> HIDE DEF s
  <2> QED
    BY <1>1, <2>1, <2>3, ReadingUnseen
<1>3. /\ Idle.at # "write"
      /\ \A c, b : Opening(c, b).at # "write"
      /\ \A c, q, v : Reading(c, q, v).at # "write"
      /\ \A c, q, v, d : Creating(c, q, v, d).at # "write"
  BY DEF Idle, Opening, Reading, Creating
<1>4. ASSUME NotFound(t) \/ EndVault(t) \/ UseVault(t) \/ Decrypt(t)
      PROVE  \E s : Goes(t, s) /\ s.at # "write"
  <2>1. NotFound(t) => \E s : Goes(t, s) /\ s.at # "write"
    BY <1>3 DEF NotFound
  <2>2. EndVault(t) => \E s : Goes(t, s) /\ s.at # "write"
    <3>1. EndVault(t) => Goes(t, Opening(proc[t].cmd, proc[t].buf)) \/ Goes(t, Idle)
      BY DEF EndVault
    <3> QED
      BY <1>3, <3>1, Zenon
  <2>3. Decrypt(t) => \E s : Goes(t, s) /\ s.at # "write"
    <3>1. Decrypt(t) => \/ \E d : Goes(t, Creating(proc[t].cmd, "plain", proc[t].vault, d))
                        \/ Goes(t, Idle)
      BY DEF Decrypt
    <3> QED
      BY <1>3, <3>1, Zenon
  <2>4. UseVault(t) => \E s : Goes(t, s) /\ s.at # "write"
    <3>1. \A v : Add(t, v) => \/ \E w, d : Goes(t, Creating(proc[t].cmd, "vault", w, d))
                              \/ Goes(t, Idle)
      BY DEF Add
    <3>2. \A v : UseOpened(t, v) => \/ \E d : Goes(t, Creating(proc[t].cmd, "sealed", v, d))
                                    \/ Goes(t, Reading(proc[t].cmd, "sealed", v))
                                    \/ Goes(t, Idle)
      BY DEF UseOpened
    <3>3. UseVault(t) => Goes(t, Idle) \/ \E v : Add(t, v) \/ UseOpened(t, v)
      BY Zenon DEF UseVault
    <3> QED
      BY <1>3, <3>1, <3>2, <3>3, Zenon
  <2> QED
    BY <1>4, <2>1, <2>2, <2>3, <2>4
<1>. QED
  BY <1>1, <1>2, <1>4, ReadingUnseen

(* A change takes place when the file is emptied. *)
LEMMA CreateChanges ==
  ASSUME SerialInv, FileInv, NEW t \in Terminal, CreateFile(t)
  PROVE  [VaultFile!Next]_VaultFile!fileVars
<1> DEFINE cmd  == proc[t].cmd
           path == proc[t].path
           s    == [proc[t] EXCEPT !.at = "write"]
<1>1. /\ proc[t].at = "create" /\ Goes(t, s)
      /\ file' = [file EXCEPT ![path] = <<>>]
      /\ members' = IF cmd.name = "init" THEN {} ELSE members
  BY DEF CreateFile, Truncated
<1>2. /\ Kind(proc[t]) /\ Writes(proc[t], written) /\ path \in Path /\ proc[t] # Idle
      /\ cmd \in Cmd /\ proc[t].vault \in OpenVault
  BY <1>1, WriteParts
<1>3. s.at = "write" /\ s.path = path /\ s.data = proc[t].data
  BY <1>2 DEF Writes
<1> HIDE DEF s
<1>4. \A q \in Path : q # path => file'[q] = file[q]
  BY <1>1, <1>2, OtherFiles
<1>5. \A q \in Path : q # path => Stands(q)' = Stands(q)
  BY <1>1, <1>3, <1>4, StandsSame DEF At
<1>6. ASSUME Writer(proc[t]), path \in {"vault", "sealed"}
      PROVE  /\ Stands("vault") = Present(file["vault"])
             /\ \A q \in {"vault", "sealed"} : q = path => Stands(q)' = {proc[t].data}
             /\ Prepared(proc[t], file["vault"], members)
  <2>1. \A q \in {"vault", "sealed"} : \A u \in Terminal : u # t => ~At(u, "write", q)
    BY <1>6, OthersDoNotWrite
  <2>2. \A q : ~At(t, "write", q)
    BY <1>1 DEF At
  <2>3. Stands("vault") = Present(file["vault"])
    BY <2>1, <2>2, StandsForItself
  <2>4. \A q \in {"vault", "sealed"} : q = path => Stands(q)' = {s.data}
    BY <1>1, <1>3, <1>6, <2>1, WillStandForData
  <2> QED
    BY <1>3, <1>6, <2>3, <2>4, Zenon DEF FileInv
<1>7. CASE path = "vault" /\ cmd.name = "init"
  <2>1. Writer(proc[t]) /\ cmd.p \in Passphrase
    BY <1>2, <1>7 DEF Writer, Cmd
  <2>2. /\ Stands("vault")' = {proc[t].data} /\ Stands("sealed")' = Stands("sealed")
        /\ UsersIn({proc[t].data}) = {cmd.p} /\ VolumeIn({proc[t].data}) = MasterOf(cmd.p)
    BY <1>1, <1>5, <1>6, <1>7, <2>1 DEF Prepared, Founds, Path
  <2>3. Told' = {}
    BY <1>1, <1>7 DEF Told
  <2>4. VaultFile!Create(cmd.p)
    BY <2>2, <2>3 DEF VaultFile!Create
  <2> QED
    BY <2>1, <2>4 DEF VaultFile!Next
<1>8. CASE path = "vault" /\ cmd.name = "add"
  <2>1. Writer(proc[t]) /\ cmd.p \in Passphrase /\ cmd.n \in Passphrase
    BY <1>2, <1>8 DEF Writer, Cmd
  <2>2. /\ Stands("vault")' = {proc[t].data} /\ Stands("sealed")' = Stands("sealed")
        /\ cmd.p \in UsersIn(Stands("vault"))
        /\ UsersIn({proc[t].data}) = UsersIn(Stands("vault")) \cup {cmd.n}
        /\ VolumeIn({proc[t].data}) = VolumeIn(Stands("vault"))
    BY <1>1, <1>5, <1>6, <1>8, <2>1 DEF Prepared, LetsIn, Path
  <2>3. Told' = Told
    BY <1>1, <1>8 DEF Told
  <2>4. VaultFile!Admit(cmd.p, cmd.n)
    BY <2>2, <2>3 DEF VaultFile!Admit
  <2> QED
    BY <2>1, <2>4 DEF VaultFile!Next
<1>9. CASE path = "sealed" /\ cmd.name = "seal"
  <2>1. Writer(proc[t]) /\ cmd.p \in Passphrase /\ cmd.i \in Plaintext
    BY <1>2, <1>9 DEF Writer, Cmd
  <2>2. /\ Stands("sealed")' = {proc[t].data} /\ Stands("vault")' = Stands("vault")
        /\ cmd.p \in UsersIn(Stands("vault"))
        /\ proc[t].vault.master = VolumeIn(Stands("vault"))
    BY <1>1, <1>5, <1>6, <1>9, <2>1 DEF Prepared, SealsFor, Path
  <2>3. PutsSealed(proc[t], file["sealed"])
    BY <2>1, Zenon DEF SerialInv, Holds
  <2>4. proc[t].data = BlobCells(SealedWith(proc[t].vault, cmd.i, cmd.draw))
    BY <1>1, <1>9, <2>3 DEF PutsSealed
  <2>5. SealedIn({proc[t].data}) = [text |-> cmd.i, volume |-> VolumeIn(Stands("vault"))]
    BY <1>2, <2>2, <2>4, SealedStandsFor
  <2>6. Told' = Told
    BY <1>1, <1>9 DEF Told
  <2>7. VaultFile!Seal(cmd.p, cmd.i)
    BY <2>2, <2>5, <2>6 DEF VaultFile!Seal
  <2> QED
    BY <2>1, <2>7 DEF VaultFile!Next
<1>10. CASE path = "plain" /\ cmd.name = "open"
  BY <1>1, <1>5, <1>10, Unseen DEF Path
<1>. QED
  BY <1>1, <1>2, <1>7, <1>8, <1>9, <1>10 DEF Kind

LEMMA WriteUnseen ==
  ASSUME SerialInv, NEW t \in Terminal, WriteCell(t)
  PROVE  UNCHANGED VaultFile!fileVars
<1> DEFINE path  == proc[t].path
           s     == [proc[t] EXCEPT !.pos = @ + 1]
<1>1. /\ proc[t].at = "write" /\ Goes(t, s) /\ members' = members
      /\ \E cells : file' = [file EXCEPT ![path] = cells]
  BY DEF WriteCell, PutNext
<1>2. /\ Kind(proc[t]) /\ Writes(proc[t], written) /\ path \in Path /\ proc[t] # Idle
  BY <1>1, WriteParts
<1>3. s.at = "write" /\ s.path = path /\ s.data = proc[t].data
  BY <1>1, <1>2 DEF Writes
<1> HIDE DEF s
<1>4. \A q \in Path : q # path => file'[q] = file[q]
  BY <1>1, <1>2, OtherFiles
<1>5. \A q \in Path : q # path => Stands(q)' = Stands(q)
  BY <1>1, <1>3, <1>4, StandsSame DEF At
<1>6. \A q \in {"vault", "sealed"} : q = path => Stands(q)' = Stands(q)
  <2> SUFFICES ASSUME NEW q \in {"vault", "sealed"}, q = path  PROVE Stands(q)' = Stands(q)
    OBVIOUS
  <2>1. Writer(proc[t]) /\ At(t, "write", q)
    BY <1>1, <1>2 DEF Writer, Kind, At
  <2>2. \A u \in Terminal : u # t => ~At(u, "write", q)
    BY <2>1, OthersDoNotWrite
  <2>3. Stands(q) = {proc[t].data}
    BY <2>1, <2>2, StandsForData
  <2>4. Stands(q)' = {s.data}
    BY <1>1, <1>3, <2>2, WillStandForData
  <2> QED
    BY <1>3, <2>3, <2>4
<1>. QED
  BY <1>1, <1>5, <1>6, Unseen DEF Path

(* The last cell makes the file what it stood for, and the command tells its
   user. *)
LEMMA FinishTells ==
  ASSUME SerialInv, FileInv, NEW t \in Terminal, Finish(t)
  PROVE  [VaultFile!Next]_VaultFile!fileVars
<1> DEFINE cmd  == proc[t].cmd
           path == proc[t].path
<1>1. /\ proc[t].at = "write" /\ Goes(t, Idle)
      /\ \E cells : file' = [file EXCEPT ![path] = cells]
      /\ members' = CASE cmd.name = "init" -> {Member(cmd.p, proc[t].vault.master)}
                      [] cmd.name = "add"  -> members \cup {Member(cmd.n, proc[t].vault.master)}
                      [] OTHER             -> members
  BY DEF Finish, PutNext
<1>2. /\ Kind(proc[t]) /\ Writes(proc[t], written) /\ path \in Path /\ proc[t] # Idle
      /\ cmd \in Cmd /\ proc[t].data \in Seq(Cell)
  BY <1>1, WriteParts
<1>3. \A q \in Path : q # path => file'[q] = file[q]
  BY <1>1, <1>2, OtherFiles
<1>4. \A q \in Path : q # path => Stands(q)' = Stands(q)
  BY <1>1, <1>3, StandsSame DEF At, Idle
<1>5. ASSUME NEW q \in {"vault", "sealed"}, q = path, Done(proc[t], file[q])
      PROVE  Stands(q) = {proc[t].data} /\ Stands(q)' = {proc[t].data}
  <2>1. Writer(proc[t]) /\ At(t, "write", q)
    BY <1>1, <1>2, <1>5 DEF Writer, Kind, At
  <2>2. \A u \in Terminal : u # t => ~At(u, "write", q)
    BY <2>1, OthersDoNotWrite
  <2>3. Stands(q) = {proc[t].data}
    BY <2>1, <2>2, StandsForData
  <2>4. Stands(q)' = Present(file'[q])
    BY <1>1, <2>2, WillStandForItself DEF Idle
  <2>5. file'[q] = proc[t].data
    BY <1>5, WrittenWhole
  <2>6. proc[t].data # None
    BY <1>2, NoneAssumption
  <2> QED
    BY <2>3, <2>4, <2>5, <2>6 DEF Present
<1>6. CASE path = "vault" /\ cmd.name \in {"init", "add"}
  <2>1. Writer(proc[t])
    BY <1>2, <1>6 DEF Writer
  <2>2. PutsVault(proc[t], file["vault"], members, written)
    BY <2>1, Zenon DEF SerialInv, Holds
  <2>3. PICK table \in written :
          /\ proc[t].data = VaultCells(table) /\ Serves(table, {Given(proc[t])})
          /\ Done(proc[t], file["vault"])
    BY <1>1, <1>6, <2>2 DEF PutsVault
  <2>4. Stands("vault") = {proc[t].data} /\ Stands("vault")' = {proc[t].data}
    BY <1>5, <1>6, <2>3
  <2>5. table \in Table /\ Len(table.slots) \in 1 .. MAX_SLOTS
    BY DEF SerialInv, Inv, WrittenInv
  <2> DEFINE user == Given(proc[t]).passphrase
  <2>6. user = IF cmd.name = "add" THEN cmd.n ELSE cmd.p
    BY DEF Given, Member
  <2>7. user \in Passphrase
    BY <1>2, <1>6, <2>6 DEF Cmd
  <2>8. HasSlot(table, user)
    BY <2>3 DEF Serves
  <2> HIDE DEF user
  <2>9. user \in UsersIn(Stands("vault"))
    BY <2>3, <2>4, <2>5, <2>7, <2>8, WrittenStandsFor
  <2>10. cmd.name = "init" => members = {}
    BY <1>1, <2>1, Zenon DEF FileInv, Prepared, Founds
  <2>11. members' = members \cup {Member(user, proc[t].vault.master)}
    BY <1>1, <1>6, <2>6, <2>10
  <2>12. Told' = Told \cup {user}
    <3>1. Member(user, proc[t].vault.master).passphrase = user
      BY DEF Member
    <3>2. \A x : {m.passphrase : m \in members \cup {x}} = Told \cup {x.passphrase}
      BY DEF Told
    <3>3. Told' = {m.passphrase : m \in members'}
      BY DEF Told
    <3> QED
      BY <2>11, <3>1, <3>2, <3>3
  <2>13. Stands("sealed")' = Stands("sealed")
    BY <1>4, <1>6 DEF Path
  <2>14. VaultFile!Tell(user)
    BY <2>4, <2>9, <2>12, <2>13 DEF VaultFile!Tell
  <2> QED
    BY <2>7, <2>14 DEF VaultFile!Next
<1>7. CASE path = "sealed" /\ cmd.name = "seal"
  <2>1. Writer(proc[t])
    BY <1>2, <1>7 DEF Writer
  <2>2. PutsSealed(proc[t], file["sealed"])
    BY <2>1, Zenon DEF SerialInv, Holds
  <2>3. Done(proc[t], file["sealed"])
    BY <1>1, <1>7, <2>2 DEF PutsSealed
  <2>4. Stands("sealed")' = Stands("sealed")
    BY <1>5, <1>7, <2>3
  <2> QED
    BY <1>1, <1>4, <1>7, <2>4, Unseen DEF Path
<1>8. CASE path = "plain" /\ cmd.name = "open"
  BY <1>1, <1>4, <1>8, Unseen DEF Path
<1>. QED
  BY <1>1, <1>2, <1>6, <1>7, <1>8 DEF Kind

(* What a writer leaves that dies stands for nothing. *)
LEMMA DieLoses ==
  ASSUME SerialInv, NEW t \in Terminal, Die(t)
  PROVE  [VaultFile!Next]_VaultFile!fileVars
<1>1. /\ Goes(t, Idle) /\ UNCHANGED file
      /\ members' = IF At(t, "write", "vault") THEN {} ELSE members
  BY DEF Die
<1>2. \A q : ~At(t, "write", q) => Stands(q)' = Stands(q)
  BY <1>1, StandsSame DEF Idle
<1>3. ASSUME NEW q \in {"vault", "sealed"}, At(t, "write", q)
      PROVE  Writer(proc[t]) /\ Stands(q)' = Present(file[q])
  <2>1. Writer(proc[t])
    BY <1>3, WritesVault
  <2>2. \A u \in Terminal : u # t => ~At(u, "write", q)
    BY <2>1, OthersDoNotWrite
  <2>3. Stands(q)' = Present(file'[q])
    BY <1>1, <2>2, WillStandForItself DEF Idle
  <2> QED
    BY <1>1, <2>1, <2>3
<1>4. CASE At(t, "write", "vault")
  <2>1. Writer(proc[t]) /\ Stands("vault")' = Present(file["vault"])
    BY <1>3, <1>4
  <2>2. PutsVault(proc[t], file["vault"], members, written)
    BY <2>1, Zenon DEF SerialInv, Holds
  <2>3. PICK table \in written :
          proc[t].data = VaultCells(table) /\ Done(proc[t], file["vault"])
    BY <1>4, <2>2 DEF PutsVault, At
  <2>4. table \in Table /\ Len(table.slots) \in 1 .. MAX_SLOTS
    BY DEF SerialInv, Inv, WrittenInv
  <2>5. proc[t].pos \in 0 .. Len(VaultCells(table)) - 1
    BY <1>4, <2>3, WriteParts DEF At
  <2>6. ~IsVault(file["vault"])
    BY <2>3, <2>4, <2>5, PartIsNoVault DEF Done
  <2>7. /\ UsersIn(Present(file["vault"])) = {}
        /\ VolumeIn(Present(file["vault"])) = None
    BY <2>6, NoTable DEF Present
  <2>8. Stands("sealed")' = Stands("sealed")
    BY <1>2, <1>4 DEF At
  <2>9. Told' = {}
    BY <1>1, <1>4 DEF Told
  <2> QED
    BY <2>1, <2>7, <2>8, <2>9 DEF VaultFile!Next, VaultFile!LoseVolume
<1>5. CASE At(t, "write", "sealed")
  <2>1. Writer(proc[t]) /\ Stands("sealed")' = Present(file["sealed"])
    BY <1>3, <1>5
  <2>2. PutsSealed(proc[t], file["sealed"])
    BY <2>1, Zenon DEF SerialInv, Holds
  <2>3. /\ proc[t].data = BlobCells(SealedWith(proc[t].vault, proc[t].cmd.i, proc[t].cmd.draw))
        /\ Len(file["sealed"]) = proc[t].pos
    BY <1>5, <2>2 DEF PutsSealed, Done, At
  <2>4. proc[t].pos \in 0 .. Len(proc[t].data) - 1
    BY <1>5, WriteParts DEF At
  <2>5. \A blob : Len(BlobCells(blob)) = 2
    BY DEF BlobCells
  <2>6. Len(file["sealed"]) # 2
    <3>1. Len(proc[t].data) = 2
      BY <2>3, <2>5, Zenon
    <3> QED
      BY <2>3, <2>4, <3>1
  <2>7. SealedIn(Present(file["sealed"])) = None
    BY <2>6, NoBlob DEF Present, IsBlob
  <2>8. Stands("vault")' = Stands("vault") /\ ~At(t, "write", "vault")
    BY <1>2, <1>5 DEF At
  <2>9. Told' = Told
    BY <1>1, <2>8 DEF Told
  <2> QED
    BY <2>1, <2>7, <2>8, <2>9 DEF VaultFile!Next, VaultFile!LoseText
<1>6. CASE ~At(t, "write", "vault") /\ ~At(t, "write", "sealed")
  BY <1>1, <1>2, <1>6, Unseen
<1>. QED
  BY <1>4, <1>5, <1>6

LEMMA FileStepImplements ==
  ASSUME SerialInv, FileInv, [SerialNext]_vars
  PROVE  [VaultFile!Next]_VaultFile!fileVars
<1>1. CASE UNCHANGED vars
  <2>1. \A q : Stands(q)' = Stands(q)
    BY <1>1 DEF vars, Stands, At
  <2> QED
    BY <1>1, <2>1, Unseen DEF vars
<1>2. ASSUME NEW t \in Terminal, StartAny(t)
      PROVE  [VaultFile!Next]_VaultFile!fileVars
  BY <1>2, StartUnseen
<1>3. ASSUME NEW t \in Terminal, Advance(t)
      PROVE  [VaultFile!Next]_VaultFile!fileVars
  BY <1>3, ReadUnseen, CreateChanges, WriteUnseen, FinishTells DEF Advance
<1>4. ASSUME NEW t \in Terminal, Die(t)
      PROVE  [VaultFile!Next]_VaultFile!fileVars
  BY <1>4, DieLoses
<1>. QED
  BY <1>1, <1>2, <1>3, <1>4 DEF SerialNext

LEMMA FileStarts == Init => VaultFile!Init
<1> SUFFICES ASSUME Init  PROVE VaultFile!Init
  OBVIOUS
<1>1. \A q : \A u \in Terminal : ~At(u, "write", q)
  BY DEF Init, Idle, At
<1>2. Stands("vault") = {} /\ Stands("sealed") = {}
  BY <1>1, StandsForItself DEF Init, Present, Path
<1>3. UsersIn({}) = {} /\ VolumeIn({}) = None /\ SealedIn({}) = None
  BY NoTable, NoBlob
<1>4. Told = {}
  BY DEF Init, Told
<1>. QED
  BY <1>2, <1>3, <1>4 DEF VaultFile!Init

(* To people who take turns at changing files, the vault file and the sealed one
   are a register of a volume, its users and a text, whatever others read in
   between and wherever commands die (aegis.rs:84-189). *)
THEOREM ImplementsVaultFile == SerialSpec => FileSpec
BY FileStarts, FileStepImplements, SerialInvariant, FileInvariant, PTL
   DEF SerialSpec, FileSpec, VaultFile!Spec
=============================================================================
