------------------------------ MODULE AegisCli ------------------------------
(***************************************************************************)
(* bin/aegis.rs: people at several terminals run the commands init, add,   *)
(* seal, open and verify on one vault file.  Nothing keeps two commands    *)
(* apart.  A command reads a file piece by piece, and fs::write empties    *)
(* the file before it puts the pieces back one by one, each at its place:  *)
(* other commands, and the death of this one, come in between.             *)
(*                                                                         *)
(* A file is a sequence of cells.  The vault file is a head of 44 bytes    *)
(* (magic, version, header salt, count), for each slot of 110 bytes a      *)
(* front of 64 and a back, and a tail of 64 (verifier, MAC), so that the   *)
(* cells of any two tables lie over each other.  What is written over      *)
(* longer contents leaves their last cells behind; where a write starts    *)
(* beyond the end of the file, zeros fill the gap.                         *)
(***************************************************************************)
EXTENDS VaultValues

CONSTANTS
  Terminal,     \* where one command at a time can run
  Passphrase, Plaintext,
  Command,      \* the commands in use
  MaxDraws      \* bound: commands that draw from OsRng

ASSUME CliAssumption ==
  /\ Command \subseteq {"init", "add", "seal", "open", "verify"}
  /\ MaxDraws \in Nat

VARIABLES
  file,       \* the contents of each file, or None
  proc,       \* the command at each Terminal and how far it is
  draws,      \* how many commands have drawn from OsRng
  written,    \* history: the tables commands set out to write
  members,    \* history: the passphrases finished commands gave access
  sealed      \* history: what the sealed file should hold, or None

vars == <<file, proc, draws, written, members, sealed>>

-----------------------------------------------------------------------------
(* Files                                                                   *)

Path == {"vault", "sealed", "plain"}

Zeros == [part |-> "zeros"]

(* Fault: whatever is written goes behind what is there. *)
Put_Appending(cells, k, cell) == Append(cells, cell)

(* The contents after cell was written at place k. *)
Put(cells, k, cell) ==
  [i \in 1 .. (IF k > Len(cells) THEN k ELSE Len(cells)) |->
     CASE i = k                     -> cell
       [] i # k /\ i <= Len(cells)  -> cells[i]
       [] i # k /\ i > Len(cells)   -> Zeros]

(* Fault: the old contents are still there when the writing begins. *)
Truncated_Kept(cells) == IF cells = None THEN <<>> ELSE cells

(* What File::create leaves of a file. *)
Truncated(cells) == <<>>

(* Cells 2i and 2i + 1 are the two parts of slot i. *)
SlotCell(slots, k) ==
  [part |-> IF k % 2 = 0 THEN "front" ELSE "back", slot |-> slots[k \div 2]]

(* write_vault, which follows slots_to_bytes and slots_header_salt. *)
VaultCells(table) ==
  LET n == Len(table.slots)
  IN  [k \in 1 .. 2 * n + 2 |->
         IF k = 1
         THEN [part |-> "head", header_salt |-> table.header_salt, count |-> n]
         ELSE IF k < 2 * n + 2
         THEN SlotCell(table.slots, k)
         ELSE [part |-> "tail", verifier |-> table.verifier, mac |-> to_bytes(table).mac]]

(* The cells are those of a table in number and kind.  All other contents
   fail the tests of read_vault or the MAC, which covers what precedes it. *)
IsVault(cells) ==
  LET n == (Len(cells) - 2) \div 2
  IN  /\ Len(cells) >= 2
      /\ Len(cells) = 2 * n + 2
      /\ cells[1].part = "head" /\ cells[1].count = n
      /\ \A k \in 2 .. 2 * n + 1 : cells[k].part = IF k % 2 = 0 THEN "front" ELSE "back"
      /\ cells[2 * n + 2].part = "tail"

(* The slot read from a front and a back; the border is inside ct. *)
Joined(front, back) ==
  IF front = back THEN front
  ELSE [front EXCEPT !.ct = [torn |-> <<front.ct, back.ct>>], !.enabled = back.enabled]

(* read_vault: the bytes of the table; their salt is in the first cell. *)
VaultBytes(cells) ==
  LET tail == cells[Len(cells)]
  IN  [body |-> [slots    |-> [i \in 1 .. cells[1].count |->
                                 Joined(cells[2 * i].slot, cells[2 * i + 1].slot)],
                 verifier |-> tail.verifier],
       mac |-> tail.mac]

(* The blob of seal, and what open finds in one. *)
BlobCells(blob) ==
  <<[part |-> "nonce", nonce |-> blob.nonce], [part |-> "ct", ct |-> blob.ct]>>

IsBlob(cells) == Len(cells) = 2 /\ cells[1].part = "nonce" /\ cells[2].part = "ct"

-----------------------------------------------------------------------------
(* What commands compute                                                   *)

CliSalt == SaltOf(0, 17)
MEM_KIB == 32768
ITERS   == 2

MasterOf(passphrase) == argon2id_root(passphrase, CliSalt, MEM_KIB, ITERS).val

(* The fixed passphrase under which open_vault makes the vault it opens the
   file in. *)
Ignored == "ignored"

(* Fault: the vault stays as unlock makes it from the user's passphrase. *)
VaultFrom_Passphrase(opened, passphrase) ==
  [NewVault(MasterOf(passphrase)) EXCEPT !.slots = opened.table]

(* The vault after open_from_slots succeeded. *)
VaultFrom(opened, passphrase) ==
  Rebuilt(NewVault(MasterOf(Ignored)), opened.master, opened.table)

open_vault(cells, passphrase) ==
  IF ~IsVault(cells)
  THEN Err("HeaderIntegrity")
  ELSE LET opened == OpenTable(VaultBytes(cells), cells[1].header_salt, passphrase)
       IN  IF opened.ok THEN Ok(VaultFrom(opened.val, passphrase)) ELSE opened

SealedWith(v, plaintext, draw) ==
  Encrypted(v, "Enc", plaintext, "aegis-cli", "XChaCha20Poly1305", draw)

UnsealedWith(v, cells) ==
  IF IsBlob(cells)
  THEN Decrypted(v, "Enc", cells[1].nonce, cells[2].ct, "aegis-cli", "XChaCha20Poly1305")
  ELSE Err("AeadOpen")

-----------------------------------------------------------------------------
(* The commands                                                            *)

Idle == [at |-> "idle"]

(* A command reading a file from the start; v is the vault it has open. *)
Reading(cmd, path, v) ==
  [at |-> "read", cmd |-> cmd, path |-> path, vault |-> v, buf |-> <<>>]

(* A command that has read a vault file. *)
Opening(cmd, cells) ==
  [at |-> "opening", cmd |-> cmd, bytes |-> VaultBytes(cells),
   header_salt |-> cells[1].header_salt]

(* A command about to write cells to a file. *)
Creating(cmd, path, v, cells) ==
  [at |-> "create", cmd |-> cmd, path |-> path, vault |-> v, data |-> cells, pos |-> 0]

At(t, stage, path) == proc[t].at = stage /\ proc[t].path = path

Goes(t, state) == proc' = [proc EXCEPT ![t] = state]

Draw == draws < MaxDraws /\ draws' = draws + 1

StartInit(t, p) ==
  /\ "init" \in Command
  /\ proc[t] = Idle
  /\ Draw
  /\ LET v     == NewVault(MasterOf(p))
         table == new_initial(v.master, p, draws')
     IN  /\ Goes(t, Creating([name |-> "init", p |-> p], "vault", [v EXCEPT !.slots = table],
                             VaultCells(table)))
         /\ written' = written \cup {table}
  /\ UNCHANGED <<file, members, sealed>>

(* The commands that open the vault first.  A command that will draw has its
   number from the start. *)
StartOnVault(t, cmd) ==
  /\ cmd.name \in Command
  /\ proc[t] = Idle
  /\ Goes(t, Reading(cmd, "vault", None))
  /\ UNCHANGED <<file, written, members, sealed>>

StartAdd(t, p, n) ==
  Draw /\ StartOnVault(t, [name |-> "add", p |-> p, n |-> n, draw |-> draws'])

StartSeal(t, p, i) ==
  Draw /\ StartOnVault(t, [name |-> "seal", p |-> p, i |-> i, draw |-> draws'])

StartReader(t, name, p) ==
  StartOnVault(t, [name |-> name, p |-> p]) /\ UNCHANGED draws

NotFound(t) ==
  /\ proc[t].at = "read"
  /\ file[proc[t].path] = None
  /\ Goes(t, Idle)
  /\ UNCHANGED <<file, draws, written, members, sealed>>

ReadCell(t) ==
  /\ proc[t].at = "read"
  /\ file[proc[t].path] # None
  /\ LET cells == file[proc[t].path]
         buf   == proc[t].buf
     IN  /\ Len(buf) < Len(cells)
         /\ Goes(t, [proc[t] EXCEPT !.buf = Append(buf, cells[Len(buf) + 1])])
  /\ UNCHANGED <<file, draws, written, members, sealed>>

(* Fault: the end is looked for at one place only. *)
AtEnd_Exact(t) == Len(proc[t].buf) = Len(file[proc[t].path])

(* The file may have become shorter since it was read. *)
AtEnd(t) == Len(proc[t].buf) >= Len(file[proc[t].path])

HasRead(t, path) == At(t, "read", path) /\ file[path] # None /\ AtEnd(t)

(* Fault: a vault file that is not whole is read again. *)
EndVault_Retry(t) ==
  /\ HasRead(t, "vault")
  /\ LET cells == proc[t].buf
         cmd   == proc[t].cmd
     IN  Goes(t, IF IsVault(cells) THEN Opening(cmd, cells) ELSE Reading(cmd, "vault", None))
  /\ UNCHANGED <<file, draws, written, members, sealed>>

(* read_vault has all the cells. *)
EndVault(t) ==
  /\ HasRead(t, "vault")
  /\ LET cells == proc[t].buf
     IN  Goes(t, IF IsVault(cells) THEN Opening(proc[t].cmd, cells) ELSE Idle)
  /\ UNCHANGED <<file, draws, written, members, sealed>>

(* add, with the vault v it has opened. *)
Add(t, v) ==
  LET cmd   == proc[t].cmd
      added == table_add_slot(v.slots, v.master, cmd.n, cmd.draw)
      table == added.val.table
  IN  /\ cmd.name = "add"
      /\ IF added.ok
         THEN /\ Goes(t, Creating(cmd, "vault", [v EXCEPT !.slots = table], VaultCells(table)))
              /\ written' = written \cup {table}
         ELSE Goes(t, Idle) /\ UNCHANGED written

(* verify, seal and open, with the vault v they have opened. *)
UseOpened(t, v) ==
  LET cmd == proc[t].cmd
  IN  /\ \/ cmd.name = "verify" /\ Goes(t, Idle)
         \/ cmd.name = "seal" /\ Goes(t, Creating(cmd, "sealed", v,
                                                 BlobCells(SealedWith(v, cmd.i, cmd.draw))))
         \/ cmd.name = "open" /\ Goes(t, Reading(cmd, "sealed", v))
      /\ UNCHANGED written

(* What open_from_slots gives command t. *)
OpenedBy(t) == OpenTable(proc[t].bytes, proc[t].header_salt, proc[t].cmd.p)

(* open_vault tries the slots, and the command goes on if one opens. *)
UseVault(t) ==
  /\ proc[t].at = "opening"
  /\ \E opened \in {OpenedBy(t)} :
       \/ ~opened.ok /\ Goes(t, Idle) /\ UNCHANGED written
       \/ /\ opened.ok
          /\ \E v \in {VaultFrom(opened.val, proc[t].cmd.p)} : Add(t, v) \/ UseOpened(t, v)
  /\ UNCHANGED <<file, draws, members, sealed>>

Decrypt(t) ==
  /\ HasRead(t, "sealed")
  /\ LET opened == UnsealedWith(proc[t].vault, proc[t].buf)
     IN  Goes(t, IF opened.ok
                 THEN Creating(proc[t].cmd, "plain", proc[t].vault,
                               <<[part |-> "text", text |-> opened.val]>>)
                 ELSE Idle)
  /\ UNCHANGED <<file, draws, written, members, sealed>>

(* With init the users of the earlier vault lose their access. *)
CreateFile(t) ==
  /\ proc[t].at = "create"
  /\ file' = [file EXCEPT ![proc[t].path] = Truncated(@)]
  /\ Goes(t, [proc[t] EXCEPT !.at = "write"])
  /\ members' = IF proc[t].cmd.name = "init" THEN {} ELSE members
  /\ sealed' = IF proc[t].path = "sealed" THEN None ELSE sealed
  /\ UNCHANGED <<draws, written>>

PutNext(t) ==
  LET pos == proc[t].pos + 1
  IN  file' = [file EXCEPT ![proc[t].path] = Put(@, pos, proc[t].data[pos])]

WriteCell(t) ==
  /\ proc[t].at = "write"
  /\ proc[t].pos + 1 < Len(proc[t].data)
  /\ PutNext(t)
  /\ Goes(t, [proc[t] EXCEPT !.pos = @ + 1])
  /\ UNCHANGED <<draws, written, members, sealed>>

Member(p, master) == [passphrase |-> p, master |-> master]

(* The last cell is written and the command reports its success. *)
Finish(t) ==
  /\ proc[t].at = "write"
  /\ proc[t].pos + 1 = Len(proc[t].data)
  /\ PutNext(t)
  /\ Goes(t, Idle)
  /\ LET cmd    == proc[t].cmd
         master == proc[t].vault.master
     IN  /\ members' = CASE cmd.name = "init" -> {Member(cmd.p, master)}
                         [] cmd.name = "add"  -> members \cup {Member(cmd.n, master)}
                         [] OTHER             -> members
         /\ sealed' = IF cmd.name = "seal" THEN [text |-> cmd.i, master |-> master] ELSE sealed
  /\ UNCHANGED <<draws, written>>

(* The command is killed, or the system refuses a read or a write.  Where it
   was writing it has not kept what earlier commands gave. *)
Die(t) ==
  /\ proc[t] # Idle
  /\ Goes(t, Idle)
  /\ members' = IF At(t, "write", "vault") THEN {} ELSE members
  /\ sealed' = IF At(t, "write", "sealed") THEN None ELSE sealed
  /\ UNCHANGED <<file, draws, written>>

-----------------------------------------------------------------------------
Init ==
  /\ file = [path \in Path |-> None]
  /\ proc = [t \in Terminal |-> Idle]
  /\ draws = 0
  /\ written = {}
  /\ members = {}
  /\ sealed = None

StartWriter(t) ==
  \E p \in Passphrase :
    \/ StartInit(t, p)
    \/ \E n \in Passphrase : StartAdd(t, p, n)
    \/ \E i \in Plaintext : StartSeal(t, p, i)

StartAny(t) ==
  \/ StartWriter(t)
  \/ \E p \in Passphrase, name \in {"verify", "open"} : StartReader(t, name, p)

(* A step of a command that is under way. *)
Advance(t) ==
  \/ NotFound(t) \/ ReadCell(t) \/ EndVault(t) \/ UseVault(t) \/ Decrypt(t)
  \/ CreateFile(t) \/ WriteCell(t) \/ Finish(t)

Next == \E t \in Terminal : StartAny(t) \/ Advance(t) \/ Die(t)

Spec == Init /\ [][Next]_vars

(* The system lets every command run on. *)
FairSpec == Spec /\ \A t \in Terminal : WF_vars(Advance(t))

IsWriter(t) == proc[t] # Idle /\ proc[t].cmd.name \in {"init", "add", "seal"}

(* People who see to it that only one of them changes files at a time, while
   the others read as they like. *)
SerialNext ==
  \E t \in Terminal :
    \/ StartAny(t) /\ (IsWriter(t)' => \A u \in Terminal : ~IsWriter(u))
    \/ Advance(t) \/ Die(t)

SerialSpec == Init /\ [][SerialNext]_vars

-----------------------------------------------------------------------------
(* Types                                                                   *)

Master == {MasterOf(p) : p \in Passphrase}

Nonce(len) == [draw : 1 .. MaxDraws, len : {len}]

Slot ==
  [salt : [id : 1 .. MaxDraws, len : {16}], nonce : Nonce(12), enabled : {TRUE},
   ct : [algo : {"Aes256Gcm"}, nonce : Nonce(12), msg : Master, aad : {HEADER_MAGIC},
         key : {SlotKey(p, SlotSalt(d)) : p \in Passphrase, d \in 1 .. MaxDraws}]]

Verifier == {volume_verifier(m) : m \in Master}

Table == [header_salt : 1 .. MaxDraws, slots : Seq(Slot), verifier : Verifier]

Mac ==
  [hash : {"blake3"}, key : 1 .. MaxDraws, data : [slots : Seq(Slot), verifier : Verifier]]

Blob ==
  [algo : {"XChaCha20Poly1305"}, key : {from_master(m)["Enc"] : m \in Master},
   nonce : Nonce(24), msg : Plaintext, aad : {"aegis-cli"}]

Cell ==
  {Zeros} \cup [part : {"head"}, header_salt : 1 .. MaxDraws, count : 1 .. MAX_SLOTS]
  \cup [part : {"front", "back"}, slot : Slot]
  \cup [part : {"tail"}, verifier : Verifier, mac : Mac]
  \cup [part : {"nonce"}, nonce : Nonce(24)] \cup [part : {"ct"}, ct : Blob]
  \cup [part : {"text"}, text : Plaintext]

(* A file that is not there has no contents. *)
ASSUME NoneAssumption == None \notin Seq(Cell)

(* No contents are longer than those of a full table. *)
IsContents(cells) == cells \in Seq(Cell) /\ Len(cells) <= 2 * MAX_SLOTS + 2

ProcOK(state) ==
  \/ state = Idle
  \/ /\ state.at = "read"
     /\ state.path \in {"vault", "sealed"}
     /\ IsContents(state.buf)
     /\ IF state.path = "vault" THEN state.vault = None ELSE state.vault.master \in Master
  \/ state.at = "opening" /\ state.header_salt \in 1 .. MaxDraws
  \/ /\ state.at \in {"create", "write"}
     /\ state.path \in Path
     /\ IsContents(state.data)
     /\ state.pos \in 0 .. Len(state.data) - 1
     /\ state.vault.master \in Master

(* Every variable has values of its kind, and no table or file is longer than
   MAX_SLOTS allows. *)
TypeOK ==
  /\ DOMAIN file = Path /\ \A path \in Path : file[path] = None \/ IsContents(file[path])
  /\ DOMAIN proc = Terminal /\ \A t \in Terminal : ProcOK(proc[t])
  /\ draws \in 0 .. MaxDraws
  /\ written \subseteq Table
  /\ members \subseteq [passphrase : Passphrase, master : Master]
  /\ sealed \in [text : Plaintext, master : Master] \cup {None}

-----------------------------------------------------------------------------
(* Safety                                                                  *)

(* A command opens only a table that some command set out to write, whole: no
   prefix of one, no cells of two writes under way at once, no rest of an
   earlier one behind it (aegis.rs:84-117, slots.rs:284-290). *)
OpensWholeTables ==
  \A t \in Terminal :
    proc[t].at = "opening" /\ OpenedBy(t).ok => OpenedBy(t).val.table \in written

VaultAtRest == \A t \in Terminal : ~At(t, "write", "vault")

Admits(p) == file["vault"] # None /\ open_vault(file["vault"], p).ok

(* Once init or add has reported success, the passphrase opens the vault file
   whenever no command is writing it, until the next init or until a command
   dies while it writes; the death of one that reads or computes costs nothing
   (aegis.rs:100-148). *)
MembersKept == VaultAtRest => \A m \in members : Admits(m.passphrase)

(* A sealed file opens with the passphrase of every member of a vault with
   the master it was sealed under, those added later included, and gives the
   text that went in (aegis.rs:149-189). *)
SealedReadable ==
  VaultAtRest /\ sealed # None /\ (\A t \in Terminal : ~At(t, "write", "sealed")) =>
    \A m \in members : m.master = sealed.master =>
      UnsealedWith(open_vault(file["vault"], m.passphrase).val, file["sealed"])
        = Ok(sealed.text)

-----------------------------------------------------------------------------
(* Progress                                                                *)

MaxCells == 2 * MAX_SLOTS + 2

(* open takes the most steps: it reads two files to their ends, and after each
   one works on it, and creates and writes a file of one cell. *)
MaxSteps == 2 * MaxCells + 5

(* The most steps that a command in state s has before it. *)
StepsLeft(s) ==
  CASE s.at = "idle"                       -> 0
    [] s.at = "write"                      -> Len(s.data) - s.pos
    [] s.at = "create"                     -> Len(s.data) + 1
    [] s.at = "read" /\ s.path = "sealed"  -> MaxCells - Len(s.buf) + 3
    [] s.at = "opening"                    -> MaxCells + 4
    [] s.at = "read" /\ s.path = "vault"   -> 2 * MaxCells - Len(s.buf) + 5

(* No command loops or starts again: each step of its own brings its end nearer,
   and no step of another puts it off, not even one that makes the file longer
   while it is read (aegis.rs:72-117). *)
BoundedSteps ==
  [][\A t \in Terminal :
       /\ StepsLeft(proc[t]) \in 0 .. MaxSteps
       /\ Advance(t) => StepsLeft(proc[t])' < StepsLeft(proc[t])
       /\ proc[t] # Idle => StepsLeft(proc[t])' <= StepsLeft(proc[t])]_vars

(* Every command ends, whatever others do to the files it reads. *)
CommandsEnd == \A t \in Terminal : proc[t] # Idle ~> proc[t] = Idle

-----------------------------------------------------------------------------
(* What the documentation says and the code does not do                    *)

(* "add a multi-user slot" (aegis.rs:8): in a vault file that is whole and at
   rest, every user whose add reported success for this master has a slot. *)
AddedUsersHaveSlots ==
  VaultAtRest /\ (\E p \in Passphrase : Admits(p)) =>
    \A m \in members :
      m.master = VaultBytes(file["vault"]).body.verifier.data => Admits(m.passphrase)
=============================================================================
