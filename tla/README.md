# AEGIS Keys: the verification project

TLA+ specifications, model-checking runs and machine-checked proofs for the
`aegis` crate of this repository: the key hierarchy, the LUKS-like key slots,
the bytes they are serialized to, the vault object that ties them together, the
command-line launcher that keeps a vault in a file, and the memory its keys are
in. Paths such as `lib.rs:142` are below
`src/src/`.

* [The system](#the-system): its parts, their state, how they interact
* [What is hard](#what-is-hard)
* [The modules](#the-modules) and how they correspond to the code
* [Abstractions](#abstractions)
* [The runs](#the-runs), their bounds, and fairness
* [The proofs](#the-proofs)
* [Divergences](#divergences) between documentation and code
* [What is not modelled](#what-is-not-modelled) and [the plan](#the-plan)

## The system

| component | source | state | operations |
|---|---|---|---|
| KDF, AEAD | `kdf.rs`, `aead.rs` | none | `argon2id_root`, `hkdf_sha256`, `seal`, `open` |
| key hierarchy | `hierarchy.rs` | six domain keys, fixed when built | `from_master`, `legacy_single_key`, `domain`, `subkey` |
| key slots | `slots.rs` | per slot: salt, nonce, sealed master, enabled bit; per table: slots, verifier of the master, header salt | `create`, `unseal`, `new_initial`, `add_slot`, `revoke_slot`, `unseal_with`, `rotate`, `to_bytes`, `from_bytes` |
| SOTK byte layout | `slots.rs` | while it runs, the parser's position and what it has parsed | `to_bytes`, `from_bytes`, `slice_at` |
| vault | `lib.rs` | master, hierarchy, `Option<KeySlotTable>` | `from_master_key`, `unlock`, `encrypt`, `decrypt`, `seal_slots`, `add_slot`, `revoke_slot`, `open_from_slots`, `verify_volume`, `slots_to_bytes`, `slots_header_salt`, `rotate_master` |
| protected memory | `aegis_key.rs` | 32 bytes, locked in RAM where the system lets it | `new`, `burn`, `Drop` |
| launcher | `bin/aegis.rs` | the files on disk, and each running command | `init`, `add`, `seal`, `open`, `verify` |
| its arguments | `bin/aegis.rs` | the flags found so far | `parse_args`, `req` |
| errors | `error.rs` | none | |

How they interact. A vault calls the hierarchy for its domain keys and the table
for everything about slots; a slot calls Argon2id for its own key and AES-256-GCM
to seal the master under it. Nothing runs in the background, there are no
callbacks, and a vault is used by one thread at a time (`&mut self`). What
outlives a call, a vault and a process are the bytes the caller keeps:
serialized tables with their header salts, and ciphertexts with their nonces.
They come back later, in another vault, in another order than they were written,
and possibly damaged; that is where the state space is. The launcher puts such a
table in a file that several processes may use at once, without a lock. Each
key is an `AegisKey`, whose buffer shares its page with other keys: the locks
and the exclusion from core dumps are the system's, by page.

## What is hard

`PROJECT.json` lists the hazards by line. In short:

* *Protocols of calls.* Three methods assign the three fields of a vault one by
  one (`seal_slots`, `open_from_slots`, `rotate_master`); they may be called in
  any order, with any kept table, and fail at several points.
* *Stale tables.* A kept table is a snapshot. Reopening an older one takes back
  a rotation or a revocation.
* *Boundaries.* The last enabled slot; the full table, in which revoked slots
  keep their place; a revoked slot revoked again; the nonce of the other cipher.
* *Identity.* The index `add_slot` returned is kept by the caller while other
  slots come and go.
* *Damage.* Body, MAC and salt of different writes put together.
* *The public table.* `KeySlotTable` can be used without a vault, and its
  `add_slot` believes whatever master it is given.
* *The layout.* One function writes nine fields a slot, another reads them back,
  two of them without looking whether they are there; the count is one byte; a
  table may be cut short anywhere, or come from another program.
* *The command line.* `parse_args` takes whatever follows a flag for its value,
  so a value left out shifts all that follows.
* *The launcher's file*: lost updates, torn writes, deaths half-way, readers of
  a file that changes under them.
* *Memory locks*: `munlock` works on pages, keys are smaller; the calls of one
  key fail independently, and those of several interleave.

What makes each part correct, in the terms of the properties below: the
hierarchy keeps its keys apart (`KeysSeparated`); a table admits exactly its
members and never nobody (`MembersAdmitted`, `RosterSpec`), forgets revoked
slots (`RevokedSlotsAreEmpty`) and keeps its indices (`SlotIndicesStable`) and
its master (`RotationStartsAfresh`); a vault is always one consistent thing
(`VaultCoherent`), takes tables whole or not at all (`TablesOpenedWhole`) and decrypts what it should and nothing else
(`CiphertextsOpenAtHome`). The launcher never takes for a vault what was not
written as one (`OpensWholeTables`), keeps what it reported (`MembersKept`,
`SealedReadable`), ends (`CommandsEnd`), and to people who take turns its files
are one register (`FileSpec`); it does what was typed or nothing (`RunsAsTyped`,
`OmissionNoticed`). A table comes back from its bytes as it was (`RoundTrip`),
from fewer not at all (`CutsRefused`), and from others only if each field is in
its place under the MAC (`AcceptedAsLaidOut`). Key memory is wiped before it is
given back (`FreedMemoryIsClean`), and so are the locks (`LocksAreReturned`).

## The modules

```
Primitives --> KeyHierarchy --> VaultValues --> AegisVault --> VaultImplementsRoster --> MCAegisVault
           \-> KeySlots -----/      |             |               |  +- INSTANCE VaultRoster
                                    |             |               |
                                    |             |               \--> AegisTableProofs
                                    |             \-> AegisVaultProofs ---/
                                    |
                                    \-> AegisCli --> CliImplementsVaultFile --> MCAegisCli
                                          |           |   +- INSTANCE VaultFile
                                          |           \------------------------> FileProofs
                                          \-> AegisCliProofs --> AegisSerialProofs ---/

SlotTableFormat --> MCSlotTableFormat           CliArguments --> MCCliArguments
                \-> SlotTableProofs                           \-> CliArgumentsProofs

KeyMemory --> MCKeyMemory
          \-> KeyMemoryProofs
```

**Primitives** (`kdf.rs`, `aead.rs`, BLAKE3). Each primitive is the record of its
inputs. What the code adds to the cryptographic crates is kept: what Argon2
refuses, and the tests of the nonce length that come before `from_slice`, which
panics. A panic is a value of its own, `Panic`, so that a call that unwinds is
visible to `TypeOK`.

**KeyHierarchy** (`hierarchy.rs`). Domain keys and sub-keys as HKDF terms with
the labels and salts of the code.

**KeySlots** (`slots.rs`). One operator per function, each giving the `Result`
of the Rust function, with its checks in the order of the code. `revoke_slot` on
a disabled slot is `Ok` and changes nothing, before slots are counted;
`unseal_with` takes the first enabled slot that opens; `unseal` itself ignores
the enabled bit. `rotate` gives a new random master and looks at no table. `MAX_SLOTS`
(16 in the code) is a constant, any positive number.

**VaultValues** (`lib.rs`). The vault as a value: what `from_master_key`,
`open_from_slots`, `rotate_master`, `encrypt`, `decrypt` and `verify_volume`
compute from one. AegisVault and AegisCli are both built on it.

**AegisVault** (`lib.rs`). One action per method of `AegisVault`, plus `Drop`:

| variable | in the code |
|---|---|
| `vault` | the `AegisVault` in each variable of the calling program, or `None` |
| `saved` | pairs of `slots_to_bytes()` and `slots_header_salt()` the caller kept |
| `blobs` | nonce and ciphertext of `encrypt` the caller kept, with a note of what they were made from |
| `draws` | how often `OsRng` has been used; the next number is fresh |
| `ret` | the last call: its outcome, whose passphrase it was given, the index it was given or returned |
| `retired` | history: masters replaced by `rotate_master` |

The caller is part of the model: it makes any call with any kept piece. For
`open_from_slots` it takes body, MAC and salt from three kept tables, equal or
not. The crash of a process is `Drop`: what was not kept is gone. There are two
next-state relations. `Next` has the vaults' own calls. `OpenNext` adds
`DirectTableUse`: the public `KeySlotTable` parses a kept table, changes it and
serializes it again, with the master of any live vault, which need not be the
table's own.

**VaultRoster** is the abstract specification, without cryptography: holders of
volumes, rosters of users with places that are appended up to a limit, struck,
filed and restored. Every call about users has an answer, and an answer that
grants names the user or the place: a filed roster is given back for a user who
is on it and for nobody else. **VaultImplementsRoster** gives the refinement
mapping: the user at a place is the one from whose passphrase the slot's key was
derived; a disabled slot is a struck place; the answer is what the method
returned for the passphrase it was called with (`ret`), with places counted from 1
where the code counts indices from 0. A restore may be refused to anyone there,
since the table may be damaged; that the passphrase of an enabled slot does open
a table as it was kept is `MembersAdmitted`.

**SlotTableFormat** (`slots.rs:126-134`, `251-335`). The bytes behind the
structured table of KeySlots.

| variable | in the code |
|---|---|
| `stage` | writing, stored, reading, done |
| `table` | `self` in `to_bytes` |
| `bytes` | `buf` of the writer, `body` of the parser |
| `pos` | how much is written; `pos` of the parser |
| `slots`, `cur` | the slots written or parsed, and the fields of the next one |
| `stored` | what `to_bytes` returned |
| `given` | the arguments of `from_bytes` |
| `result` | what it returned, or that it panicked |

`PushField` and `Finish` are `to_bytes`; `Call` is `from_bytes` up to the
count, with its tests in the order of the code; `TakeField` and `TakeVerifier`
are the loop and what follows it. `kdf_id` and `flags` are read by `byte_at`, which
panics behind the end, all other fields by `slice_at`, which answers with an
error. A field is the bytes of its value; the MAC is 32 bytes that depend on the
salt and on all of the body. The inputs are what a file can have become: the
stored bytes, whole or cut at any place, and bodies of other programs under a
good MAC, whose key is the public header salt.

**AegisCli** (`bin/aegis.rs`). Processes at a set of terminals run commands on
three files.

| variable | in the code |
|---|---|
| `file` | the contents of the vault file, the sealed file and the opened file, as cells, or `None` |
| `proc` | the command at each terminal: its arguments, what it has read so far (`buf`), the vault it has opened, what it has to write and how far it is (`pos`) |
| `draws` | commands that draw from `OsRng`, each with a number of its own |
| `written` | history: tables that some command set out to write |
| `members` | history: whom finished commands reported to have access, and to which master |
| `sealed` | history: what the last finished `seal` put into the sealed file |

| stage | actions | in the code |
|---|---|---|
| `idle` | `StartInit`, `StartAdd`, `StartSeal`, `StartReader` | `main` up to the first file call; `init` computes its table here |
| `read` | `ReadCell`, then `EndVault` or `Decrypt`; `NotFound` | `fs::read` one `read` at a time; the tests that follow it |
| `opening` | `UseVault` | `open_vault` after reading, and what the command does with the vault |
| `create` | `CreateFile` | `fs::write`: the file is opened and emptied |
| `write` | `WriteCell`, `Finish` | `fs::write`: the contents, at the writer's own offset |
| any but `idle` | `Die` | killed, or a failed file call and `fail` |

A file is a sequence of cells cut so that the cells of two tables of any length
lie over each other: 44 bytes, then 64 and 46 for each slot of 110 bytes, then
64. What overlapping writers leave is a sequence of cells of both, or a table
with the end of a longer one behind it. `Spec` lets commands overlap as they
like. In `SerialSpec` the users run one *writing* command at a time; commands that
only read still overlap with it, and any command may die.

**VaultFile** is the abstract specification of what the launcher promises people
who do not change files two at a time: a volume and its users, a sealed text,
and who was told to have access. **CliImplementsVaultFile** maps the files to
it. A change counts from the moment the file is emptied: while a command writes,
the file stands for what is being written, and if the writer dies, for nothing.

**CliArguments** (`bin/aegis.rs:42-69`, and the arguments each command asks for).
`line` is what somebody meant: a command and its flags in some order, each with a
value or one without. `Flag` and `Skip` are the loop of `parse_args`, `Req` one
call of `req`. AegisCli begins where it ends.

**KeyMemory** (`aegis_key.rs`). Pages with room for several keys.

| variable | in the code or the system |
|---|---|
| `key` | per `AegisKey`: stage, cell (the place of `data`), `locked` |
| `bytes` | whose material each cell holds, or nobody's |
| `pinned` | pages that are locked in RAM |
| `undumped` | pages left out of core dumps |
| `crowded` | history: pages on which two keys have been at a time |

`Copy`, `Lock` and `Advise` are `new`; `Burn` and `Drop` start the end of a
key, which goes on with `Wipe`, `Readmit` (`MADV_DODUMP`), `Unlock` (`munlock`) and
`Free`, in the order `DropStages` gives. Each system call is a step of its own,
since keys belong to any threads.

**MCAegisVault**, **MCAegisCli**, **MCSlotTableFormat**, **MCCliArguments** and
**MCKeyMemory** hold the constants and symmetries of the runs. The proof modules are described
under [The proofs](#the-proofs).

Operators marked *Fault* in a comment are not the code: each is the definition
below it with one plausible mistake, used to confirm that a property notices.

## Abstractions

* Cryptography is ideal: outputs of a primitive are equal only for equal inputs,
  no tag is forged, no random number repeats. All else rests on this.
* One draw stands for all the random fields a call draws (slot salt and nonce,
  or slot and header salt). The code draws them separately; they are never
  compared with each other.
* `slot_id`, `kdf_id`, `created_at` and the version are not read by any
  function and left out. The costs of a slot are always 64 KiB and 3, as
  `new_initial` and `add_slot` pass them.
* In the vault and the launcher a serialized table is a structured body and a
  MAC. SlotTableFormat justifies it: `to_bytes` and `from_bytes` are inverse to
  each other on every table that can be built (`RoundTrip`), what is cut short
  is an error (`CutsRefused`), and what has a good MAC is parsed as laid out
  (`AcceptedAsLaidOut`). Damage is what can be put together from several writes;
  any other damage fails the MAC like a wrong salt does. The `Serialization`
  errors come after the MAC test and cannot occur in what `to_bytes` wrote.
* In SlotTableFormat the integers are their little-endian bytes, since
  `to_le_bytes` and `from_le_bytes` are inverse; the fields keep their lengths.
* In CliArguments a word is a sequence of symbols, the name of a command one of
  them: what the code looks at is whether a word is empty, whether it begins
  with a dash, and what comes then.
* In AegisCli, `read` and `write` calls stop only between cells. A call that
  stops inside one leaves a cell that is neither; it fails the same test of
  `read_vault`, the MAC or the AEAD tag as a cell of the wrong kind. All plaintexts have one
  length, so all sealed files have two cells.
* Files are those of a running system: what a dead process has written is there.
  A loss of power, after which the order of the writes is lost too, is not in
  the model, nor is a full disk except as `Die`.
* The files a command reads and writes are distinct; the input of `seal` is a
  value, its file is not modelled.
* A command that will draw takes its number when it starts, so that equal
  interleavings are equal states. Numbers are only compared for equality.
* In KeyMemory the allocator gives any free cell, `mlock` is granted or refused
  at will, and `madvise` refuses an address that is not that of a page, as Linux
  does. The model is of a unix build; elsewhere there is nothing to lock.
* `HkdfExpand` and `AeadSeal` errors cannot occur: the expansion is 32 bytes and
  every plaintext fits.

## The runs

### The vault

These runs use one handle. Two live vaults share nothing but what the caller carries
from one to the other, and that is in `saved` and `blobs`, which survive `Drop`:
one handle that is dropped and created again, with another master or the same,
meets every combination of a vault and a kept piece. The proofs are for any
number of handles. `tables` has one raw master, `calls` none; other masters come
from `unlock` (one per passphrase) and `rotate_master` (one per draw).

| run (`.cfg`) | specification | bounds | checks |
|---|---|---|---|
| `tables` (VaultTables) | `OpenSpec` | 2 passphrases, `MAX_SLOTS` 2, 3 draws, 2 kept tables, accepted and refused KDF costs | `VaultCoherent`, `RevokedSlotsAreEmpty`, `RotationStartsAfresh`, `TablesOpenedWhole` |
| `calls` (VaultCalls) | `Spec` | 2 passphrases, `MAX_SLOTS` 2, 3 draws, 1 kept table, 1 ciphertext, 2 associated data | `TypeOK`, `MembersAdmitted`, `CiphertextsOpenAtHome`, `SlotIndicesStable`, `RosterSpec` |
| `rotation` (VaultRotation) | `Spec` | 1 passphrase, 2 draws, 1 kept table | `RotationInvalidatesTable`, violated |

What they show:

* `TypeOK`: also that every call ends with a value or an error of `error.rs`, which
  means here that no cipher crate is given a nonce of another length. A table is a
  structure in this module; the parser of its bytes does panic on some, which ones
  is `PanicsAtUncheckedBytes` below.
* `VaultCoherent`: master, hierarchy and verifier of a vault belong together
  after any calls. The hard case is a kept table to which the public
  `KeySlotTable` added a slot for another master, under a passphrase that no
  earlier slot opens for: it needs the verifier test in `open_from_slots`.
* `RevokedSlotsAreEmpty`: a revoked slot has nothing left to unseal, even by its
  raw ciphertext.
* `RotationStartsAfresh`: a table never opens to a master that was drawn after
  the table was made. The hard case takes five calls: seal, keep the table,
  rotate, and with the new master add a slot to the kept, old table; its user
  would get the new master from a table of the old one, and nothing but the
  verifier test refuses it.
* `TablesOpenedWhole`: no mixture of kept tables is accepted.
* `MembersAdmitted`: no sequence of calls locks everybody out, and each enabled
  slot's passphrase opens the whole table, also when other slots come first.
  It holds of `Spec` only: with `DirectTableUse` a caller can add the slot above,
  the table then answers `VolumeMismatch`, and its author has locked that
  passphrase out.
* `SlotIndicesStable`: an index names the same slot while the table lives.
* `CiphertextsOpenAtHome`: a ciphertext opens exactly in a vault with its
  master, for its domain, algorithm and associated data, and gives the message;
  everything else is `AeadOpen`.
* `RosterSpec`: every call is the step of the abstract roster that it answers for,
  or invisible to it. `open_from_slots` succeeds only for a passphrase whose slot
  in the kept table was enabled when it was kept, and brings back just its users,
  each at the place they had; `add_slot` reports the new place and refuses exactly
  when all places are given, those of revoked users included; `revoke_slot` takes
  the place it is told unless that is the last user's; and a call that is refused
  changes nothing.

Why the bounds are enough. Three draws make a full table that is asked for one
slot more, a table with two slots and a rotation, or two tables and a slot added
to one. Two kept tables are what a mixture needs; one is what comes back later in
`calls`. With two slots, the first of two can be revoked, so that what opens the
table lies behind a wiped slot; the full table can have a revoked place or none;
and the revocation of the last enabled slot is refused after one that was not. A
third slot would be one more of what the second is: slots are tried one by one and
never compared with each other. One ciphertext is enough, since calls never
compare two. Passphrases and associated
data are interchangeable and reduced by symmetry in `calls`. A deadlock is none of the
outcomes: some call is always possible, and TLC checks it.

Each property was confirmed to fail for a plausible fault in the code (the
`mutants` of `PROJECT.json`): the verifier test dropped, the MAC test dropped, a
revocation that leaves the ciphertext, one that takes the last slot, a new slot
in a revoked one's place, the undivided hierarchy in place of the six domain
keys, the nonce-length test left to the cipher crate, a slot that opens whatever
the passphrase, one slot more than the limit.

### The launcher

All with two terminals.

| run (`.cfg`) | specification | bounds | checks |
|---|---|---|---|
| `cli_overlap` (CliOverlap) | `FairSpec` | 1 passphrase, `MAX_SLOTS` 2, 2 draws; all but `verify` | `TypeOK`, `OpensWholeTables`, `CommandsEnd`, `BoundedSteps` |
| `cli_serial` (CliSerial) | `SerialSpec` | 2 passphrases, `MAX_SLOTS` 2, 3 draws; all commands | `MembersKept`, `SealedReadable`, `FileSpec` |
| `cli_lost_user` (CliLostUser) | `Spec` | 2 passphrases, `MAX_SLOTS` 2, 3 draws; `init`, `add` | `AddedUsersHaveSlots`, violated |

* `OpensWholeTables`: a command that goes on with a vault file has the table of
  one write, whole. The hard cases are a file that is overwritten while it is
  read, so that the head is of one table and the rest of another, and one left
  by two writers or a dead one.
* `MembersKept`: while the vault file is not being written, everybody whom
  `init` or `add` reported can open it. The property ends, by its history
  variable, where the code makes no promise: with the next `init`, and when a
  command dies while it writes, which may leave no usable file at all. The
  death of a command at any other step costs nothing.
* `SealedReadable`: what `seal` reported can be opened by each member of a vault
  of its master, also by one added later, in a vault made from the file.
* `CommandsEnd`: a reader also ends when the file shrinks below what it has read.
* `BoundedSteps`: how soon. A command has at most `MaxSteps` steps before it; each
  it takes brings that number down and nobody else's brings it up, not even when
  a file grows while it is read.
* `FileSpec`: every step is a step of VaultFile or invisible to it. Only a user
  lets in another; nobody leaves but by a new `init` or the death of a writer;
  who is told to have access has it; a text is sealed under the volume of all
  its users, and a key that no master gives is no volume's. Readers at any point
  do not disturb it.

Why the bounds are enough. Three writing commands, as in `cli_serial` and
`cli_lost_user`, are an `init`, a change, and a third that is refused, or that
overlaps with it. In `cli_overlap` an `init` and a second writer meet at every pair of
cells, with a reader in the place of either; `MAX_SLOTS` 2 gives two lengths of
table, so that a shorter one can be written over a longer one. A third writer
would need a third terminal to meet both at once. The passphrase plays no part in
how cells mix, so one is enough there; two tell a lost user from
others. `verify` is an `open` that stops once the vault is open, and is left out
of `cli_overlap`, where it would only repeat it.

### The layout and the arguments

| run (`.cfg`) | bounds | checks |
|---|---|---|
| `format_read` (FormatRead) | `MAX_SLOTS` 2, a count below 3, tables of 1 to 3 slots, 2 salts, 264 foreign bodies | `TypeOK`, `RoundTrip`, `CutsRefused`, `AcceptedAsLaidOut`, `PanicsAtUncheckedBytes` |
| `format_panics` (FormatPanics) | the same | `ParserAnswers`, violated |
| `cli_arguments` (CliArguments) | 4 commands, an unknown one and none; five values for each flag | `TypeOK`, `RunsAsTyped`, `OmissionNoticed` |

* `RoundTrip`: each field comes back in its own place. The count is exact
  because `add_slot` refuses what the byte cannot tell: with `U8` 3 and
  `MAX_SLOTS` 2 the boundary is where it would be with 256, and the table of
  three slots among the constants is one that must not be built.
* `CutsRefused`: also that the refusal is no panic; a writer's death or a copy
  that stops short gives an error.
* `AcceptedAsLaidOut`: of any body, whoever wrote it, that is accepted, all that
  the count announces is there and each field was taken from where the layout
  has it. It is the part of the parser a MAC does not vouch for.
* `PanicsAtUncheckedBytes`: the parser panics only at the three bytes it reads
  without a test, and only if a body ends just there under a good MAC of its own;
  nothing that a stored table was cut to gets it there.
* `RunsAsTyped`: a line as the usage has it does what it says, with the flags in
  any order, also if a passphrase or a file name looks like a flag.
* `OmissionNoticed`: a line with one value left out does not run. The flag
  before the gap swallows the next one, and the words that are then taken for
  flags may name other flags of the command; in the end one is missing all the
  same. With *two* mistakes, a wrong command line can be another right one.

Why the bounds are enough. Every byte of every field of a slot is different, and
different from those of the other slot, so that a field taken from elsewhere is
not the same by chance; two slots have a first, a next and a last. All lengths of
a body from nothing to a whole table of two slots occur, under a good MAC, and
counts of none, one less and one more than follow. Among the values are the
names of three flags, a lone dash and a plain word; `open` has the flags of
`seal`.

### The memory

All with three keys on two pages of two cells: two keys that share a page and a
third on the other, in places that are given back and taken again.

| run (`.cfg`) | checks |
|---|---|
| `memory_shared` (MemoryShared) | `TypeOK`, `FreedMemoryIsClean`, `LocksAreReturned`, `ExclusionsFollowKeys`, `KeysAlonePinned` |
| `memory_pinned` (MemoryPinned) | `LiveKeysPinned`, violated |
| `memory_dumped` (MemoryDumped) | `LiveKeysUndumped`, violated |

* `FreedMemoryIsClean`: a cell nobody owns has no key's bytes and no key meets
  those of another, because the bytes go first and the buffer last.
* `LocksAreReturned`: a locked page has a key on it that knows it was locked;
  otherwise dropped keys would use up what the process may lock.
* `ExclusionsFollowKeys`: the pages core dumps leave out are exactly those of the
  locked keys at the start of a page. No neighbour on the page lets it back in:
  the test that keeps most keys from being excluded keeps them from undoing the
  exclusion of another.
* `KeysAlonePinned`: the bytes of a key whose lock was granted are on a locked page
  until the last of them is wiped, unless two keys have met there: also the drop
  of a key gives the lock back only after the bytes are gone. What is dropped
  or made on other pages, and who had the page before, does not matter: meeting is
  all that is wrong in `memory_pinned`.

### Mutants, deadlock, fairness

Each property was confirmed to fail for a plausible fault in the code (the
`mutants` of `PROJECT.json`). Those of the launcher: a MAC test dropped, writes
that go behind what others have written, a file that is not emptied before it is
written, a vault that keeps the master made from the user's own passphrase, one that keeps its hierarchy
when a table is opened in it, a reader that
stops only exactly at the end, and one that starts again when the table it read
does not parse. Those of the memory: no wiping, a buffer given back too
early, a failed `madvise` reported as a failed lock, a lock reported that was
refused, the lock given back before the bytes are wiped, an address that is rounded
down for one of the two `madvise` calls only. Those of the layout: a limit of
slots above what the count can tell, no MAC test, a slice that is clamped to the
end, an index that does not move on. Those of the arguments: an empty value that
counts as one, a loop that looks at the value again.

TLC checks for deadlock except in `cli_lost_user`, `format_read`,
`format_panics` and `cli_arguments`. In the first, when `MaxDraws` commands have
drawn and no `open` or `verify` is allowed, people have nothing left to start; the
others follow one call to its end.

Fairness is assumed only in `FairSpec`: weak fairness of `Advance(t)` for each
terminal, that is, the system schedules every process and its file calls
return. No fairness is assumed of people or of `Die`. No liveness is claimed of
the vault and of the memory: they act only when called, each call is a fixed number of
steps without waiting, and no caller owes them a next call.

## The proofs

TLAPS proves these for every value of the constants that the `ASSUME`s of the
modules admit:

* the vault: any handles, passphrases, KDF parameters and masters, any bounds
  that are numbers (`BoundsAssumption`), costs that are numbers
  (`KdfParamAssumption`), and `MAX_SLOTS` positive (`MaxSlotsAssumption`). The
  refinement also tells `None` from every user, index, roster, table and vault
  (`NoneAssumption` of VaultImplementsRoster), and a master given from outside
  from one that `OsRng` gives (`RawMasterAssumption`: no randomness repeats);
* the launcher: any terminals, passphrases, texts and commands among the five of
  the code, any number of draws (`CliAssumption`), `MAX_SLOTS` positive, and a
  file that is not there is no contents (`NoneAssumption` of AegisCli);
* the arguments: any words that are not empty, of any symbols, and any commands
  (`ArgumentsAssumption`);
* the layout: any salts, any tables of the types of the code, any bodies of bytes
  from other programs and any `MAX_SLOTS` below what the count can tell
  (`FormatAssumption`);
* the memory: any keys, pages and number of cells (`MemoryAssumption`, that it is
  positive, is not needed).

| theorem | module | says |
|---|---|---|
| `TypeCorrect` | AegisVaultProofs | `OpenSpec => []TypeOK` |
| `AlwaysCoherent` | AegisVaultProofs | `OpenSpec => []VaultCoherent` |
| `OpenedWhole` | AegisTableProofs | `OpenSpec => TablesOpenedWhole` |
| `AlwaysEmpty` | AegisTableProofs | `OpenSpec => []RevokedSlotsAreEmpty` |
| `AlwaysAdmitted` | AegisTableProofs | `Spec => []MembersAdmitted` |
| `IndicesStable` | AegisTableProofs | `OpenSpec => SlotIndicesStable` |
| `RotatedAfresh` | AegisTableProofs | `OpenSpec => []RotationStartsAfresh` |
| `ImplementsRoster` | AegisTableProofs | `Spec => RosterSpec` |
| `KeysSeparated` | AegisVaultProofs | no key of the tree has two origins |
| `AlwaysOpenAtHome` | AegisVaultProofs | `OpenSpec => []CiphertextsOpenAtHome` |
| `CliTypeCorrect` | AegisCliProofs | `Spec => []TypeOK` of AegisCli |
| `AlwaysOpensWhole` | AegisCliProofs | `Spec => []OpensWholeTables` |
| `CommandsRunDown` | AegisCliProofs | `Spec => BoundedSteps` |
| `MembersAlwaysKept` | AegisSerialProofs | `SerialSpec => []MembersKept` |
| `SealedAlwaysReadable` | AegisSerialProofs | `SerialSpec => []SealedReadable` |
| `ImplementsVaultFile` | FileProofs | `SerialSpec => FileSpec` |
| `ArgumentsTypeCorrect` | CliArgumentsProofs | `Spec => []TypeOK` of CliArguments |
| `WholeLinesRun` | CliArgumentsProofs | `Spec => []RunsAsTyped` |
| `OmissionsNoticed` | CliArgumentsProofs | `Spec => []OmissionNoticed` |
| `MemoryTypeCorrect` | KeyMemoryProofs | `Spec => []TypeOK` of KeyMemory |
| `AlwaysClean` | KeyMemoryProofs | `Spec => []FreedMemoryIsClean` |
| `LocksComeBack` | KeyMemoryProofs | `Spec => []LocksAreReturned` |
| `ExclusionsAreKept` | KeyMemoryProofs | `Spec => []ExclusionsFollowKeys` |
| `PinnedWhenAlone` | KeyMemoryProofs | `Spec => []KeysAlonePinned` |
| `FormatTypeCorrect` | SlotTableProofs | `Spec => []TypeOK` of SlotTableFormat |
| `AlwaysRoundTrips` | SlotTableProofs | `Spec => []RoundTrip` |
| `CutsNeverRead` | SlotTableProofs | `Spec => []CutsRefused` |
| `AcceptsOnlyLaidOut` | SlotTableProofs | `Spec => []AcceptedAsLaidOut` |
| `PanicsOnlyThere` | SlotTableProofs | `Spec => []PanicsAtUncheckedBytes` |

The first part of AegisVaultProofs has what the operators of the code return: `NewSlot`,
`AddSlotType`, `RevokeSlotType` (which also counts: a slot remains enabled),
`UnsealWithType` (the first slot that opens), `OpenTableType`. The arguments:

* `TypeOK` of AegisVault is inductive as it stands. Since `"panic"` is no outcome
  there, the proof also shows that the nonce-length test always comes before
  `from_slice`. In SlotTableFormat a panic is an outcome of its own, beside the
  tables and the errors: `FormatTypeCorrect` says that a table has the lengths of
  the code's types, `PanicsOnlyThere` which bytes end in a panic.
* `VaultCoherent` is inductive given the types: the only step that takes a
  master from outside is `open_from_slots`, and `OpenTableType` says that the
  verifier of the parsed table is that of the recovered master.
* `TablesOpenedWhole` needs to know the kept tables: `SavedIntact`, that each
  MAC is the one of its own body under its own salt. Then a mixture that passes
  agrees with the table the MAC came from in both other parts.
* The properties about all tables need to know where a table comes from.
  `TablesAfterNext` says that every table after a step was there before, or is
  new, or extends or reduces one that was; `TablesAfterOpenNext` adds the public
  table, whose slots may hold any vault's master. `MembersAdmitted` is then strengthened to
  `WellFilled`: some slot is enabled and every enabled slot holds the master its
  table's verifier was made from, sealed under some passphrase. Without "the
  table's master" a foreign slot could come first. `RevokedSlotsAreEmpty` is
  strengthened to `Wiped`: a disabled slot's ciphertext is the zeroed one, which
  no passphrase opens.
* `SlotIndicesStable` compares a table with one that replaces it and has the same
  header salt. It needs that a new table's salt is new: `SaltsDrawn`, no table
  live or kept has a header salt that is still to be drawn, so an equal salt means a
  table that extends, reduces or is the old one.
* `RotationStartsAfresh` is strengthened to `VerifiersPrecede`: if the verifier of a
  table is that of a drawn master, the draw came before the header salt's. A new
  table is for the master its vault has, which is no later than the draws so far
  (`MastersKnown`; `DrawnMaster` tells drawn masters from given and derived ones), and
  one that is changed keeps verifier and salt (`SameOrigin`). What a table opens to is
  the master of its verifier (`OpenTableType`).
* `RosterSpec`: `NextChanges` brings every step down to a few forms of what becomes
  of the vaults and of the kept tables and of what is answered (`Changes`), and
  each form is a step of the roster: a vault is acquired, given up, rotated, gets
  a new table, one that is longer or shorter by a user, files its table, reopens a
  kept one, or nothing changes and the answer says so. The table steps need
  `WellFilled`: every enabled slot was sealed under the passphrase of the user at its
  place, and opens for that one only (`OpensForHolder`). So whoever opened a kept
  table was on the filed roster (`OpenedByMember`), and the last enabled slot is the
  last member's place (`LastEnabled`). A reopened table also needs `VaultCoherent`,
  and a rotation that the new volume is new: `MastersKnown`, that every master in a
  vault or behind a kept verifier was given, derived or drawn so far.
* `OpensWholeTables` and the types of the launcher go together (`Inv`): every
  tail cell in a file, a buffer or in what is to be written carries the MAC of a
  table in `written`, and the MAC covers salt and body. Cells of two writes under
  one tail therefore do not open, so no command ever gets a master or a slot
  out of them, and whatever is written again has its type.
* `BoundedSteps`: `StepsLeft` is a number that every step of the command lowers, one
  lemma for each (`ReadCellNearer`, `EndVaultNearer`, ...). What bounds it is in the
  types: files and buffers have at most `MaxCells` cells (`TypeOK`), and a command
  reads on only while the file has more than it has read, so another writer can
  give it more to read but never more than that.
* `MembersKept` and `SealedReadable` follow the one command that may change files
  (`SerialInv`): what it has read so far is the beginning of the vault file as it
  still is (`Knows`), so the table it writes serves all members and not those of
  some earlier file (`PutsVault`), and the file holds exactly what it has written
  of its data (`Done`). All slots of a written table hold the master of its
  verifier (`Uniform`), so whichever opens first gives the same keys, which is
  why a sealed file opens for every member.
* `FileSpec` adds to that what a writer is about to do (`FileInv`): the table of an
  `init` admits its user alone and nobody is told before it is written; that of
  an `add` has the old volume and one user more, and a user asked for it; what a
  `seal` writes is sealed by a user under the volume of the file. The `Stands...`
  lemmas say what the files stand for after each step. A change is one step of
  VaultFile at the moment the file is emptied (`CreateChanges`), a report another
  (`FinishTells`), a death a loss (`DieLoses`), because what is on the disk before
  the last cell is not a vault (`PartIsNoVault`): the tail comes last. All other
  steps change nothing one could see (`Unseen`).
* `RunsAsTyped` follows a whole line two words at a time: after `2 * j` words, what is
  found is the first `j` flags with their values (`FoundAsTyped`), so a value is
  never looked at as a flag. `OmissionNoticed` is a count (`TwoWordsEach`): every
  flag found with a value has used up two words of its own, and a line that
  lacks one is a word too short for all of its flags, whatever the words are.
* `CiphertextsOpenAtHome` is strengthened to `BlobsAsEncrypted`: a ciphertext
  was made under the domain key of the noted master, with a nonce of its
  algorithm's length. With `VaultCoherent`, and because domain keys are equal
  only for equal masters and domains, the key of a vault is the ciphertext's
  exactly if its master is.
* `FreedMemoryIsClean` is strengthened to `MemoryInv`: a key past its wiping has
  no bytes in its cell, so none are left when the cell is given back. `Steps`
  brings the nine actions down to the forms the proofs distinguish.
* `LocksAreReturned` is strengthened to `LockInv`: the key a page is locked for
  has not unlocked it yet, and no key is marked as locked before `mlock` was
  called for it. `OneKeyLocks` says what a step of one key must see to.
* `ExclusionsFollowKeys` needs `LockedInOrder`, that a key past its `mlock` and before
  its `madvise` is marked as locked; and that two keys of one page are not both at
  its start (`OneKeyExcludes`), so that the page readmitted is no other key's.
* `KeysAlonePinned` is strengthened to `HeldPagesPinned`, from the grant of the lock to
  its return, which comes after the wiping (`MemoryInv`), with
  `MetAreCrowded`, that the history variable is true to its name
  (`Meetings`: no key moves, so only a new one meets another). What `munlock` unlocks
  on a page where no two have met is then only its own key's.
* SlotTableFormat has one inductive invariant, `Inv`, by stages. `WriteInv`: the
  fields written so far are the table's and in their places, and `pos` is where
  the next one goes. `StoreInv`: what is stored is `Signed` of a body that
  `Encodes` the table. `ReadInv`: the bytes are what the MAC was found good for,
  and the fields parsed so far are those in the places before `pos`. Both halves
  speak of the same places (`Placed`, `Start`), and two tables with equal fields
  in all places are equal (`OneLayout`): that is `RoundTrip`. `CutIsUnsigned`
  says that what is left of a signed body ends in something other than its own
  MAC, because each byte of a MAC depends on all of the body: that is
  `CutsRefused`. Without `ReadInv`'s "under the MAC" nothing would tie the
  accepted table to what was given. `PanicsAtUncheckedBytes` follows the step that
  panicked back to a field that `ReadInv` places (`FieldPanic`), or to the count
  (`CallPanic`); `RoundTrip` and `CutsRefused` exclude the stored tables and their cuts.

Only model-checked: liveness (`CommandsEnd`), which is out of reach of the proof
system. Its safety half is proved, that a command runs down (`BoundedSteps`); what
TLC alone shows is that a command that has steps left can always take one, and
that weak fairness makes it. All other properties of the passing runs are proved.

## Divergences

Five places where the documentation says one thing and the code does another,
each shown by a run that TLC ends with a counterexample. How far the promise does
hold is a theorem for each of them.

* *Rotation* (run `rotation`). `lib.rs:187` says of `rotate_master` that "The
  previous slot table is invalidated". The code sets `self.slots = None`
  (`lib.rs:194`). A table serialized before the rotation is as good as before:
  the run seals, keeps the table, rotates, and reopens it in the very same
  vault, whose master is then the replaced one again. The rotation takes back
  nobody's access to what is stored; callers have to delete the old tables
  themselves. What is encrypted after the rotation is out of reach of the old
  tables, though: none opens to the new master (`RotatedAfresh`).
* *Concurrent adds* (run `cli_lost_user`). `bin/aegis.rs:8` offers "add a
  multi-user slot". Two `add`s that read the same file write one after the
  other; both report success (`:147`), and the slot of the first is lost
  (`:146`). The file is whole, so nothing shows the loss before the user tries.
  While one command at a time writes, nobody is lost (`MembersAlwaysKept`), except
  by another `init` of the same file or by the death of a command that is writing
  it: either empties the only copy.
* *Pinned keys* (run `memory_pinned`). `aegis_key.rs:7` says that "the backing
  allocation is pinned to RAM". Locks do not nest: the `munlock` of one key
  (`:139`) unlocks its page for all keys on it, which keep `locked == true`. On a
  page where no two keys have met the promise holds (`PinnedWhenAlone`).
* *Core dumps* (run `memory_dumped`). `aegis_key.rs:123` says "Exclude the key
  pages from process core dumps". The `madvise` below it gets the address of
  the buffer, fails with `EINVAL` unless that happens to be the address of a
  page, and nobody looks. The keys that do have such an address are excluded for as
  long as they should be, whoever else is on their page (`ExclusionsAreKept`).
* *A parser that panics* (run `format_panics`). `slots.rs:126` calls `slice_at`
  the "Bounded slice helper for `from_bytes`", and `error.rs:58` has an error
  for what cannot be parsed. The test at `slots.rs:277` admits a body of five bytes,
  of which `body[5]` (`:294`) is then read; `body[pos]` at `:301` and `:322` is
  read without a test too. Such a body needs a good MAC, so no cut table gets
  there (`CutsRefused`): only one that a program wrote so, and of those only the
  ones that end before the count, a `kdf_id` or the `flags` (`PanicsOnlyThere`).

Two more that need no run to be seen. The layout in the comment at
`slots.rs:14-31` goes from `created_at` to `header_hmac`, but the code writes
the 32 bytes of the verifier in between (`:268`) and requires them (`:331`): a
table by the comment is refused. And line 85 of the repository's `README.md` says
that key material cannot leak through freed memory, but `unseal` gets the master in a
`Vec` from the cipher (`slots.rs:111`) and drops it unwiped when it has copied it.

## What is not modelled

* The launcher's help text and messages: wording.
* Copies of key material outside `AegisKey` buffers (the buffer of the cipher in
  `unseal`, stack copies of the master and of derived keys): nothing handles
  them, so there are no steps to follow.
* `examples/quickstart.rs`: straight calls of the vault, in an order that
  `calls` covers.
* The arithmetic of the cryptographic crates: outside this repository.
* Timing, entropy and strength of passphrases: nothing here to check.

## The plan

1. *The vault and its tables* (done): Primitives, KeyHierarchy, KeySlots,
   VaultValues, AegisVault, with proofs.
2. *What they promise* (done): VaultRoster, checked and proved as a refinement.
3. *The launcher* (done): AegisCli, with proofs.
4. *Protected memory* (done): KeyMemory, with proofs.
5. *The layout* (done): SlotTableFormat, with proofs.
6. *What the launcher promises* (done): VaultFile, checked and proved as a
   refinement; CliArguments, with proofs.
7. *How far the broken promises hold* (done): `RotationStartsAfresh`,
   `ExclusionsFollowKeys`, `KeysAlonePinned`, `PanicsAtUncheckedBytes`,
   `BoundedSteps`, with proofs.
8. *Left*: a proof that a command with steps left is never blocked, in a form that
   needs no `ENABLED`. Larger instances would repeat what the theorems say of all.
