-------------------------- MODULE SlotTableFormat ---------------------------
(***************************************************************************)
(* slots.rs: the bytes of a key-slot table.  to_bytes pushes the fields of *)
(* a table one after the other; from_bytes, given what a file has become,  *)
(* tests the whole and then takes the fields off again.  KeySlots has the  *)
(* same two functions on structured values.                                *)
(*                                                                         *)
(* Byte k of a body is bytes[k + 1]; pos is the position of the code.  A   *)
(* slot is the sequence of its nine fields, and a field the bytes of its   *)
(* value: to_le_bytes and from_le_bytes are inverse to each other.         *)
(***************************************************************************)
EXTENDS Naturals, Sequences

CONSTANTS
  Salt,        \* header salts
  Table,       \* the tables to_bytes may be given
  Foreign,     \* the bodies other programs write
  MAX_SLOTS,   \* 16 in the code
  U8           \* 2^8: how many slots the count can tell apart

VARIABLES
  stage,    \* "write", "stored", "read" or "done"
  table,    \* the table that is written
  bytes,    \* the body that is written or parsed
  pos,      \* how much of it is written or parsed
  slots,    \* the slots that are,
  cur,      \*   and the fields of the next one
  stored,   \* what to_bytes has returned
  given,    \* data and header_salt from_bytes is called with
  result    \* what from_bytes answers

vars == <<stage, table, bytes, pos, slots, cur, stored, given, result>>

Ok(v)  == [ok |-> TRUE, val |-> v]
Err(e) == [ok |-> FALSE, err |-> e]

(* An index that is out of bounds. *)
Panic == Err("panic")

-----------------------------------------------------------------------------
(* The layout                                                              *)

Byte == [val : 0 .. 255]

(* blake3: OUT_LEN bytes that depend on the salt and on all of the body. *)
OUT_LEN == 32

keyed_hash(salt, body) ==
  [k \in 1 .. OUT_LEN |-> [key |-> salt, over |-> body, at |-> k]]

(* A body and the MAC over it. *)
Signed(body, salt) == body \o keyed_hash(salt, body)

HEADER_MAGIC   == <<[val |-> 83], [val |-> 79], [val |-> 84], [val |-> 75]>>
HEADER_VERSION == [val |-> 1]
VERIFIER_LEN   == 32

(* slot_id, kdf_id, m_cost, t_cost, salt, nonce, ct, flags, created_at *)
FieldLen == <<16, 1, 4, 4, 16, 12, 48, 1, 8>>

Field == 1 .. 9

Slot == {s \in [Field -> Seq(Byte)] : \A f \in Field : Len(s[f]) = FieldLen[f]}

SlotTable ==
  [header_salt : Salt, slots : Seq(Slot), verifier : {v \in Seq(Byte) : Len(v) = VERIFIER_LEN}]

(* Fault: slots are added until the count cannot tell them. *)
Buildable_Unbounded(t) == Len(t.slots) \in 1 .. U8

(* What new_initial and add_slot build. *)
Buildable(t) == Len(t.slots) \in 1 .. MAX_SLOTS

ASSUME FormatAssumption ==
  /\ MAX_SLOTS \in Nat
  /\ U8 \in Nat
  /\ MAX_SLOTS < U8 /\ U8 <= 256
  /\ Table \subseteq SlotTable
  /\ Foreign \subseteq Seq(Byte)

-----------------------------------------------------------------------------
(* A field more, for the writer and the parser.                            *)

Gets(value) ==
  IF Len(cur) + 1 = Len(FieldLen)
  THEN slots' = Append(slots, Append(cur, value)) /\ cur' = <<>>
  ELSE slots' = slots /\ cur' = Append(cur, value)

-----------------------------------------------------------------------------
(* to_bytes                                                                *)

(* The header; slots.len() as u8 drops the high bits. *)
Header(t) == HEADER_MAGIC \o <<HEADER_VERSION, [val |-> Len(t.slots) % U8]>>

PushField ==
  /\ stage = "write"
  /\ Len(slots) < Len(table.slots)
  /\ LET value == table.slots[Len(slots) + 1][Len(cur) + 1]
     IN  /\ bytes' = bytes \o value
         /\ pos' = pos + Len(value)
         /\ Gets(value)
  /\ UNCHANGED <<stage, table, stored, given, result>>

(* The verifier, then the MAC over all that precedes it. *)
Finish ==
  /\ stage = "write"
  /\ Len(slots) = Len(table.slots)
  /\ bytes' = bytes \o table.verifier
  /\ pos' = Len(bytes')
  /\ stored' = Signed(bytes', table.header_salt)
  /\ stage' = "stored"
  /\ UNCHANGED <<table, slots, cur, given, result>>

-----------------------------------------------------------------------------
(* from_bytes                                                              *)

(* What from_bytes may be given under a salt: the table as it was written,
   whole or broken off anywhere, or what another program has written. *)
Given(salt) ==
  {SubSeq(stored, 1, k) : k \in 0 .. Len(stored)}
  \cup {Signed(body, salt) : body \in Foreign}

(* Fault: no MAC is looked at. *)
Body_WithoutMac(data, salt) ==
  LET body == SubSeq(data, 1, Len(data) - OUT_LEN)
  IN  IF Len(data) < 5 + OUT_LEN THEN Err("Serialization")
      ELSE IF SubSeq(body, 1, 4) # HEADER_MAGIC \/ body[5] # HEADER_VERSION
      THEN Err("Serialization")
      ELSE IF Len(body) < 6 THEN Panic
      ELSE Ok(body)

(* The body, once the tests that concern the whole are passed and the count
   can be read. *)
Body(data, salt) ==
  LET split == Len(data) - OUT_LEN
      body  == SubSeq(data, 1, split)
  IN  IF Len(data) < 5 + OUT_LEN THEN Err("Serialization")
      ELSE IF SubSeq(data, split + 1, Len(data)) # keyed_hash(salt, body)
      THEN Err("HeaderIntegrity")
      ELSE IF SubSeq(body, 1, 4) # HEADER_MAGIC \/ body[5] # HEADER_VERSION
      THEN Err("Serialization")
      ELSE IF Len(body) < 6 THEN Panic
      ELSE Ok(body)

slot_count == bytes[6].val

(* Fault: what is there is taken for the whole. *)
slice_at_Clamped(n) ==
  Ok(SubSeq(bytes, pos + 1, IF pos + n > Len(bytes) THEN Len(bytes) ELSE pos + n))

slice_at(n) ==
  IF pos + n > Len(bytes) THEN Err("Serialization") ELSE Ok(SubSeq(bytes, pos + 1, pos + n))

(* body[pos] *)
byte_at == IF pos >= Len(bytes) THEN Panic ELSE Ok(<<bytes[pos + 1]>>)

(* kdf_id and flags are read by an index, all else by slice_at. *)
Read(f) == IF f \in {2, 8} THEN byte_at ELSE slice_at(FieldLen[f])

(* Fault: pos stays where it is after kdf_id and flags. *)
Step_Forgotten(f) == IF f \in {2, 8} THEN 0 ELSE FieldLen[f]

(* How far pos moves with a field. *)
Step(f) == FieldLen[f]

Returns(res) == result' = res /\ stage' = "done"

Call(data, salt) ==
  /\ stage = "stored"
  /\ given' = [data |-> data, header_salt |-> salt]
  /\ LET body == Body(data, salt)
     IN  IF body.ok
         THEN /\ bytes' = body.val /\ pos' = 6 /\ slots' = <<>> /\ cur' = <<>>
              /\ stage' = "read" /\ UNCHANGED result
         ELSE Returns(body) /\ UNCHANGED <<bytes, pos, slots, cur>>
  /\ UNCHANGED <<table, stored>>

TakeField ==
  /\ stage = "read"
  /\ Len(slots) < slot_count
  /\ LET f    == Len(cur) + 1
         read == Read(f)
     IN  IF read.ok
         THEN pos' = pos + Step(f) /\ Gets(read.val) /\ UNCHANGED <<stage, result>>
         ELSE Returns(read) /\ UNCHANGED <<pos, slots, cur>>
  /\ UNCHANGED <<table, bytes, stored, given>>

(* What follows the verifier is not looked at. *)
TakeVerifier ==
  /\ stage = "read"
  /\ Len(slots) = slot_count
  /\ LET read == slice_at(VERIFIER_LEN)
     IN  Returns(IF read.ok
                 THEN Ok([header_salt |-> given.header_salt, slots |-> slots,
                          verifier |-> read.val])
                 ELSE read)
  /\ UNCHANGED <<table, bytes, pos, slots, cur, stored, given>>

-----------------------------------------------------------------------------
NotYet == Err("not yet")

Init ==
  /\ table \in {t \in Table : Buildable(t)}
  /\ stage = "write"
  /\ bytes = Header(table) /\ pos = 6
  /\ slots = <<>> /\ cur = <<>>
  /\ stored = <<>> /\ given = NotYet /\ result = NotYet

Next ==
  \/ PushField \/ Finish
  \/ \E salt \in Salt : \E data \in Given(salt) : Call(data, salt)
  \/ TakeField \/ TakeVerifier

Spec == Init /\ [][Next]_vars

-----------------------------------------------------------------------------
(* Safety                                                                  *)

(* The errors of error.rs that from_bytes can report.  A panic is none. *)
AegisError == {"Serialization", "HeaderIntegrity"}

Answers == [ok : {TRUE}, val : SlotTable] \cup [ok : {FALSE}, err : AegisError]

(* Fields have the bytes of their type: from_bytes ends with a table, with an error
   of error.rs, or in a panic (slots.rs:276-335).  That it may panic, and on what,
   PanicsAtUncheckedBytes says. *)
TypeOK ==
  /\ stage \in {"write", "stored", "read", "done"}
  /\ table \in SlotTable /\ Buildable(table)
  /\ bytes \in Seq(Byte) /\ pos \in 6 .. Len(bytes)
  /\ slots \in Seq(Slot)
  /\ cur \in Seq(Seq(Byte)) /\ Len(cur) \in 0 .. 8
  /\ \A f \in 1 .. Len(cur) : Len(cur[f]) = FieldLen[f]
  /\ stage = "done" => result \in Answers \cup {Panic}

(* What to_bytes wrote comes back as the same table, field by field, and under
   another salt not at all: the layout of the writer is the parser's, and no
   table that add_slot builds has more slots than the count can tell
   (slots.rs:204-207, 251-335). *)
RoundTrip ==
  stage = "done" /\ given.data = stored =>
    result = IF given.header_salt = table.header_salt THEN Ok(table) ELSE Err("HeaderIntegrity")

(* A table that breaks off, as when its writer dies or a copy is cut short, is
   refused wherever it ends, and the refusal is an error and not a panic:
   the MAC is looked at before any field is (slots.rs:277-290). *)
CutsRefused ==
  stage = "done" /\ (\E k \in 0 .. Len(stored) - 1 : given.data = SubSeq(stored, 1, k)) =>
    ~result.ok /\ result.err \in {"Serialization", "HeaderIntegrity"}

(* Where field f of a slot starts (slots.rs:17-30). *)
FieldStart == <<0, 16, 17, 21, 25, 41, 53, 101, 102>>

SLOT_LEN == 110

(* Where field f of slot i starts in a body. *)
Start(i, f) == 6 + SLOT_LEN * (i - 1) + FieldStart[f]

(* The value is in body, from start on. *)
IsAt(value, body, start) == \A k \in 1 .. Len(value) : value[k] = body[start + k]

(* The fields of the slots in ss are where the layout has them. *)
LaidOut(ss, body) ==
  \A i \in 1 .. Len(ss), f \in Field : IsAt(ss[i][f], body, Start(i, f))

(* A table is accepted only from bytes that are its own: all that the count
   announces is there, each field is taken from its own place, and the whole
   is covered by the MAC under the caller's salt, whoever wrote it
   (slots.rs:276-335). *)
AcceptedAsLaidOut ==
  stage = "done" /\ result.ok =>
    LET t    == result.val
        body == SubSeq(given.data, 1, Len(given.data) - OUT_LEN)
        end  == Start(Len(t.slots) + 1, 1)
    IN  /\ given.data = Signed(body, given.header_salt)
        /\ Len(body) >= end + VERIFIER_LEN
        /\ IsAt(HEADER_MAGIC \o <<HEADER_VERSION, [val |-> Len(t.slots)]>>, body, 0)
        /\ LaidOut(t.slots, body)
        /\ IsAt(t.verifier, body, end)

(* from_bytes panics only at its three unchecked indices, the count, kdf_id and
   flags: on a body with the MAC of the caller's salt that breaks off exactly
   where one of them is due, within the slots it announces
   (slots.rs:276-328).  Nothing that to_bytes wrote or that was cut from it is
   such a body. *)
PanicsAtUncheckedBytes ==
  stage = "done" /\ result = Panic =>
    LET body == SubSeq(given.data, 1, Len(given.data) - OUT_LEN)
    IN  /\ given.data = Signed(body, given.header_salt)
        /\ given.data \notin {SubSeq(stored, 1, k) : k \in 0 .. Len(stored)}
        /\ \/ Len(body) = 5
           \/ \E i \in 1 .. body[6].val, f \in {2, 8} : Len(body) = Start(i, f)

-----------------------------------------------------------------------------
(* What the documentation says and the code does not do                    *)

(* "Bounded slice helper for `from_bytes`" (slots.rs:126), "(De)serialization
   of a slot table failed" (error.rs:58): from_bytes answers with a Result. *)
ParserAnswers == stage = "done" => result # Panic
=============================================================================
