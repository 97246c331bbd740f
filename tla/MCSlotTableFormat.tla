------------------------- MODULE MCSlotTableFormat --------------------------
(* The instances of SlotTableFormat that TLC checks. *)
EXTENDS SlotTableFormat, SequencesExt

B(n) == [val |-> n]

(* n bytes, all different from each other and from those of other tags. *)
Fill(tag, n) == [k \in 1 .. n |-> B(tag + k)]

(* Slot i, with bytes that tell its fields and the slot apart. *)
SlotNo(i) == [f \in Field |-> Fill(70 * i - 70 + 6 * f, FieldLen[f])]

TableOf(n) ==
  [header_salt |-> "s1", slots |-> [i \in 1 .. n |-> SlotNo(i)], verifier |-> Fill(200, 32)]

Tables == {TableOf(n) : n \in 1 .. 3}

Salts == {"s1", "s2"}

(* A body with count for its count and the slots in ss, written down at once. *)
BodyOf(version, count, ss) ==
  <<B(83), B(79), B(84), B(75), version, B(count)>>
    \o FlattenSeq([i \in 1 .. Len(ss) |-> FlattenSeq(ss[i])]) \o Fill(200, 32)

Two == BodyOf(B(1), 2, TableOf(2).slots)

(* Bodies that end too early or too late, that announce fewer or more slots
   than follow, that have another version. *)
OtherBodies ==
  {SubSeq(Two, 1, k) : k \in 0 .. Len(Two)}
  \cup {Append(Two, B(0)), BodyOf(B(2), 2, TableOf(2).slots)}
  \cup {BodyOf(B(1), count, TableOf(2).slots) : count \in {0, 1, 3}}
=============================================================================
