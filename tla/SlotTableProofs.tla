-------------------------- MODULE SlotTableProofs ---------------------------
(***************************************************************************)
(* What to_bytes and from_bytes do to every table and every file: theorems *)
(* of SlotTableFormat for any tables, salts and bodies of other programs.  *)
(***************************************************************************)
EXTENDS SlotTableFormat, SequenceTheorems, TLAPS

-----------------------------------------------------------------------------
(* The layout                                                              *)

(* Each field starts where the one before it ends (slots.rs:17-30). *)
LEMMA Fields ==
  /\ FieldStart[1] = 0
  /\ \A f \in Field : FieldLen[f] \in Nat /\ FieldStart[f] \in Nat
  /\ \A f \in Field : f # 9 => FieldStart[f + 1] = FieldStart[f] + FieldLen[f]
  /\ FieldStart[9] + FieldLen[9] = SLOT_LEN
  /\ Len(FieldLen) = 9
BY DEF Field, FieldLen, FieldStart, SLOT_LEN

(* Positions within a slot grow with the field (slots.rs:17-30). *)
LEMMA FieldsInside ==
  /\ \A f \in Field : FieldStart[f] + FieldLen[f] <= SLOT_LEN
  /\ \A f, g \in Field : f < g => FieldStart[f] + FieldLen[f] <= FieldStart[g]
BY DEF Field, FieldLen, FieldStart, SLOT_LEN

(* ... and with the number of the slot (slots.rs:256-266). *)
LEMMA Starts ==
  ASSUME NEW i \in Nat \ {0}
  PROVE  /\ \A f \in Field : Start(i, f) \in Nat /\ Start(i, f) >= 6
         /\ \A f \in Field : f # 9 => Start(i, f + 1) = Start(i, f) + FieldLen[f]
         /\ Start(i + 1, 1) = Start(i, 9) + FieldLen[9]
         /\ Start(i + 1, 1) = 6 + SLOT_LEN * i
         /\ Start(1, 1) = 6
         /\ \A f \in Field, n \in Nat : i <= n => Start(i, f) + FieldLen[f] <= Start(n + 1, 1)
BY Fields, FieldsInside DEF Start, Field, SLOT_LEN

-----------------------------------------------------------------------------
(* Bodies and their MACs                                                   *)

(* The elements of a body and of a MAC. *)
Unit(salt, body) == Byte \cup {keyed_hash(salt, body)[k] : k \in 1 .. OUT_LEN}

(* A MAC follows the body it is over and covers all of it (slots.rs:270-272). *)
LEMMA SignedParts ==
  ASSUME NEW salt, NEW body \in Seq(Byte)
  PROVE  LET data == Signed(body, salt)
         IN  /\ data \in Seq(Unit(salt, body))
             /\ Len(data) = Len(body) + OUT_LEN
             /\ \A k \in 1 .. Len(body) : data[k] = body[k]
             /\ \A k \in 1 .. OUT_LEN :
                  data[Len(body) + k] = [key |-> salt, over |-> body, at |-> k]
             /\ SubSeq(data, 1, Len(data) - OUT_LEN) = body
             /\ SubSeq(data, Len(data) - OUT_LEN + 1, Len(data)) = keyed_hash(salt, body)
<1> DEFINE data == Signed(body, salt)
<1>1. keyed_hash(salt, body) \in Seq(Unit(salt, body)) /\ Len(keyed_hash(salt, body)) = OUT_LEN
  BY DEF keyed_hash, Unit, OUT_LEN
<1>2. body \in Seq(Unit(salt, body))
  BY SeqMonotonic DEF Unit
<1>3. /\ data \in Seq(Unit(salt, body))
      /\ Len(data) = Len(body) + OUT_LEN
      /\ \A k \in 1 .. Len(data) :
           data[k] = IF k <= Len(body) THEN body[k] ELSE keyed_hash(salt, body)[k - Len(body)]
  BY <1>1, <1>2, ConcatProperties, Zenon DEF Signed
<1> HIDE DEF data
<1>4. Len(body) \in Nat
  OBVIOUS
<1>5. \A k \in 1 .. OUT_LEN : data[Len(body) + k] = [key |-> salt, over |-> body, at |-> k]
  <2>1. \A n \in 1 .. Len(data) : n > Len(body) => data[n] = keyed_hash(salt, body)[n - Len(body)]
    BY <1>3, <1>4
  <2> TAKE k \in 1 .. OUT_LEN
  <2>2. Len(body) + k \in 1 .. Len(data) /\ Len(body) + k > Len(body) /\ Len(body) + k - Len(body) = k
    BY <1>3, <1>4 DEF OUT_LEN
  <2> DEFINE n == Len(body) + k
  <2> HIDE DEF n
  <2>3. data[n] = keyed_hash(salt, body)[k]
    BY <2>1, <2>2 DEF n
  <2>4. keyed_hash(salt, body)[k] = [key |-> salt, over |-> body, at |-> k]
    BY DEF keyed_hash
  <2> QED
    BY <2>3, <2>4 DEF n
<1>6. \A k \in 1 .. Len(body) : data[k] = body[k]
  BY <1>3, <1>4 DEF OUT_LEN
<1>7. SubSeq(data, 1, Len(data) - OUT_LEN) = body
  BY <1>3, <1>4, <1>6 DEF OUT_LEN
<1>8. SubSeq(data, Len(data) - OUT_LEN + 1, Len(data)) = keyed_hash(salt, body)
  <2> DEFINE mac == SubSeq(data, Len(data) - OUT_LEN + 1, Len(data))
  <2>1. mac \in Seq(Unit(salt, body)) /\ Len(mac) = OUT_LEN
    BY <1>3, <1>4 DEF OUT_LEN
  <2>2. \A k \in 1 .. OUT_LEN : mac[k] = data[Len(body) + k]
    BY <1>3, <1>4 DEF OUT_LEN
  <2>3. \A k \in 1 .. OUT_LEN : keyed_hash(salt, body)[k] = [key |-> salt, over |-> body, at |-> k]
    BY DEF keyed_hash
  <2> HIDE DEF mac
  <2>4. \A k \in 1 .. Len(mac) : mac[k] = keyed_hash(salt, body)[k]
    BY <1>5, <2>1, <2>2, <2>3, Zenon
  <2>5. mac = keyed_hash(salt, body)
    BY <1>1, <2>1, <2>4, SeqEqual, Zenon
  <2> QED
    BY <2>5 DEF mac
<1> QED
  BY <1>3, <1>5, <1>6, <1>7, <1>8 DEF data

(* Two MACs are equal only for equal salts and bodies (slots.rs:284-290). *)
LEMMA HashInjective ==
  ASSUME NEW s, NEW b, NEW t, NEW c, keyed_hash(s, b) = keyed_hash(t, c)
  PROVE  s = t /\ b = c
<1>1. keyed_hash(s, b)[1] = [key |-> s, over |-> b, at |-> 1]
  BY DEF keyed_hash, OUT_LEN
<1>2. keyed_hash(t, c)[1] = [key |-> t, over |-> c, at |-> 1]
  BY DEF keyed_hash, OUT_LEN
<1> QED
  BY <1>1, <1>2

(* What breaks off is not followed by its MAC (slots.rs:284-290). *)
LEMMA CutIsUnsigned ==
  ASSUME NEW salt, NEW full \in Seq(Byte), NEW whole, whole = Signed(full, salt),
         NEW k \in 0 .. Len(whole) - 1, NEW s, NEW body \in Seq(Byte)
  PROVE  SubSeq(whole, 1, k) # Signed(body, s)
<1> DEFINE cut == SubSeq(whole, 1, k)
<1> SUFFICES ASSUME cut = Signed(body, s)  PROVE FALSE
  OBVIOUS
<1>1. /\ whole \in Seq(Unit(salt, full))
      /\ Len(whole) = Len(full) + OUT_LEN
      /\ \A j \in 1 .. Len(full) : whole[j] = full[j]
      /\ \A j \in 1 .. OUT_LEN : whole[Len(full) + j] = [key |-> salt, over |-> full, at |-> j]
  BY SignedParts
<1>2. Len(cut) = k /\ \A j \in 1 .. k : cut[j] = whole[j]
  BY <1>1
<1> HIDE DEF cut
<1>3. /\ Len(cut) = Len(body) + OUT_LEN
      /\ \A j \in 1 .. OUT_LEN : cut[Len(body) + j] = [key |-> s, over |-> body, at |-> j]
  BY SignedParts
<1>4. Len(body) \in Nat /\ Len(full) \in Nat /\ k = Len(body) + OUT_LEN
  BY <1>2, <1>3
<1>5. whole[k] = [key |-> s, over |-> body, at |-> OUT_LEN]
  <2>1. OUT_LEN \in 1 .. OUT_LEN /\ Len(body) + OUT_LEN \in 1 .. k
    BY <1>4 DEF OUT_LEN
  <2>2. cut[Len(body) + OUT_LEN] = [key |-> s, over |-> body, at |-> OUT_LEN]
    BY <1>3, <2>1, Zenon
  <2>3. cut[Len(body) + OUT_LEN] = whole[Len(body) + OUT_LEN]
    BY <1>2, <2>1, Zenon
  <2> QED
    BY <1>4, <2>2, <2>3, Zenon
<1>6. CASE k <= Len(full)
  <2>1. k \in 1 .. Len(full)
    BY <1>4, <1>6 DEF OUT_LEN
  <2>2. whole[k] \in Byte
    BY <1>1, <2>1, ElementOfSeq, Zenon
  <2> QED
    BY <1>5, <2>2 DEF Byte
<1>7. CASE k > Len(full)
  <2> DEFINE j == k - Len(full)
  <2>1. \A a \in Nat : \A b \in 0 .. (a + OUT_LEN) - 1 :
          b > a => b - a \in 1 .. OUT_LEN /\ b - a # OUT_LEN /\ a + (b - a) = b
    BY DEF OUT_LEN
  <2>2. j \in 1 .. OUT_LEN /\ j # OUT_LEN /\ Len(full) + j = k
    <3>1. k \in 0 .. (Len(full) + OUT_LEN) - 1
      BY <1>1, Zenon
    <3>2. k > Len(full)
      BY <1>7
    <3> QED
      BY <3>1, <3>2, <1>4, <2>1, Zenon
  <2> HIDE DEF j
  <2>3. whole[k] = [key |-> salt, over |-> full, at |-> j]
    BY <1>1, <2>2, Zenon
  <2> QED
    BY <1>5, <2>2, <2>3
<1> QED
  BY <1>4, <1>6, <1>7

-----------------------------------------------------------------------------
(* The tests before the fields                                             *)

HasHeader(body) == SubSeq(body, 1, 4) = HEADER_MAGIC /\ body[5] = HEADER_VERSION

(* What from_bytes makes of a body with its MAC (slots.rs:277-294). *)
LEMMA BodyOfSigned ==
  ASSUME NEW body \in Seq(Byte), NEW t, NEW salt
  PROVE  Body(Signed(body, t), salt) =
           IF Len(body) < 5 THEN Err("Serialization")
           ELSE IF salt # t THEN Err("HeaderIntegrity")
           ELSE IF ~HasHeader(body) THEN Err("Serialization")
           ELSE IF Len(body) < 6 THEN Panic
           ELSE Ok(body)
<1> DEFINE data == Signed(body, t)
<1>1. /\ Len(data) = Len(body) + OUT_LEN
      /\ SubSeq(data, 1, Len(data) - OUT_LEN) = body
      /\ SubSeq(data, Len(data) - OUT_LEN + 1, Len(data)) = keyed_hash(t, body)
  BY SignedParts
<1> HIDE DEF data
<1>2. Len(data) < 5 + OUT_LEN <=> Len(body) < 5
  BY <1>1 DEF OUT_LEN
<1>3. keyed_hash(t, body) # keyed_hash(salt, body) <=> salt # t
  BY HashInjective
<1>4. Body(data, salt) =
        IF Len(data) < 5 + OUT_LEN THEN Err("Serialization")
        ELSE IF keyed_hash(t, body) # keyed_hash(salt, body) THEN Err("HeaderIntegrity")
        ELSE IF ~HasHeader(body) THEN Err("Serialization")
        ELSE IF Len(body) < 6 THEN Panic
        ELSE Ok(body)
  BY <1>1, Zenon DEF Body, HasHeader
<1> QED
  BY <1>2, <1>3, <1>4, Zenon DEF data

(* What breaks off is refused with an error before any field is looked at
   (slots.rs:277-290). *)
LEMMA BodyOfCut ==
  ASSUME NEW full \in Seq(Byte), NEW t, NEW salt,
         NEW k \in 0 .. Len(Signed(full, t)) - 1
  PROVE  Body(SubSeq(Signed(full, t), 1, k), salt)
           \in {Err("Serialization"), Err("HeaderIntegrity")}
<1> DEFINE whole == Signed(full, t)
           data  == SubSeq(whole, 1, k)
           split == Len(data) - OUT_LEN
           body  == SubSeq(data, 1, split)
           mac   == SubSeq(data, split + 1, Len(data))
<1>1. /\ whole \in Seq(Unit(t, full))
      /\ Len(whole) = Len(full) + OUT_LEN
      /\ \A j \in 1 .. Len(full) : whole[j] = full[j]
  BY SignedParts
<1> HIDE DEF whole
<1>2. k \in 0 .. Len(whole) - 1
  BY DEF whole
<1>3. data \in Seq(Unit(t, full)) /\ Len(data) = k /\ \A j \in 1 .. k : data[j] = whole[j]
  BY <1>1, <1>2
<1> HIDE DEF data
<1>4. CASE Len(data) < 5 + OUT_LEN
  BY <1>4 DEF Body, data, whole
<1>5. CASE ~(Len(data) < 5 + OUT_LEN)
  <2>1. split \in 1 .. Len(data) /\ split + 1 \in 1 .. Len(data) /\ split <= Len(full)
    BY <1>1, <1>2, <1>3, <1>5 DEF OUT_LEN
  <2>2. data = body \o mac
    <3>1. SubSeq(data, 1, split) \o SubSeq(data, split + 1, Len(data)) = SubSeq(data, 1, Len(data))
      <4>1. 1 \in 1 .. Len(data) + 1 /\ split \in 1 - 1 .. Len(data) /\ Len(data) \in split .. Len(data)
        BY <1>3, <2>1
      <4> HIDE DEF split
      <4> QED
        BY <1>3, <4>1, ConcatAdjacentSubSeq
    <3>2. SubSeq(data, 1, Len(data)) = data
      BY <1>3, SubSeqFull
    <3> QED
      BY <3>1, <3>2
  <2>3. body \in Seq(Byte)
    <3>1. \A j \in 1 .. split : data[j] \in Byte
      BY <1>1, <1>3, <2>1
    <3> QED
      BY <2>1, <3>1, SubSeqProperties
  <2>4. mac # keyed_hash(salt, body)
    <3>1. data # Signed(body, salt)
      BY <1>2, <2>3, CutIsUnsigned, Zenon DEF data, whole
    <3> QED
      BY <2>2, <3>1, Zenon DEF Signed
  <2>5. Body(data, salt) = Err("HeaderIntegrity")
    BY <1>5, <2>4, Zenon DEF Body
  <2> QED
    BY <2>5, Zenon DEF data, whole
<1> QED
  BY <1>4, <1>5

-----------------------------------------------------------------------------
(* Fields in their places                                                  *)

CurOK(c) ==
  /\ c \in Seq(Seq(Byte)) /\ Len(c) \in 0 .. 8
  /\ \A f \in 1 .. Len(c) : Len(c[f]) = FieldLen[f]

(* Position p of body b is where the slots ss and the fields c of the next one
   end, and they are where the layout has them. *)
Placed(ss, c, p, b) ==
  /\ p = Start(Len(ss) + 1, Len(c) + 1)
  /\ LaidOut(ss, b)
  /\ \A f \in 1 .. Len(c) : IsAt(c[f], b, Start(Len(ss) + 1, f))

(* The fields of a slot have the length of their type (slots.rs:61-71). *)
LEMMA SlotFields ==
  ASSUME NEW ss \in Seq(Slot), NEW i \in 1 .. Len(ss), NEW f \in Field
  PROVE  ss[i] \in Slot /\ ss[i][f] \in Seq(Byte) /\ Len(ss[i][f]) = FieldLen[f]
<1>1. ss[i] \in Slot
  BY ElementOfSeq
<1> QED
  BY <1>1 DEF Slot

(* What is placed ends before the position (slots.rs:255-266, 296-329). *)
LEMMA PlacedBefore ==
  ASSUME NEW n \in Nat, NEW m \in 0 .. 8, NEW p, p = Start(n + 1, m + 1)
  PROVE  /\ p \in Nat /\ p >= 6
         /\ Start(n + 1, 1) <= p
         /\ \A i \in 1 .. n, f \in Field : Start(i, f) \in Nat /\ Start(i, f) + FieldLen[f] <= p
         /\ \A f \in 1 .. m : Start(n + 1, f) \in Nat /\ Start(n + 1, f) + FieldLen[f] <= p
<1>1. m + 1 \in Field /\ \A f \in 1 .. m : f \in Field /\ f < m + 1
  BY DEF Field
<1>2. p = 6 + SLOT_LEN * n + FieldStart[m + 1]
  BY DEF Start
<1>3. FieldStart[m + 1] \in Nat
  BY <1>1, Fields
<1>4. Start(n + 1, 1) = 6 + SLOT_LEN * n
  BY Fields DEF Start, SLOT_LEN
<1>5. \A i \in 1 .. n, f \in Field : Start(i, f) \in Nat /\ Start(i, f) + FieldLen[f] <= p
  <2> TAKE i \in 1 .. n, f \in Field
  <2>1. FieldStart[f] \in Nat /\ FieldLen[f] \in Nat /\ FieldStart[f] + FieldLen[f] <= SLOT_LEN
    BY Fields, FieldsInside
  <2>2. Start(i, f) = 6 + SLOT_LEN * (i - 1) + FieldStart[f]
    BY DEF Start
  <2> QED
    BY <1>2, <1>3, <2>1, <2>2 DEF SLOT_LEN
<1>6. \A f \in 1 .. m : Start(n + 1, f) \in Nat /\ Start(n + 1, f) + FieldLen[f] <= p
  <2> TAKE f \in 1 .. m
  <2>1. /\ FieldStart[f] \in Nat /\ FieldLen[f] \in Nat
        /\ FieldStart[f] + FieldLen[f] <= FieldStart[m + 1]
    BY <1>1, Fields, FieldsInside
  <2>2. Start(n + 1, f) = 6 + SLOT_LEN * n + FieldStart[f]
    BY DEF Start
  <2> QED
    BY <1>2, <1>3, <2>1, <2>2 DEF SLOT_LEN
<1> QED
  BY <1>2, <1>3, <1>4, <1>5, <1>6 DEF SLOT_LEN

(* What precedes a position stays in place when the body grows (slots.rs:251-266). *)
LEMMA PlacedGrows ==
  ASSUME NEW ss \in Seq(Slot), NEW c, CurOK(c), NEW p,
         NEW b \in Seq(Byte), NEW d, Placed(ss, c, p, b), p <= Len(b),
         \A k \in 1 .. Len(b) : d[k] = b[k]
  PROVE  Placed(ss, c, p, d)
<1>1. \A value \in Seq(Byte), start \in Nat :
        IsAt(value, b, start) /\ start + Len(value) <= Len(b) => IsAt(value, d, start)
  BY DEF IsAt
<1>2. /\ \A i \in 1 .. Len(ss), f \in Field : Start(i, f) \in Nat /\ Start(i, f) + FieldLen[f] <= p
      /\ \A f \in 1 .. Len(c) :
           Start(Len(ss) + 1, f) \in Nat /\ Start(Len(ss) + 1, f) + FieldLen[f] <= p
      /\ p \in Nat
  <2>1. Len(ss) \in Nat /\ Len(c) \in 0 .. 8 /\ p = Start(Len(ss) + 1, Len(c) + 1)
    BY DEF Placed, CurOK
  <2> QED
    BY <2>1, PlacedBefore, Zenon
<1>3. ASSUME NEW i \in 1 .. Len(ss), NEW f \in Field
      PROVE  IsAt(ss[i][f], d, Start(i, f))
  <2>1. ss[i][f] \in Seq(Byte) /\ Len(ss[i][f]) = FieldLen[f] /\ Len(ss[i][f]) \in Nat
    BY SlotFields
  <2>2. Start(i, f) + Len(ss[i][f]) <= Len(b)
    BY <1>2, <2>1
  <2> QED
    BY <1>1, <1>2, <2>1, <2>2, Zenon DEF Placed, LaidOut
<1>4. ASSUME NEW f \in 1 .. Len(c)
      PROVE  IsAt(c[f], d, Start(Len(ss) + 1, f))
  <2>1. c[f] \in Seq(Byte) /\ Len(c[f]) = FieldLen[f] /\ Len(c[f]) \in Nat
    BY DEF CurOK
  <2>2. Start(Len(ss) + 1, f) + Len(c[f]) <= Len(b)
    BY <1>2, <2>1
  <2> QED
    BY <1>1, <1>2, <2>1, <2>2, Zenon DEF Placed
<1> QED
  BY <1>3, <1>4 DEF Placed, LaidOut

(* The next field starts where this one ends (slots.rs:256-266). *)
LEMMA NextStart ==
  ASSUME NEW n \in Nat, NEW m \in 0 .. 8
  PROVE  /\ m + 1 \in Field
         /\ m + 1 # 9 => m + 1 \in 0 .. 8 /\ Start(n + 1, m + 1 + 1) = Start(n + 1, m + 1) + FieldLen[m + 1]
         /\ m + 1 = 9 => Start(n + 1 + 1, 1) = Start(n + 1, m + 1) + FieldLen[m + 1]
<1>1. m + 1 \in Field /\ (m + 1 # 9 => m + 1 \in 0 .. 8)
  BY DEF Field
<1>2. FieldLen[m + 1] \in Nat /\ FieldStart[m + 1] \in Nat /\ FieldStart[1] = 0
  BY <1>1, Fields
<1>3. ASSUME m + 1 # 9  PROVE Start(n + 1, m + 1 + 1) = Start(n + 1, m + 1) + FieldLen[m + 1]
  <2>1. FieldStart[m + 1 + 1] = FieldStart[m + 1] + FieldLen[m + 1]
    BY <1>1, <1>3, Fields
  <2> QED
    BY <1>2, <2>1 DEF Start, SLOT_LEN
<1>4. ASSUME m + 1 = 9  PROVE Start(n + 1 + 1, 1) = Start(n + 1, m + 1) + FieldLen[m + 1]
  <2>1. FieldStart[m + 1] + FieldLen[m + 1] = SLOT_LEN
    BY <1>4, Fields
  <2>2. Start(n + 1 + 1, 1) = 6 + SLOT_LEN * (n + 1)
    BY <1>2 DEF Start, SLOT_LEN
  <2> QED
    BY <1>2, <2>1, <2>2 DEF Start, SLOT_LEN
<1> QED
  BY <1>1, <1>3, <1>4

Matches(ss, c, t) ==
  /\ \A i \in 1 .. Len(ss) : ss[i] = t.slots[i]
  /\ \A f \in 1 .. Len(c) : c[f] = t.slots[Len(ss) + 1][f]

(* A field that is in its place is taken among those that are, whether it is
   written or parsed (slots.rs:256-266, 297-328). *)
LEMMA GetsPlaced ==
  ASSUME slots \in Seq(Slot), CurOK(cur), NEW b, NEW p, Placed(slots, cur, p, b),
         NEW value \in Seq(Byte), Len(value) = FieldLen[Len(cur) + 1], IsAt(value, b, p),
         Gets(value)
  PROVE  /\ slots' \in Seq(Slot) /\ CurOK(cur')
         /\ Placed(slots', cur', p + FieldLen[Len(cur) + 1], b)
         /\ \/ Len(slots') = Len(slots) /\ cur' = Append(cur, value)
            \/ Len(slots') = Len(slots) + 1 /\ cur' = <<>>
         /\ \A t \in SlotTable :
              /\ Matches(slots, cur, t)
              /\ Len(slots) < Len(t.slots)
              /\ value = t.slots[Len(slots) + 1][Len(cur) + 1]
              => Matches(slots', cur', t)
<1> DEFINE n == Len(slots)
           m == Len(cur)
<1>1. n \in Nat /\ m \in 0 .. 8 /\ m + 1 \in Field
  <2>1. n \in Nat
    OBVIOUS
  <2>2. m \in 0 .. 8
    BY DEF CurOK
  <2> QED
    BY <2>1, <2>2, NextStart
<1>2. p = Start(n + 1, m + 1) /\ LaidOut(slots, b)
  BY DEF Placed
<1>3. \A f \in 1 .. m : IsAt(cur[f], b, Start(n + 1, f))
  BY DEF Placed
<1> DEFINE c == Append(cur, value)
<1>4. /\ c \in Seq(Seq(Byte)) /\ Len(c) = m + 1 /\ c[m + 1] = value
      /\ \A f \in 1 .. m : c[f] = cur[f]
  BY DEF CurOK
<1> HIDE DEF c
<1>5. \A f \in 1 .. m + 1 : Len(c[f]) = FieldLen[f] /\ IsAt(c[f], b, Start(n + 1, f))
  <2> TAKE f \in 1 .. m + 1
  <2>1. CASE f = m + 1
    BY <1>2, <1>4, <2>1
  <2>2. CASE f # m + 1
    <3>1. f \in 1 .. m
      BY <1>1, <2>2
    <3> QED
      BY <1>3, <1>4, <3>1 DEF CurOK
  <2> QED
    BY <2>1, <2>2
<1>8. ASSUME NEW t \in SlotTable, Matches(slots, cur, t), value = t.slots[n + 1][m + 1]
      PROVE  \A f \in 1 .. m + 1 : c[f] = t.slots[n + 1][f]
  <2> TAKE f \in 1 .. m + 1
  <2>1. CASE f = m + 1
    BY <1>4, <1>8, <2>1, Zenon
  <2>2. CASE f # m + 1
    <3>1. f \in 1 .. m
      BY <1>1, <2>2
    <3> QED
      BY <1>4, <1>8, <3>1, Zenon DEF Matches
  <2> QED
    BY <2>1, <2>2
<1>6. CASE m + 1 # 9
  <2>1. slots' = slots /\ cur' = c
    BY <1>6, Fields DEF Gets, c
  <2>3. m + 1 \in 0 .. 8 /\ Start(n + 1, m + 1 + 1) = p + FieldLen[m + 1]
    BY <1>1, <1>2, <1>6, NextStart, Zenon
  <2>2. CurOK(c)
    BY <1>4, <1>5, <2>3, Zenon DEF CurOK
  <2>4. Placed(slots, c, p + FieldLen[m + 1], b)
    BY <1>1, <1>2, <1>4, <1>5, <2>3 DEF Placed
  <2>5. ASSUME NEW t \in SlotTable, Matches(slots, cur, t), value = t.slots[n + 1][m + 1]
        PROVE  Matches(slots, c, t)
    BY <1>4, <1>8, <2>5, Zenon DEF Matches
  <2> QED
    BY <2>1, <2>2, <2>4, <2>5 DEF c
<1>7. CASE m + 1 = 9
  <2>1. slots' = Append(slots, c) /\ cur' = <<>>
    BY <1>7, Fields DEF Gets, c
  <2>2. c \in Slot
    <3>1. c \in [1 .. 9 -> Seq(Byte)]
      BY <1>4, <1>7, LenProperties
    <3> QED
      BY <1>5, <1>7, <3>1 DEF Slot, Field
  <2>3. /\ slots' \in Seq(Slot) /\ Len(slots') = n + 1 /\ slots'[n + 1] = c
        /\ \A i \in 1 .. n : slots'[i] = slots[i]
    BY <2>1, <2>2
  <2>4. CurOK(<<>>)
    BY DEF CurOK
  <2>5. Start(n + 1 + 1, 1) = p + FieldLen[m + 1]
    BY <1>1, <1>2, <1>7, NextStart, Zenon
  <2>6. LaidOut(slots', b)
    <3> SUFFICES ASSUME NEW i \in 1 .. n + 1, NEW f \in Field
                 PROVE  IsAt(slots'[i][f], b, Start(i, f))
      BY <2>3 DEF LaidOut
    <3>1. CASE i = n + 1
      BY <1>5, <1>7, <2>3, <3>1 DEF Field
    <3>2. CASE i # n + 1
      <4>1. i \in 1 .. n
        BY <1>1, <3>2
      <4> QED
        BY <1>2, <2>3, <4>1, Zenon DEF LaidOut
    <3> QED
      BY <3>1, <3>2
  <2>7. Placed(slots', cur', p + FieldLen[m + 1], b)
    BY <1>1, <2>1, <2>3, <2>5, <2>6 DEF Placed
  <2>8. ASSUME NEW t \in SlotTable, Matches(slots, cur, t), n < Len(t.slots),
               value = t.slots[n + 1][m + 1]
        PROVE  Matches(slots', cur', t)
    <3>1. t.slots \in Seq(Slot) /\ n + 1 \in 1 .. Len(t.slots)
      BY <1>1, <2>8 DEF SlotTable
    <3>2. t.slots[n + 1] \in [Field -> Seq(Byte)]
      BY <3>1, ElementOfSeq DEF Slot
    <3>3. c \in [Field -> Seq(Byte)]
      BY <2>2 DEF Slot
    <3>4. \A f \in Field : c[f] = t.slots[n + 1][f]
      BY <1>7, <1>8, <2>8, Zenon DEF Field
    <3>5. c = t.slots[n + 1]
      BY <3>2, <3>3, <3>4
    <3> QED
      BY <1>1, <2>1, <2>3, <2>8, <3>5 DEF Matches
  <2> QED
    BY <2>1, <2>3, <2>4, <2>7, <2>8
<1> QED
  BY <1>6, <1>7

-----------------------------------------------------------------------------
(* The header                                                              *)

HeaderFor(n) == HEADER_MAGIC \o <<HEADER_VERSION, [val |-> n]>>

(* A header is six bytes, the last of which is the count (slots.rs:253-255). *)
LEMMA HeaderBytes ==
  ASSUME NEW n \in 0 .. 255
  PROVE  /\ HeaderFor(n) \in Seq(Byte) /\ Len(HeaderFor(n)) = 6
         /\ \A k \in 1 .. 4 : HeaderFor(n)[k] = HEADER_MAGIC[k]
         /\ HeaderFor(n)[5] = HEADER_VERSION /\ HeaderFor(n)[6] = [val |-> n]
         /\ HEADER_MAGIC \in Seq(Byte) /\ Len(HEADER_MAGIC) = 4
<1> DEFINE last == <<HEADER_VERSION, [val |-> n]>>
<1>1. HEADER_MAGIC \in Seq(Byte) /\ Len(HEADER_MAGIC) = 4
  BY DEF HEADER_MAGIC, Byte
<1>2. /\ last \in Seq(Byte) /\ Len(last) = 2
      /\ last[1] = HEADER_VERSION /\ last[2] = [val |-> n]
  BY DEF HEADER_VERSION, Byte
<1> HIDE DEF last
<1>3. /\ HEADER_MAGIC \o last \in Seq(Byte) /\ Len(HEADER_MAGIC \o last) = 6
      /\ \A i \in 1 .. 6 :
           (HEADER_MAGIC \o last)[i] = IF i <= 4 THEN HEADER_MAGIC[i] ELSE last[i - 4]
  <2>1. /\ HEADER_MAGIC \o last \in Seq(Byte)
        /\ Len(HEADER_MAGIC \o last) = Len(HEADER_MAGIC) + Len(last)
        /\ \A i \in 1 .. Len(HEADER_MAGIC) + Len(last) :
             (HEADER_MAGIC \o last)[i] =
               IF i <= Len(HEADER_MAGIC) THEN HEADER_MAGIC[i] ELSE last[i - Len(HEADER_MAGIC)]
    BY <1>1, <1>2, ConcatProperties, Zenon
  <2> QED
    BY <1>1, <1>2, <2>1
<1> QED
  BY <1>1, <1>2, <1>3 DEF HeaderFor, last

(* The count of a table that can be built is the number of its slots
   (slots.rs:204-207, 255). *)
LEMMA CountExact ==
  ASSUME NEW t \in SlotTable, Buildable(t)
  PROVE  Header(t) = HeaderFor(Len(t.slots)) /\ Len(t.slots) \in 1 .. 255
<1>1. Len(t.slots) \in 1 .. MAX_SLOTS
  BY DEF Buildable
<1>2. Len(t.slots) % U8 = Len(t.slots) /\ Len(t.slots) \in 1 .. 255
  <2>1. \A m, n \in Nat : m < n => m % n = m
    BY SMT
  <2>2. Len(t.slots) \in Nat /\ U8 \in Nat /\ Len(t.slots) < U8 /\ Len(t.slots) \in 1 .. 255
    <3>1. MAX_SLOTS \in Nat /\ U8 \in Nat /\ MAX_SLOTS < U8 /\ U8 <= 256
      BY FormatAssumption
    <3> DEFINE n == Len(t.slots)
    <3>2. n \in 1 .. MAX_SLOTS
      BY <1>1
    <3> HIDE DEF n
    <3>3. n \in Nat /\ n < U8 /\ n \in 1 .. 255
      BY <3>1, <3>2
    <3> QED
      BY <3>1, <3>3 DEF n
  <2> QED
    BY <2>1, <2>2, Zenon
<1> QED
  BY <1>2, Zenon DEF Header, HeaderFor

(* The header of a table that can be built (slots.rs:253-255). *)
LEMMA HeaderType ==
  ASSUME NEW t \in SlotTable, Buildable(t)
  PROVE  Header(t) \in Seq(Byte) /\ Len(Header(t)) = 6
<1>1. Header(t) = HeaderFor(Len(t.slots)) /\ Len(t.slots) \in 0 .. 255
  BY CountExact
<1> QED
  BY <1>1, HeaderBytes, Zenon

(* What begins with a header passes the tests for it (slots.rs:291-294). *)
LEMMA HeaderRead ==
  ASSUME NEW body \in Seq(Byte), Len(body) >= 6, NEW n \in 0 .. 255
  PROVE  IsAt(HeaderFor(n), body, 0) <=> HasHeader(body) /\ body[6].val = n
<1> DEFINE head == SubSeq(body, 1, 4)
<1>1. head \in Seq(Byte) /\ Len(head) = 4 /\ \A k \in 1 .. 4 : head[k] = body[k]
  OBVIOUS
<1> HIDE DEF head
<1>2. /\ Len(HeaderFor(n)) = 6
      /\ \A k \in 1 .. 4 : HeaderFor(n)[k] = HEADER_MAGIC[k]
      /\ HeaderFor(n)[5] = HEADER_VERSION /\ HeaderFor(n)[6] = [val |-> n]
      /\ HEADER_MAGIC \in Seq(Byte) /\ Len(HEADER_MAGIC) = 4
  BY HeaderBytes, Zenon
<1>3. head = HEADER_MAGIC <=> \A k \in 1 .. 4 : body[k] = HEADER_MAGIC[k]
  <2>1. ASSUME \A k \in 1 .. 4 : body[k] = HEADER_MAGIC[k]  PROVE head = HEADER_MAGIC
    <3>1. Len(head) = Len(HEADER_MAGIC) /\ \A k \in 1 .. Len(head) : head[k] = HEADER_MAGIC[k]
      BY <1>1, <1>2, <2>1
    <3> QED
      BY <1>1, <1>2, <3>1, SeqEqual, Zenon
  <2> QED
    BY <1>1, <2>1
<1>4. body[6] \in Byte /\ (body[6] = [val |-> n] <=> body[6].val = n)
  <2>1. body[6] \in Byte
    BY ElementOfSeq
  <2> QED
    BY <2>1 DEF Byte
<1>5. IsAt(HeaderFor(n), body, 0) <=>
        (\A k \in 1 .. 4 : body[k] = HEADER_MAGIC[k]) /\ body[5] = HEADER_VERSION /\ body[6] = [val |-> n]
  <2>1. IsAt(HeaderFor(n), body, 0) <=> \A k \in 1 .. 6 : HeaderFor(n)[k] = body[k]
    BY <1>2 DEF IsAt
  <2> QED
    BY <1>2, <2>1
<1> QED
  BY <1>3, <1>4, <1>5 DEF HasHeader, head

-----------------------------------------------------------------------------
(* The invariant                                                           *)

WriteInv ==
  stage = "write" =>
    /\ pos = Len(bytes) /\ Placed(slots, cur, pos, bytes)
    /\ IsAt(Header(table), bytes, 0)
    /\ Matches(slots, cur, table)
    /\ Len(slots) <= Len(table.slots)
    /\ Len(slots) = Len(table.slots) => cur = <<>>

(* The body to_bytes makes of t. *)
Encodes(t, body) ==
  LET end == Start(Len(t.slots) + 1, 1)
  IN  /\ body \in Seq(Byte) /\ Len(body) = end + VERIFIER_LEN
      /\ IsAt(Header(t), body, 0)
      /\ LaidOut(t.slots, body)
      /\ IsAt(t.verifier, body, end)

StoreInv ==
  stage # "write" =>
    \E full : Encodes(table, full) /\ stored = Signed(full, table.header_salt)

ReadInv ==
  stage = "read" =>
    /\ given.data = Signed(bytes, given.header_salt)
    /\ given.header_salt \in Salt
    /\ HasHeader(bytes)
    /\ Placed(slots, cur, pos, bytes)
    /\ Len(slots) <= slot_count
    /\ Len(slots) = slot_count => cur = <<>>

Inv ==
  /\ TypeOK /\ WriteInv /\ StoreInv /\ ReadInv
  /\ RoundTrip /\ CutsRefused /\ AcceptedAsLaidOut

(* A header of its own is all that is written at first (slots.rs:253-255). *)
LEMMA InitInv == Init => Inv
<1> SUFFICES ASSUME Init  PROVE Inv
  OBVIOUS
<1>1. table \in SlotTable /\ Buildable(table)
  BY FormatAssumption DEF Init, FormatAssumption
<1>2. Header(table) \in Seq(Byte) /\ Len(Header(table)) = 6
  BY <1>1, HeaderType, Zenon
<1>3. stage = "write" /\ bytes = Header(table) /\ pos = 6 /\ slots = <<>> /\ cur = <<>>
  BY DEF Init
<1>4. TypeOK
  <2>1. bytes \in Seq(Byte) /\ pos \in 6 .. Len(bytes)
    <3>1. bytes \in Seq(Byte) /\ Len(bytes) = 6 /\ pos = 6
      BY <1>2, <1>3, Zenon
    <3> QED
      BY <3>1
  <2>2. slots \in Seq(Slot) /\ cur \in Seq(Seq(Byte)) /\ Len(cur) = 0
    BY <1>3
  <2> QED
    BY <1>1, <1>3, <2>1, <2>2 DEF TypeOK
<1>5. Placed(<<>>, <<>>, 6, bytes)
  BY Fields DEF Placed, LaidOut, Start, SLOT_LEN
<1>6. IsAt(bytes, bytes, 0)
  BY <1>2, <1>3 DEF IsAt
<1>7. Matches(<<>>, <<>>, table)
  BY DEF Matches
<1>8. WriteInv
  BY <1>2, <1>3, <1>5, <1>6, <1>7 DEF WriteInv
<1> QED
  BY <1>3, <1>4, <1>8 DEF Inv, StoreInv, ReadInv, RoundTrip, CutsRefused, AcceptedAsLaidOut

-----------------------------------------------------------------------------
(* The steps                                                               *)

(* The fields of a table (slots.rs:165-171). *)
LEMMA TableParts ==
  ASSUME NEW t \in SlotTable
  PROVE  /\ t.header_salt \in Salt /\ t.slots \in Seq(Slot)
         /\ t.verifier \in Seq(Byte) /\ Len(t.verifier) = VERIFIER_LEN
BY DEF SlotTable

(* Bytes that are pushed leave the earlier ones alone (slots.rs:253-270). *)
LEMMA Appended ==
  ASSUME NEW b \in Seq(Byte), NEW v \in Seq(Byte)
  PROVE  /\ b \o v \in Seq(Byte) /\ Len(b \o v) = Len(b) + Len(v)
         /\ \A k \in 1 .. Len(b) : (b \o v)[k] = b[k]
         /\ IsAt(v, b \o v, Len(b))
<1> DEFINE c == b \o v
<1>1. /\ c \in Seq(Byte) /\ Len(c) = Len(b) + Len(v)
      /\ \A i \in 1 .. Len(b) + Len(v) : c[i] = IF i <= Len(b) THEN b[i] ELSE v[i - Len(b)]
  BY ConcatProperties, Zenon
<1> HIDE DEF c
<1>2. Len(b) \in Nat /\ Len(v) \in Nat
  OBVIOUS
<1>3. \A k \in 1 .. Len(b) : c[k] = b[k]
  BY <1>1, <1>2
<1>4. ASSUME NEW k \in 1 .. Len(v)  PROVE v[k] = c[Len(b) + k]
  <2>1. /\ Len(b) + k \in 1 .. Len(b) + Len(v) /\ ~(Len(b) + k <= Len(b))
        /\ Len(b) + k - Len(b) = k
    BY <1>2
  <2> DEFINE j == Len(b) + k
  <2> HIDE DEF j
  <2>2. c[j] = v[k]
    BY <1>1, <2>1 DEF j
  <2> QED
    BY <2>2 DEF j
<1> QED
  BY <1>1, <1>3, <1>4 DEF IsAt, c

(* Each field that is pushed lands where the layout has it (slots.rs:256-266). *)
LEMMA PushInv == Inv /\ PushField => Inv'
<1> SUFFICES ASSUME Inv, PushField  PROVE Inv'
  OBVIOUS
<1> DEFINE value == table.slots[Len(slots) + 1][Len(cur) + 1]
           len   == FieldLen[Len(cur) + 1]
<1>1. TypeOK /\ stage = "write" /\ Len(slots) < Len(table.slots)
  BY DEF Inv, PushField
<1>2. /\ pos = Len(bytes) /\ Placed(slots, cur, pos, bytes)
      /\ IsAt(Header(table), bytes, 0) /\ Matches(slots, cur, table)
  BY <1>1 DEF Inv, WriteInv
<1>3. /\ bytes' = bytes \o value /\ pos' = pos + Len(value) /\ Gets(value)
      /\ UNCHANGED <<stage, table, stored, given, result>>
  BY DEF PushField
<1>4. /\ table \in SlotTable /\ Buildable(table) /\ slots \in Seq(Slot) /\ CurOK(cur)
      /\ bytes \in Seq(Byte)
  BY <1>1 DEF TypeOK, CurOK
<1>5. Len(slots) \in Nat /\ Len(table.slots) \in Nat /\ Len(cur) + 1 \in Field
  <2>1. Len(cur) \in 0 .. 8
    BY <1>4 DEF CurOK
  <2>2. table.slots \in Seq(Slot)
    BY <1>4, TableParts, Zenon
  <2>3. Len(slots) \in Nat /\ Len(table.slots) \in Nat
    BY <1>4, <2>2
  <2> QED
    BY <2>1, <2>3, NextStart, Zenon
<1>6. value \in Seq(Byte) /\ Len(value) = len /\ len \in Nat
  <2>1. Len(slots) + 1 \in 1 .. Len(table.slots)
    BY <1>1, <1>5
  <2> QED
    BY <1>4, <1>5, <2>1, SlotFields, TableParts, Fields, Zenon
<1> HIDE DEF value, len
<1>7. /\ bytes' \in Seq(Byte) /\ Len(bytes') = Len(bytes) + len
      /\ \A k \in 1 .. Len(bytes) : bytes'[k] = bytes[k]
      /\ IsAt(value, bytes', Len(bytes))
  BY <1>3, <1>4, <1>6, Appended, Zenon
<1>8. Placed(slots, cur, pos, bytes')
  BY <1>2, <1>4, <1>7, PlacedGrows
<1>9. /\ slots' \in Seq(Slot) /\ CurOK(cur') /\ Placed(slots', cur', pos', bytes')
      /\ \/ Len(slots') = Len(slots)
         \/ Len(slots') = Len(slots) + 1 /\ cur' = <<>>
      /\ Matches(slots', cur', table)
  BY <1>1, <1>2, <1>3, <1>4, <1>6, <1>7, <1>8, GetsPlaced, Zenon DEF value, len
<1>10. TypeOK'
  <2>1. pos' \in 6 .. Len(bytes') /\ pos' = Len(bytes')
    BY <1>1, <1>2, <1>3, <1>4, <1>6, <1>7 DEF TypeOK
  <2> QED
    BY <1>1, <1>3, <1>4, <1>7, <1>9, <2>1 DEF TypeOK, CurOK, Buildable
<1>11. WriteInv'
  <2>1. Len(Header(table)) = 6 /\ Len(bytes) >= 6
    <3>1. Len(Header(table)) = 6
      BY <1>4, HeaderType, Zenon
    <3>2. Len(bytes) >= 6
      BY <1>1, <1>2, <1>4 DEF TypeOK
    <3> QED
      BY <3>1, <3>2
  <2>2. IsAt(Header(table), bytes', 0)
    BY <1>2, <1>4, <1>7, <2>1 DEF IsAt
  <2>3. pos' = Len(bytes')
    BY <1>2, <1>3, <1>6, <1>7
  <2>4. Len(slots') <= Len(table.slots) /\ (Len(slots') = Len(table.slots) => cur' = <<>>)
    BY <1>1, <1>5, <1>9
  <2> QED
    BY <1>3, <1>9, <2>2, <2>3, <2>4 DEF WriteInv
<1> QED
  BY <1>1, <1>3, <1>10, <1>11
     DEF Inv, StoreInv, ReadInv, RoundTrip, CutsRefused, AcceptedAsLaidOut

(* The verifier follows the last slot, and the body encodes the table
   (slots.rs:268-272). *)
LEMMA FinishInv == Inv /\ Finish => Inv'
<1> SUFFICES ASSUME Inv, Finish  PROVE Inv'
  OBVIOUS
<1>1. TypeOK /\ stage = "write" /\ Len(slots) = Len(table.slots)
  BY DEF Inv, Finish
<1>2. /\ pos = Len(bytes) /\ Placed(slots, cur, pos, bytes) /\ cur = <<>>
      /\ IsAt(Header(table), bytes, 0) /\ Matches(slots, cur, table)
  BY <1>1 DEF Inv, WriteInv
<1>3. /\ bytes' = bytes \o table.verifier /\ pos' = Len(bytes')
      /\ stored' = Signed(bytes', table.header_salt) /\ stage' = "stored"
      /\ UNCHANGED <<table, slots, cur, given, result>>
  BY DEF Finish
<1>4. /\ table \in SlotTable /\ Buildable(table) /\ slots \in Seq(Slot) /\ CurOK(cur)
      /\ bytes \in Seq(Byte)
  BY <1>1 DEF TypeOK, CurOK
<1>5. /\ table.slots \in Seq(Slot) /\ table.verifier \in Seq(Byte)
      /\ Len(table.verifier) = VERIFIER_LEN
  BY <1>4, TableParts, Zenon
<1>6. /\ bytes' \in Seq(Byte) /\ Len(bytes') = Len(bytes) + VERIFIER_LEN
      /\ \A k \in 1 .. Len(bytes) : bytes'[k] = bytes[k]
      /\ IsAt(table.verifier, bytes', Len(bytes))
  BY <1>3, <1>4, <1>5, Appended, Zenon
<1>7. slots = table.slots
  BY <1>1, <1>2, <1>4, <1>5, SeqEqual DEF Matches
<1>8. Len(bytes) = Start(Len(table.slots) + 1, 1)
  BY <1>2, <1>7 DEF Placed
<1>9. LaidOut(table.slots, bytes')
  <2>1. pos <= Len(bytes)
    BY <1>2, <1>4
  <2>2. Placed(slots, cur, pos, bytes')
    BY <1>2, <1>4, <1>6, <2>1, PlacedGrows, Zenon
  <2> QED
    BY <1>7, <2>2 DEF Placed
<1>10. Len(bytes) >= 6 /\ Len(bytes) \in Nat
  BY <1>1, <1>2, <1>4 DEF TypeOK
<1>11. IsAt(Header(table), bytes', 0)
  <2>1. Len(Header(table)) = 6
    BY <1>4, HeaderType, Zenon
  <2> QED
    BY <1>2, <1>6, <1>10, <2>1 DEF IsAt
<1>12. Encodes(table, bytes')
  BY <1>5, <1>6, <1>8, <1>9, <1>11, Zenon DEF Encodes
<1>13. TypeOK'
  <2>1. pos' \in 6 .. Len(bytes')
    BY <1>3, <1>6, <1>10 DEF VERIFIER_LEN
  <2> QED
    BY <1>1, <1>3, <1>6, <2>1 DEF TypeOK, Buildable
<1> QED
  BY <1>3, <1>12, <1>13
     DEF Inv, WriteInv, StoreInv, ReadInv, RoundTrip, CutsRefused, AcceptedAsLaidOut

(* The header of a body that encodes a table passes the tests for it
   (slots.rs:251-255, 291-294). *)
LEMMA EncodedHeader ==
  ASSUME NEW t \in SlotTable, Buildable(t), NEW full, Encodes(t, full)
  PROVE  full \in Seq(Byte) /\ Len(full) >= 6 /\ HasHeader(full) /\ full[6].val = Len(t.slots)
<1>1. full \in Seq(Byte) /\ Len(full) = Start(Len(t.slots) + 1, 1) + VERIFIER_LEN
  BY Zenon DEF Encodes
<1>2. Len(t.slots) \in 1 .. 255 /\ Len(t.slots) \in 0 .. 255 /\ Header(t) = HeaderFor(Len(t.slots))
  BY CountExact
<1>3. Len(full) >= 6
  <2>1. Start(Len(t.slots) + 1, 1) >= 6 /\ Start(Len(t.slots) + 1, 1) \in Nat
    <3>1. Len(t.slots) + 1 \in Nat \ {0} /\ 1 \in Field
      BY <1>2 DEF Field
    <3> QED
      BY <3>1, Starts
  <2> QED
    BY <1>1, <2>1 DEF VERIFIER_LEN
<1>4. IsAt(HeaderFor(Len(t.slots)), full, 0)
  BY <1>2, Zenon DEF Encodes
<1> QED
  BY <1>1, <1>2, <1>3, <1>4, HeaderRead, Zenon

(* Data with a MAC over its body has one body and one salt (slots.rs:270-290). *)
LEMMA SignedInjective ==
  ASSUME NEW b \in Seq(Byte), NEW s, NEW c \in Seq(Byte), NEW t, Signed(b, s) = Signed(c, t)
  PROVE  b = c /\ s = t
<1> DEFINE data == Signed(b, s)
<1>1. SubSeq(data, Len(data) - OUT_LEN + 1, Len(data)) = keyed_hash(s, b)
  BY SignedParts
<1>2. SubSeq(data, Len(data) - OUT_LEN + 1, Len(data)) = keyed_hash(t, c)
  BY SignedParts
<1>3. keyed_hash(s, b) = keyed_hash(t, c)
  BY <1>1, <1>2, Zenon
<1> QED
  BY <1>3, HashInjective

Refused == {Err("Serialization"), Err("HeaderIntegrity")}

(* What the tests before the fields make of whatever from_bytes may be given
   (slots.rs:276-294). *)
LEMMA CallBody ==
  ASSUME Inv, stage = "stored", NEW salt \in Salt, NEW data \in Given(salt)
  PROVE  /\ Body(data, salt).ok =>
              /\ Body(data, salt).val \in Seq(Byte) /\ Len(Body(data, salt).val) >= 6
              /\ HasHeader(Body(data, salt).val)
              /\ data = Signed(Body(data, salt).val, salt)
         /\ ~Body(data, salt).ok => Body(data, salt) \in Refused \cup {Panic}
         /\ data = stored =>
              IF salt = table.header_salt
              THEN Body(data, salt).ok
              ELSE Body(data, salt) = Err("HeaderIntegrity")
         /\ (\E k \in 0 .. Len(stored) - 1 : data = SubSeq(stored, 1, k)) =>
              ~Body(data, salt).ok /\ Body(data, salt) \in Refused
<1>1. PICK full : Encodes(table, full) /\ stored = Signed(full, table.header_salt)
  BY DEF Inv, StoreInv
<1>2. /\ full \in Seq(Byte) /\ Len(full) >= 6 /\ HasHeader(full)
      /\ ~(Len(full) < 5) /\ ~(Len(full) < 6)
  <2>1. full \in Seq(Byte) /\ Len(full) >= 6 /\ HasHeader(full)
    BY <1>1, EncodedHeader DEF Inv, TypeOK
  <2> QED
    BY <2>1
<1>3. \A v : Ok(v).ok /\ Ok(v).val = v /\ ~Err(v).ok
  BY DEF Ok, Err
<1>4. ASSUME NEW b \in Seq(Byte), data = Signed(b, salt)
      PROVE  /\ Body(data, salt).ok =>
                  /\ Body(data, salt).val = b /\ Len(b) >= 6 /\ HasHeader(b)
             /\ ~Body(data, salt).ok => Body(data, salt) \in Refused \cup {Panic}
  <2>1. Body(data, salt) =
          IF Len(b) < 5 THEN Err("Serialization")
          ELSE IF ~HasHeader(b) THEN Err("Serialization")
          ELSE IF Len(b) < 6 THEN Panic
          ELSE Ok(b)
    BY <1>4, BodyOfSigned, Zenon
  <2>2. Len(b) \in Nat
    OBVIOUS
  <2>3. ~(Len(b) < 6) => Len(b) >= 6
    BY <2>2
  <2> QED
    BY <1>3, <2>1, <2>3, Zenon DEF Refused, Panic
<1>5. ASSUME data = stored
      PROVE  IF salt = table.header_salt
             THEN Body(data, salt) = Ok(full)
             ELSE Body(data, salt) = Err("HeaderIntegrity")
  BY <1>1, <1>2, <1>5, BodyOfSigned, Zenon
<1>6. ASSUME NEW k \in 0 .. Len(stored) - 1, data = SubSeq(stored, 1, k)
      PROVE  ~Body(data, salt).ok /\ Body(data, salt) \in Refused
  <2>1. Body(data, salt) \in Refused
    BY <1>1, <1>2, <1>6, BodyOfCut, Zenon DEF Refused
  <2> QED
    BY <1>3, <2>1, Zenon DEF Refused
<1>7. \/ data = stored
      \/ \E k \in 0 .. Len(stored) - 1 : data = SubSeq(stored, 1, k)
      \/ \E b \in Seq(Byte) : data = Signed(b, salt)
  <2>1. CASE \E b \in Foreign : data = Signed(b, salt)
    BY <2>1, FormatAssumption DEF FormatAssumption
  <2>2. ASSUME NEW k \in 0 .. Len(stored), data = SubSeq(stored, 1, k)
        PROVE  data = stored \/ \E j \in 0 .. Len(stored) - 1 : data = SubSeq(stored, 1, j)
    <3>1. stored \in Seq(Unit(table.header_salt, full))
      BY <1>1, <1>2, SignedParts, Zenon
    <3>2. CASE k = Len(stored)
      BY <2>2, <3>1, <3>2, SubSeqFull, Zenon
    <3>3. CASE k # Len(stored)
      <4>1. k \in 0 .. Len(stored) - 1
        BY <3>1, <3>3
      <4> QED
        BY <2>2, <4>1
    <3> QED
      BY <3>2, <3>3
  <2> QED
    BY <2>1, <2>2, Zenon DEF Given
<1>8. CASE data = stored
  <2>1. CASE salt = table.header_salt
    BY <1>1, <1>2, <1>3, <1>5, <1>6, <1>8, <2>1, Zenon
  <2>2. CASE salt # table.header_salt
    BY <1>3, <1>5, <1>6, <1>8, <2>2, Zenon DEF Refused
  <2> QED
    BY <2>1, <2>2
<1>9. CASE \E k \in 0 .. Len(stored) - 1 : data = SubSeq(stored, 1, k)
  BY <1>1, <1>3, <1>5, <1>6, <1>9, Zenon
<1>10. CASE \E b \in Seq(Byte) : data = Signed(b, salt)
  BY <1>3, <1>4, <1>5, <1>6, <1>10, Zenon
<1> QED
  BY <1>7, <1>8, <1>9, <1>10

(* from_bytes refuses, or begins to parse a body that is its own
   (slots.rs:276-296). *)
LEMMA CallInv ==
  ASSUME Inv, NEW salt \in Salt, NEW data \in Given(salt), Call(data, salt)
  PROVE  Inv'
<1> DEFINE body == Body(data, salt)
<1>1. /\ stage = "stored" /\ given' = [data |-> data, header_salt |-> salt]
      /\ UNCHANGED <<table, stored>>
  BY DEF Call
<1>2. StoreInv /\ TypeOK
  BY DEF Inv
<1>3. CASE body.ok
  <2>1. /\ bytes' = body.val /\ pos' = 6 /\ slots' = <<>> /\ cur' = <<>> /\ stage' = "read"
    BY <1>3 DEF Call
  <2>2. /\ bytes' \in Seq(Byte) /\ Len(bytes') >= 6 /\ HasHeader(bytes')
        /\ data = Signed(bytes', salt)
    BY <1>1, <1>3, <2>1, CallBody, Zenon
  <2>3. Placed(<<>>, <<>>, 6, bytes')
    BY Fields DEF Placed, LaidOut, Start, SLOT_LEN
  <2>4. bytes'[6].val \in Nat
    <3>1. bytes'[6] \in Byte
      BY <2>2, ElementOfSeq
    <3> QED
      BY <3>1 DEF Byte
  <2>5. slots' \in Seq(Slot) /\ cur' \in Seq(Seq(Byte)) /\ Len(slots') = 0 /\ Len(cur') = 0
    BY <2>1
  <2>6. TypeOK'
    <3>1. pos' \in 6 .. Len(bytes')
      BY <2>1, <2>2
    <3> QED
      BY <1>1, <1>2, <2>1, <2>2, <2>5, <3>1 DEF TypeOK, Buildable
  <2>7. ReadInv'
    <3>1. Len(slots') <= slot_count'
      BY <2>4, <2>5 DEF slot_count
    <3>2. given'.data = data /\ given'.header_salt = salt
      BY <1>1
    <3> QED
      BY <2>1, <2>2, <2>3, <3>1, <3>2, Zenon DEF ReadInv
  <2> QED
    BY <1>1, <1>2, <2>1, <2>6, <2>7
       DEF Inv, WriteInv, StoreInv, RoundTrip, CutsRefused, AcceptedAsLaidOut
<1>4. CASE ~body.ok
  <2>1. /\ stage' = "done" /\ result' = body /\ UNCHANGED <<bytes, pos, slots, cur>>
    BY <1>4 DEF Call, Returns
  <2>2. body \in Refused \cup {Panic}
    BY <1>1, <1>4, CallBody, Zenon
  <2>3. TypeOK'
    <3>1. Refused \subseteq Answers
      BY DEF Refused, Err, AegisError, Answers
    <3>2. result' \in Answers \cup {Panic}
      BY <2>1, <2>2, <3>1, Zenon
    <3> QED
      BY <1>1, <1>2, <2>1, <3>2 DEF TypeOK, Buildable
  <2>4. RoundTrip'
    BY <1>1, <1>4, <2>1, CallBody DEF RoundTrip
  <2>5. CutsRefused'
    <3>1. (\E k \in 0 .. Len(stored) - 1 : data = SubSeq(stored, 1, k)) => body \in Refused
      BY <1>1, CallBody, Zenon
    <3> QED
      BY <1>1, <1>4, <2>1, <3>1 DEF CutsRefused, Refused, Err
  <2>6. AcceptedAsLaidOut'
    BY <1>4, <2>1 DEF AcceptedAsLaidOut
  <2> QED
    BY <1>1, <1>2, <2>1, <2>3, <2>4, <2>5, <2>6 DEF Inv, WriteInv, StoreInv, ReadInv
<1> QED
  BY <1>3, <1>4

(* A field is read whole from where it is, or not at all (slots.rs:127-134,
   297-328). *)
LEMMA ReadResult ==
  ASSUME bytes \in Seq(Byte), pos \in Nat, NEW f \in Field
  PROVE  IF pos + FieldLen[f] <= Len(bytes)
         THEN \E v \in Seq(Byte) :
                Read(f) = Ok(v) /\ Len(v) = FieldLen[f] /\ IsAt(v, bytes, pos)
         ELSE Read(f) \in {Err("Serialization"), Panic}
<1>1. FieldLen[f] \in Nat /\ (f \in {2, 8} => FieldLen[f] = 1) /\ Len(bytes) \in Nat
  BY DEF Field, FieldLen
<1>2. CASE pos + FieldLen[f] <= Len(bytes)
  <2> DEFINE v == SubSeq(bytes, pos + 1, pos + FieldLen[f])
  <2>1. v \in Seq(Byte) /\ Len(v) = FieldLen[f] /\ \A k \in 1 .. FieldLen[f] : v[k] = bytes[pos + k]
    BY <1>1, <1>2
  <2> HIDE DEF v
  <2>2. CASE f \in {2, 8}
    <3>1. FieldLen[f] = 1 /\ pos < Len(bytes) /\ pos + 1 \in 1 .. Len(bytes)
      BY <1>1, <1>2, <2>2
    <3>2. Read(f) = Ok(<<bytes[pos + 1]>>)
      BY <1>1, <2>2, <3>1 DEF Read, byte_at
    <3> DEFINE w == <<bytes[pos + 1]>>
    <3>3. bytes[pos + 1] \in Byte
      BY <3>1
    <3>4. w \in Seq(Byte) /\ Len(w) = 1 /\ w[1] = bytes[pos + 1]
      BY <3>3
    <3> HIDE DEF w
    <3>5. IsAt(w, bytes, pos)
      BY <3>4 DEF IsAt
    <3> QED
      BY <1>2, <3>1, <3>2, <3>4, <3>5 DEF w
  <2>3. CASE f \notin {2, 8}
    <3>1. Read(f) = Ok(v)
      BY <1>1, <1>2, <2>3 DEF Read, slice_at, v
    <3> QED
      BY <1>2, <2>1, <3>1 DEF IsAt
  <2> QED
    BY <2>2, <2>3
<1>3. CASE ~(pos + FieldLen[f] <= Len(bytes))
  <2>1. CASE f \in {2, 8}
    <3>1. pos >= Len(bytes)
      BY <1>1, <1>3, <2>1
    <3> QED
      BY <1>3, <2>1, <3>1 DEF Read, byte_at
  <2>2. CASE f \notin {2, 8}
    <3>1. pos + FieldLen[f] > Len(bytes)
      BY <1>1, <1>3
    <3> QED
      BY <1>3, <2>2, <3>1 DEF Read, slice_at
  <2> QED
    BY <2>1, <2>2
<1> QED
  BY <1>2, <1>3

(* What is parsed when the table as written was given (slots.rs:251-272,
   284-294). *)
LEMMA ReadsItsOwn ==
  ASSUME Inv, stage = "read"
  PROVE  /\ given.data = stored =>
              /\ Encodes(table, bytes) /\ given.header_salt = table.header_salt
              /\ slot_count = Len(table.slots)
         /\ \A k \in 0 .. Len(stored) - 1 : given.data # SubSeq(stored, 1, k)
         /\ slot_count \in 0 .. 255
<1>1. PICK full : Encodes(table, full) /\ stored = Signed(full, table.header_salt)
  BY DEF Inv, StoreInv
<1>2. full \in Seq(Byte) /\ full[6].val = Len(table.slots)
  BY <1>1, EncodedHeader DEF Inv, TypeOK
<1>3. /\ bytes \in Seq(Byte) /\ Len(bytes) >= 6
      /\ given.data = Signed(bytes, given.header_salt)
  <2>1. bytes \in Seq(Byte) /\ pos \in 6 .. Len(bytes)
    BY DEF Inv, TypeOK
  <2> QED
    BY <2>1 DEF Inv, ReadInv
<1>4. given.data = stored => bytes = full /\ given.header_salt = table.header_salt
  BY <1>1, <1>2, <1>3, SignedInjective, Zenon
<1>5. \A k \in 0 .. Len(stored) - 1 : given.data # SubSeq(stored, 1, k)
  BY <1>1, <1>2, <1>3, CutIsUnsigned, Zenon
<1>6. slot_count \in 0 .. 255
  <2>1. bytes[6] \in Byte
    BY <1>3, ElementOfSeq
  <2> QED
    BY <2>1 DEF Byte, slot_count
<1> QED
  BY <1>1, <1>2, <1>4, <1>5, <1>6, Zenon DEF slot_count

(* A field that is taken comes from its own place; a table as it was written
   has every field the count announces (slots.rs:297-328). *)
LEMMA TakeFieldInv == Inv /\ TakeField => Inv'
<1> SUFFICES ASSUME Inv, TakeField  PROVE Inv'
  OBVIOUS
<1> DEFINE f    == Len(cur) + 1
           len  == FieldLen[f]
           read == Read(f)
<1>1. /\ TypeOK /\ StoreInv /\ stage = "read" /\ Len(slots) < slot_count
      /\ UNCHANGED <<table, bytes, stored, given>>
  BY DEF Inv, TakeField
<1>2. /\ given.data = Signed(bytes, given.header_salt) /\ given.header_salt \in Salt
      /\ HasHeader(bytes) /\ Placed(slots, cur, pos, bytes)
  BY <1>1 DEF Inv, ReadInv
<1>3. /\ table \in SlotTable /\ Buildable(table) /\ slots \in Seq(Slot) /\ CurOK(cur)
      /\ bytes \in Seq(Byte) /\ pos \in 6 .. Len(bytes) /\ pos \in Nat
  <2>1. pos \in 6 .. Len(bytes)
    BY <1>1 DEF TypeOK
  <2> QED
    BY <1>1, <2>1 DEF TypeOK, CurOK
<1>4. Len(slots) \in Nat /\ f \in Field /\ len \in Nat
  <2>1. Len(cur) \in 0 .. 8
    BY <1>3 DEF CurOK
  <2>2. Len(slots) \in Nat
    BY <1>3
  <2> QED
    BY <2>1, <2>2, NextStart, Fields, Zenon
<1>5. /\ given.data = stored => Encodes(table, bytes) /\ slot_count = Len(table.slots)
      /\ \A k \in 0 .. Len(stored) - 1 : given.data # SubSeq(stored, 1, k)
      /\ slot_count \in 0 .. 255
  BY <1>1, ReadsItsOwn, Zenon
<1>6. IF pos + len <= Len(bytes)
      THEN \E v \in Seq(Byte) : read = Ok(v) /\ Len(v) = len /\ IsAt(v, bytes, pos)
      ELSE read \in {Err("Serialization"), Panic}
  BY <1>3, <1>4, ReadResult, Zenon
<1>7. CASE pos + len <= Len(bytes)
  <2>1. PICK v \in Seq(Byte) : read = Ok(v) /\ Len(v) = len /\ IsAt(v, bytes, pos)
    BY <1>6, <1>7
  <2>2. read.ok /\ read.val = v
    BY <2>1 DEF Ok
  <2>3. pos' = pos + len /\ Gets(v) /\ UNCHANGED <<stage, result>>
    BY <2>2 DEF TakeField, Step
  <2>4. /\ slots' \in Seq(Slot) /\ CurOK(cur') /\ Placed(slots', cur', pos', bytes)
        /\ \/ Len(slots') = Len(slots)
           \/ Len(slots') = Len(slots) + 1 /\ cur' = <<>>
    BY <1>2, <1>3, <2>1, <2>3, GetsPlaced, Zenon
  <2>5. TypeOK'
    <3>1. pos' \in 6 .. Len(bytes)
      BY <1>3, <1>4, <1>7, <2>3
    <3> QED
      BY <1>1, <1>3, <2>3, <2>4, <3>1 DEF TypeOK, CurOK, Buildable
  <2>6. slot_count' = slot_count
    BY <1>1 DEF slot_count
  <2>7. Len(slots') <= slot_count /\ (Len(slots') = slot_count => cur' = <<>>)
    BY <1>1, <1>4, <1>5, <2>4
  <2>8. ReadInv'
    BY <1>1, <1>2, <2>4, <2>6, <2>7 DEF ReadInv
  <2> QED
    BY <1>1, <2>3, <2>5, <2>8
       DEF Inv, WriteInv, StoreInv, RoundTrip, CutsRefused, AcceptedAsLaidOut
<1>8. CASE ~(pos + len <= Len(bytes))
  <2>1. read \in {Err("Serialization"), Panic}
    BY <1>6, <1>8
  <2>2. ~read.ok
    BY <2>1 DEF Err, Panic
  <2>3. result' = read /\ stage' = "done" /\ UNCHANGED <<pos, slots, cur>>
    BY <2>2 DEF TakeField, Returns
  <2>4. given.data # stored
    <3> SUFFICES ASSUME given.data = stored  PROVE FALSE
      OBVIOUS
    <3> DEFINE n == Len(table.slots)
    <3>1. Len(bytes) = Start(n + 1, 1) + VERIFIER_LEN /\ slot_count = n
      BY <1>5 DEF Encodes
    <3>2. pos = Start(Len(slots) + 1, f)
      BY <1>2 DEF Placed
    <3>3. n \in Nat /\ Len(slots) + 1 \in Nat \ {0} /\ Len(slots) + 1 <= n
      BY <1>1, <1>4, <1>5, <3>1
    <3> HIDE DEF n, f
    <3>4. pos + FieldLen[f] <= Start(n + 1, 1)
      BY <1>4, <3>2, <3>3, Starts, Zenon
    <3>5. Start(n + 1, 1) \in Nat
      BY <3>3, Fields DEF Start, SLOT_LEN
    <3>6. \A a, b, c \in Nat : a <= b /\ c = b + VERIFIER_LEN => a <= c
      BY DEF VERIFIER_LEN
    <3>7. pos + FieldLen[f] \in Nat /\ Len(bytes) \in Nat
      BY <1>3, <1>4
    <3> QED
      BY <1>8, <3>1, <3>4, <3>5, <3>6, <3>7, Zenon
  <2>5. TypeOK'
    <3>1. Err("Serialization") \in Answers
      BY DEF Err, AegisError, Answers
    <3>2. result' \in Answers \cup {Panic}
      BY <2>1, <2>3, <3>1, Zenon
    <3> QED
      BY <1>1, <2>3, <3>2 DEF TypeOK, Buildable
  <2>6. RoundTrip' /\ CutsRefused'
    BY <1>1, <1>5, <2>4 DEF RoundTrip, CutsRefused
  <2>7. AcceptedAsLaidOut'
    BY <2>2, <2>3 DEF AcceptedAsLaidOut
  <2> QED
    BY <1>1, <2>3, <2>5, <2>6, <2>7 DEF Inv, WriteInv, StoreInv, ReadInv
<1> QED
  BY <1>7, <1>8

(* The same bytes hold the same slots (slots.rs:17-30, 296-329). *)
LEMMA OneLayout ==
  ASSUME NEW ss \in Seq(Slot), NEW tt \in Seq(Slot), NEW b,
         Len(ss) = Len(tt), LaidOut(ss, b), LaidOut(tt, b)
  PROVE  ss = tt
<1>1. ASSUME NEW i \in 1 .. Len(ss)  PROVE ss[i] = tt[i]
  <2>1. i \in 1 .. Len(tt)
    OBVIOUS
  <2>2. ss[i] \in [Field -> Seq(Byte)] /\ tt[i] \in [Field -> Seq(Byte)]
    <3>1. ss[i] \in Slot /\ tt[i] \in Slot
      BY <2>1, ElementOfSeq
    <3> QED
      BY <3>1 DEF Slot
  <2>3. ASSUME NEW f \in Field  PROVE ss[i][f] = tt[i][f]
    <3>1. /\ ss[i][f] \in Seq(Byte) /\ tt[i][f] \in Seq(Byte)
          /\ Len(ss[i][f]) = FieldLen[f] /\ Len(tt[i][f]) = FieldLen[f]
      BY <2>1, SlotFields, Zenon
    <3>2. IsAt(ss[i][f], b, Start(i, f)) /\ IsAt(tt[i][f], b, Start(i, f))
      BY <2>1, Zenon DEF LaidOut
    <3>3. \A k \in 1 .. Len(ss[i][f]) : ss[i][f][k] = tt[i][f][k]
      BY <3>1, <3>2, Zenon DEF IsAt
    <3> QED
      BY <3>1, <3>3, SeqEqual, Zenon
  <2> QED
    BY <2>2, <2>3
<1> QED
  BY <1>1, SeqEqual

(* The verifier is the last that is taken: what is returned is the table the
   bytes hold (slots.rs:330-334). *)
LEMMA TakeVerifierInv == Inv /\ TakeVerifier => Inv'
<1> SUFFICES ASSUME Inv, TakeVerifier  PROVE Inv'
  OBVIOUS
<1> DEFINE read == slice_at(VERIFIER_LEN)
           end  == Start(Len(slots) + 1, 1)
<1>1. /\ TypeOK /\ StoreInv /\ stage = "read" /\ Len(slots) = slot_count
      /\ UNCHANGED <<table, bytes, pos, slots, cur, stored, given>>
      /\ stage' = "done"
  BY DEF Inv, TakeVerifier, Returns
<1>2. /\ given.data = Signed(bytes, given.header_salt) /\ given.header_salt \in Salt
      /\ HasHeader(bytes) /\ Placed(slots, cur, pos, bytes) /\ cur = <<>>
  BY <1>1 DEF Inv, ReadInv
<1>3. /\ table \in SlotTable /\ Buildable(table) /\ slots \in Seq(Slot)
      /\ bytes \in Seq(Byte) /\ pos \in 6 .. Len(bytes) /\ pos \in Nat /\ Len(bytes) >= 6
      /\ Len(bytes) \in Nat
  <2>1. pos \in 6 .. Len(bytes) /\ bytes \in Seq(Byte)
    BY <1>1 DEF TypeOK
  <2> QED
    BY <1>1, <2>1 DEF TypeOK
<1>4. pos = end /\ LaidOut(slots, bytes)
  BY <1>2 DEF Placed
<1>5. /\ given.data = stored =>
           /\ Encodes(table, bytes) /\ given.header_salt = table.header_salt
           /\ slot_count = Len(table.slots)
      /\ \A k \in 0 .. Len(stored) - 1 : given.data # SubSeq(stored, 1, k)
      /\ slot_count \in 0 .. 255
  BY <1>1, ReadsItsOwn, Zenon
<1>6. CutsRefused'
  BY <1>1, <1>5 DEF CutsRefused
<1>7. CASE pos + VERIFIER_LEN > Len(bytes)
  <2>1. read = Err("Serialization")
    BY <1>7 DEF slice_at
  <2>2. result' = Err("Serialization")
    BY <2>1 DEF TakeVerifier, Returns, Err
  <2>3. given.data # stored
    <3>1. given.data = stored => Len(bytes) = pos + VERIFIER_LEN
      BY <1>1, <1>4, <1>5 DEF Encodes
    <3> QED
      BY <1>3, <1>7, <3>1 DEF VERIFIER_LEN
  <2>4. RoundTrip' /\ AcceptedAsLaidOut'
    BY <1>1, <2>2, <2>3 DEF RoundTrip, AcceptedAsLaidOut, Err
  <2>5. TypeOK'
    <3>1. result' \in Answers
      BY <2>2 DEF Err, AegisError, Answers
    <3> QED
      BY <1>1, <3>1 DEF TypeOK, Buildable
  <2> QED
    BY <1>1, <1>6, <2>4, <2>5 DEF Inv, WriteInv, StoreInv, ReadInv
<1>8. CASE ~(pos + VERIFIER_LEN > Len(bytes))
  <2> DEFINE v == SubSeq(bytes, pos + 1, pos + VERIFIER_LEN)
             t == [header_salt |-> given.header_salt, slots |-> slots, verifier |-> v]
  <2>1. read = Ok(v)
    BY <1>8 DEF slice_at
  <2>2. v \in Seq(Byte) /\ Len(v) = VERIFIER_LEN /\ IsAt(v, bytes, pos)
    BY <1>3, <1>8 DEF VERIFIER_LEN, IsAt
  <2> HIDE DEF v
  <2>3. result' = Ok(t)
    BY <2>1 DEF TakeVerifier, Returns, Ok
  <2>4. t \in SlotTable
    BY <1>2, <1>3, <2>2 DEF SlotTable
  <2>5. /\ t.slots = slots /\ t.verifier = v /\ t.header_salt = given.header_salt
    OBVIOUS
  <2>6. TypeOK'
    <3>1. result' \in Answers
      BY <2>3, <2>4 DEF Ok, Answers
    <3> QED
      BY <1>1, <3>1 DEF TypeOK, Buildable
  <2> HIDE DEF t
  <2>7. AcceptedAsLaidOut'
    <3>1. result'.val = t
      BY <2>3 DEF Ok
    <3>2. SubSeq(given.data, 1, Len(given.data) - OUT_LEN) = bytes
      BY <1>2, <1>3, SignedParts, Zenon
    <3>3. IsAt(HEADER_MAGIC \o <<HEADER_VERSION, [val |-> Len(slots)]>>, bytes, 0)
      BY <1>1, <1>2, <1>3, <1>5, HeaderRead, Zenon DEF HeaderFor, slot_count
    <3>4. Len(bytes) >= end + VERIFIER_LEN
      BY <1>3, <1>4, <1>8 DEF VERIFIER_LEN
    <3>5. IsAt(v, bytes, end)
      BY <1>4, <2>2
    <3> HIDE DEF end
    <3> QED
      BY <1>1, <1>2, <1>4, <2>5, <3>1, <3>2, <3>3, <3>4, <3>5, Zenon DEF AcceptedAsLaidOut, end
  <2>8. ASSUME given.data = stored  PROVE t = table
    <3>1. /\ Encodes(table, bytes) /\ given.header_salt = table.header_salt
          /\ Len(slots) = Len(table.slots)
      BY <1>1, <1>5, <2>8
    <3>2. /\ table.slots \in Seq(Slot) /\ table.verifier \in Seq(Byte)
          /\ Len(table.verifier) = VERIFIER_LEN
      BY <1>3, TableParts, Zenon
    <3>3. slots = table.slots
      BY <1>3, <1>4, <3>1, <3>2, OneLayout, Zenon DEF Encodes
    <3>4. IsAt(table.verifier, bytes, pos)
      BY <1>4, <3>1, Zenon DEF Encodes
    <3>5. v = table.verifier
      BY <2>2, <3>2, <3>4, SeqEqual, Zenon DEF IsAt
    <3> QED
      BY <1>3, <2>4, <2>5, <3>1, <3>3, <3>5 DEF SlotTable
  <2>9. RoundTrip'
    BY <1>1, <1>5, <2>3, <2>8, Zenon DEF RoundTrip
  <2> QED
    BY <1>1, <1>6, <2>6, <2>7, <2>9 DEF Inv, WriteInv, StoreInv, ReadInv
<1> QED
  BY <1>7, <1>8

-----------------------------------------------------------------------------
(* Theorems                                                                *)

(* The invariant holds of every behaviour (slots.rs:251-335). *)
LEMMA Invariant == Spec => []Inv
<1>1. Init => Inv
  BY InitInv
<1>2. Inv /\ [Next]_vars => Inv'
  <2> SUFFICES ASSUME Inv, [Next]_vars  PROVE Inv'
    OBVIOUS
  <2>1. CASE PushField
    BY <2>1, PushInv
  <2>2. CASE Finish
    BY <2>2, FinishInv
  <2>3. CASE \E salt \in Salt : \E data \in Given(salt) : Call(data, salt)
    BY <2>3, CallInv
  <2>4. CASE TakeField
    BY <2>4, TakeFieldInv
  <2>5. CASE TakeVerifier
    BY <2>5, TakeVerifierInv
  <2>6. CASE UNCHANGED vars
    BY <2>6
       DEF vars, Inv, TypeOK, Buildable, WriteInv, StoreInv, ReadInv, slot_count,
           RoundTrip, CutsRefused, AcceptedAsLaidOut
  <2> QED
    BY <2>1, <2>2, <2>3, <2>4, <2>5, <2>6 DEF Next
<1> QED
  BY <1>1, <1>2, PTL DEF Spec

(* Whatever is given to from_bytes, each field it has taken has the length of
   its type, and it ends with a table whose fields have theirs, with one of its two
   errors, or in a panic (slots.rs:276-335).  Which bytes make it panic is the
   subject of PanicsOnlyThere. *)
THEOREM FormatTypeCorrect == Spec => []TypeOK
<1>1. Inv => TypeOK
  BY DEF Inv
<1> QED
  BY <1>1, Invariant, PTL

(* Every table that can be built is read back as itself, and under another
   salt not at all (slots.rs:251-335). *)
THEOREM AlwaysRoundTrips == Spec => []RoundTrip
<1>1. Inv => RoundTrip
  BY DEF Inv
<1> QED
  BY <1>1, Invariant, PTL

(* A table that breaks off is refused with an error, wherever it ends
   (slots.rs:277-290). *)
THEOREM CutsNeverRead == Spec => []CutsRefused
<1>1. Inv => CutsRefused
  BY DEF Inv
<1> QED
  BY <1>1, Invariant, PTL

(* No body, whoever wrote it, is accepted unless all its count announces is
   there, in its place, and under the MAC (slots.rs:276-335). *)
THEOREM AcceptsOnlyLaidOut == Spec => []AcceptedAsLaidOut
<1>1. Inv => AcceptedAsLaidOut
  BY DEF Inv
<1> QED
  BY <1>1, Invariant, PTL
-----------------------------------------------------------------------------
(* Panics                                                                  *)

LEMMA PanicIsNoOther ==
  /\ \A v : Ok(v) # Panic
  /\ Err("Serialization") # Panic /\ Err("HeaderIntegrity") # Panic
  /\ ~Panic.ok /\ Panic.err = "panic"
<1>1. /\ \A v : Ok(v).ok
      /\ Err("Serialization").err = "Serialization"
      /\ Err("HeaderIntegrity").err = "HeaderIntegrity"
      /\ ~Panic.ok /\ Panic.err = "panic"
  BY DEF Ok, Err, Panic
<1> QED
  BY <1>1

(* The index of the count panics only on a body of five bytes with its MAC
   (slots.rs:291-294). *)
LEMMA CallPanic ==
  ASSUME Inv, stage = "stored", NEW salt \in Salt, NEW data \in Given(salt),
         Body(data, salt) = Panic
  PROVE  \E b \in Seq(Byte) : data = Signed(b, salt) /\ Len(b) = 5
<1>1. PICK full : Encodes(table, full) /\ stored = Signed(full, table.header_salt)
  BY DEF Inv, StoreInv
<1>2. full \in Seq(Byte)
  BY <1>1, EncodedHeader DEF Inv, TypeOK
<1>3. data # stored
  <2>1. ~Body(data, salt).ok /\ Body(data, salt) # Err("HeaderIntegrity")
    BY PanicIsNoOther
  <2> QED
    BY <2>1, CallBody
<1>4. \A k \in 0 .. Len(stored) - 1 : data # SubSeq(stored, 1, k)
  <2>1. Body(data, salt) \notin Refused
    BY PanicIsNoOther DEF Refused
  <2> QED
    BY <2>1, CallBody
<1>5. \A k \in 0 .. Len(stored) : data # SubSeq(stored, 1, k)
  <2>1. stored \in Seq(Unit(table.header_salt, full))
    BY <1>1, <1>2, SignedParts, Zenon
  <2>2. data # SubSeq(stored, 1, Len(stored))
    BY <1>3, <2>1, SubSeqFull, Zenon
  <2>3. \A k \in 0 .. Len(stored) : k \in 0 .. Len(stored) - 1 \/ k = Len(stored)
    BY <2>1
  <2> QED
    BY <1>4, <2>2, <2>3, Zenon
<1>6. PICK b \in Foreign : data = Signed(b, salt)
  BY <1>5 DEF Given
<1>7. b \in Seq(Byte)
  BY FormatAssumption DEF FormatAssumption
<1>8. ~(Len(b) < 5) /\ Len(b) < 6
  <2>1. Body(data, salt) =
          IF Len(b) < 5 THEN Err("Serialization")
          ELSE IF ~HasHeader(b) THEN Err("Serialization")
          ELSE IF Len(b) < 6 THEN Panic
          ELSE Ok(b)
    BY <1>6, <1>7, BodyOfSigned, Zenon
  <2> QED
    BY <2>1, PanicIsNoOther, Zenon
<1>9. Len(b) \in Nat
  BY <1>7
<1>10. Len(b) = 5
  <2>1. \A n \in Nat : ~(n < 5) /\ n < 6 => n = 5
    OBVIOUS
  <2> QED
    BY <1>8, <1>9, <2>1, Zenon
<1> QED
  BY <1>6, <1>7, <1>10, Zenon

(* A field panics only if it is read by an index that is just beyond the body
   (slots.rs:301, 322). *)
LEMMA FieldPanic ==
  ASSUME Inv, TakeField, Returns(Panic)
  PROVE  /\ given.data = Signed(bytes, given.header_salt)
         /\ \E i \in 1 .. bytes[6].val, f \in {2, 8} : Len(bytes) = Start(i, f)
<1> DEFINE f == Len(cur) + 1
<1>1. /\ stage = "read" /\ Len(slots) < slot_count
      /\ ~Read(f).ok => Read(f) = Panic
      /\ Read(f).ok => stage' = stage
  BY DEF TakeField, Returns
<1>2. ~Read(f).ok
  BY <1>1 DEF Returns
<1>3. Read(f) = Panic
  BY <1>1, <1>2
<1>4. /\ given.data = Signed(bytes, given.header_salt) /\ Placed(slots, cur, pos, bytes)
      /\ pos \in 6 .. Len(bytes) /\ bytes \in Seq(Byte) /\ slots \in Seq(Slot)
  BY <1>1 DEF Inv, ReadInv, TypeOK
<1> HIDE DEF f
<1>5. f \in {2, 8} /\ pos >= Len(bytes)
  BY <1>3, PanicIsNoOther DEF Read, slice_at, byte_at
<1>6. Len(bytes) = Start(Len(slots) + 1, f)
  BY <1>4, <1>5 DEF Placed, f
<1>7. Len(slots) + 1 \in 1 .. bytes[6].val
  <2>1. slot_count \in 0 .. 255
    BY <1>1, ReadsItsOwn, Zenon
  <2>2. Len(slots) \in Nat
    BY <1>4
  <2>3. Len(slots) < slot_count
    BY <1>1
  <2>4. \A m \in Nat, n \in 0 .. 255 : m < n => m + 1 \in 1 .. n
    OBVIOUS
  <2>5. Len(slots) + 1 \in 1 .. slot_count
    BY <2>1, <2>2, <2>3, <2>4, Zenon
  <2> QED
    BY <2>5, Zenon DEF slot_count
<1> QED
  BY <1>4, <1>5, <1>6, <1>7

(* What to_bytes wrote, whole or cut, is no reason to panic (slots.rs:276-290). *)
LEMMA OwnNeverPanics ==
  ASSUME Inv, stage = "done", result = Panic
  PROVE  given.data \notin {SubSeq(stored, 1, k) : k \in 0 .. Len(stored)}
<1>1. PICK full : Encodes(table, full) /\ stored = Signed(full, table.header_salt)
  BY DEF Inv, StoreInv
<1>2. stored \in Seq(Unit(table.header_salt, full))
  <2>1. full \in Seq(Byte)
    BY <1>1, EncodedHeader DEF Inv, TypeOK
  <2> QED
    BY <1>1, <2>1, SignedParts, Zenon
<1>3. given.data # stored
  BY PanicIsNoOther DEF Inv, RoundTrip
<1>4. \A k \in 0 .. Len(stored) - 1 : given.data # SubSeq(stored, 1, k)
  BY PanicIsNoOther DEF Inv, CutsRefused
<1>5. SubSeq(stored, 1, Len(stored)) = stored
  BY <1>2, SubSeqFull, Zenon
<1>6. \A k \in 0 .. Len(stored) : k \in 0 .. Len(stored) - 1 \/ k = Len(stored)
  BY <1>2
<1> QED
  BY <1>3, <1>4, <1>5, <1>6, Zenon

(* The body a panic is about. *)
PanicInv ==
  stage = "done" /\ result = Panic =>
    \E body \in Seq(Byte) :
      /\ given.data = Signed(body, given.header_salt)
      /\ \/ Len(body) = 5
         \/ \E i \in 1 .. body[6].val, f \in {2, 8} : Len(body) = Start(i, f)

LEMMA PanicStep ==
  ASSUME Inv, PanicInv, [Next]_vars
  PROVE  PanicInv'
<1> SUFFICES ASSUME stage' = "done", result' = Panic, Next
             PROVE  \E body \in Seq(Byte) :
                      /\ given'.data = Signed(body, given'.header_salt)
                      /\ \/ Len(body) = 5
                         \/ \E i \in 1 .. body[6].val, f \in {2, 8} : Len(body) = Start(i, f)
  <2>1. CASE UNCHANGED vars
    BY <2>1 DEF vars, PanicInv
  <2>2. CASE Next
    BY <2>2 DEF PanicInv
  <2> QED
    BY <2>1, <2>2
<1>1. CASE PushField
  BY <1>1 DEF PushField
<1>2. CASE Finish
  BY <1>2 DEF Finish
<1>3. ASSUME NEW salt \in Salt, NEW data \in Given(salt), Call(data, salt)
      PROVE  \E b \in Seq(Byte) : given'.data = Signed(b, given'.header_salt) /\ Len(b) = 5
  <2>1. /\ stage = "stored" /\ given' = [data |-> data, header_salt |-> salt]
        /\ Body(data, salt) = Panic
    BY <1>3 DEF Call, Returns
  <2>2. given'.data = data /\ given'.header_salt = salt
    BY <2>1
  <2> QED
    BY <2>1, <2>2, CallPanic
<1>4. CASE TakeField
  <2>1. Returns(Panic) /\ given' = given /\ bytes \in Seq(Byte)
    BY <1>4 DEF TakeField, Returns, Inv, TypeOK
  <2> QED
    BY <1>4, <2>1, FieldPanic
<1>5. CASE TakeVerifier
  <2>1. result' # Panic
    BY <1>5, PanicIsNoOther DEF TakeVerifier, Returns, slice_at
  <2> QED
    BY <2>1
<1> QED
  BY <1>1, <1>2, <1>3, <1>4, <1>5 DEF Next

(* from_bytes panics on nothing that to_bytes wrote, whole or cut, and on what
   others wrote only where its MAC is good and it ends just before the count,
   a kdf_id or flags (slots.rs:276-328). *)
THEOREM PanicsOnlyThere == Spec => []PanicsAtUncheckedBytes
<1>1. Init => PanicInv
  BY DEF Init, PanicInv
<1>2. Inv /\ PanicInv => PanicsAtUncheckedBytes
  <2> SUFFICES ASSUME Inv, PanicInv, stage = "done", result = Panic
               PROVE  PanicsAtUncheckedBytes
    BY DEF PanicsAtUncheckedBytes
  <2>1. PICK body \in Seq(Byte) :
          /\ given.data = Signed(body, given.header_salt)
          /\ \/ Len(body) = 5
             \/ \E i \in 1 .. body[6].val, f \in {2, 8} : Len(body) = Start(i, f)
    BY DEF PanicInv
  <2>2. SubSeq(given.data, 1, Len(given.data) - OUT_LEN) = body
    BY <2>1, SignedParts, Zenon
  <2>3. given.data \notin {SubSeq(stored, 1, k) : k \in 0 .. Len(stored)}
    BY OwnNeverPanics
  <2> QED
    BY <2>1, <2>2, <2>3, Zenon DEF PanicsAtUncheckedBytes
<1> QED
  BY <1>1, <1>2, PanicStep, Invariant, PTL DEF Spec
=============================================================================
