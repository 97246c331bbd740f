-------------------------- MODULE KeyMemoryProofs ---------------------------
(***************************************************************************)
(* Theorems of the keys in memory, for any number of keys, pages and cells *)
(* in a page.                                                              *)
(***************************************************************************)
EXTENDS KeyMemory, TLAPS

(* The stages a drop goes through (aegis_key.rs:100-109). *)
LEMMA DropOrder ==
  /\ DropStages[1] = "wiping"
  /\ After("wiping") = "readmitting"
  /\ After("readmitting") = "unlocking"
  /\ After("unlocking") = "freeing"
<1>. DEFINE Places(stage) == {j \in DOMAIN DropStages : DropStages[j] = stage}
<1>1. DOMAIN DropStages = 1 .. 4
  BY DEF DropStages
<1>2. /\ DropStages[1] = "wiping" /\ DropStages[2] = "readmitting"
      /\ DropStages[3] = "unlocking" /\ DropStages[4] = "freeing"
  BY DEF DropStages
<1>3. Places("wiping") = {1} /\ Places("readmitting") = {2} /\ Places("unlocking") = {3}
  BY <1>1, <1>2
<1>4. /\ (CHOOSE j \in DOMAIN DropStages : DropStages[j] = "wiping") = 1
      /\ (CHOOSE j \in DOMAIN DropStages : DropStages[j] = "readmitting") = 2
      /\ (CHOOSE j \in DOMAIN DropStages : DropStages[j] = "unlocking") = 3
  BY <1>3
<1>5. /\ After("wiping") = DropStages[1 + 1]
      /\ After("readmitting") = DropStages[2 + 1]
      /\ After("unlocking") = DropStages[3 + 1]
  BY <1>4, Zenon DEF After
<1>. QED
  BY <1>2, <1>5

KeyState == [stage : Stage, cell : Cell, locked : BOOLEAN]

(* A key in memory has a cell and a stage of its life. *)
LEMMA KeyInMemory ==
  ASSUME TypeOK, NEW k \in Key
  PROVE  /\ key[k] \in {NoKey} \cup KeyState
         /\ key[k] # NoKey => key[k] \in KeyState /\ PageOf(k) \in Page
         /\ key[k].stage # "none" => key[k] # NoKey
<1>1. key[k] \in {NoKey} \cup KeyState
  BY DEF TypeOK, KeyState
<1>2. key[k] # NoKey => key[k] \in KeyState
  BY <1>1
<1>3. key[k] # NoKey => key[k].cell \in Cell
  BY <1>2 DEF KeyState
<1>4. key[k] # NoKey => PageOf(k) \in Page
  BY <1>3 DEF PageOf, Cell
<1>. QED
  BY <1>1, <1>2, <1>4 DEF NoKey

-----------------------------------------------------------------------------
(* Steps                                                                   *)

(* The change of key k from one stage to another. *)
Moved(k, from, to) ==
  /\ key[k] # NoKey /\ key[k].stage = from
  /\ key' = [key EXCEPT ![k].stage = to]

(* What a step does: a key appears, a lock is answered, a key is dropped or
   burnt, one of the later steps is taken, or a key is gone. *)
LEMMA Steps ==
  ASSUME TypeOK, Next
  PROVE  \E k \in Key :
           \/ Copy(k) \/ Lock(k)
           \/ Advise(k) /\ Moved(k, "advising", "live")
                /\ undumped' \subseteq Page /\ UNCHANGED <<bytes, pinned, crowded>>
           \/ /\ Moved(k, "live", "wiping") /\ UNCHANGED <<pinned, undumped, crowded>>
              /\ bytes' \in {bytes, [bytes EXCEPT ![key[k].cell] = Nobody]}
           \/ /\ Moved(k, "wiping", "readmitting") /\ UNCHANGED <<pinned, undumped, crowded>>
              /\ bytes' = [bytes EXCEPT ![key[k].cell] = Nobody]
           \/ Readmit(k) /\ Moved(k, "readmitting", "unlocking")
                /\ undumped' \subseteq Page /\ UNCHANGED <<bytes, pinned, crowded>>
           \/ /\ Moved(k, "unlocking", "freeing") /\ UNCHANGED <<bytes, undumped, crowded>>
              /\ pinned' = IF key[k].locked THEN pinned \ {PageOf(k)} ELSE pinned
           \/ key[k] # NoKey /\ Free(k)
<1>1. PICK k \in Key : \/ Copy(k) \/ Lock(k) \/ Advise(k)
                       \/ Burn(k) \/ Drop(k) \/ Wipe(k) \/ Readmit(k) \/ Unlock(k) \/ Free(k)
  BY DEF Next
<1>2. key[k].stage # "none" => key[k] # NoKey /\ PageOf(k) \in Page
  BY KeyInMemory
<1>3. undumped \subseteq Page
  BY DEF TypeOK
<1>4. CASE Copy(k) \/ Lock(k)
  BY <1>4
<1>5. CASE Advise(k)
  BY <1>5, <1>2, <1>3 DEF Advise, Goes, Moved
<1>6. CASE Burn(k) \/ Drop(k)
  BY <1>6, <1>2, DropOrder DEF Burn, Drop, Goes, Moved
<1>7. CASE Wipe(k)
  BY <1>7, <1>2, DropOrder DEF Wipe, Goes, Moved
<1>8. CASE Readmit(k)
  BY <1>8, <1>2, <1>3, DropOrder DEF Readmit, Goes, Moved
<1>9. CASE Unlock(k)
  BY <1>9, <1>2, DropOrder DEF Unlock, Goes, Moved
<1>10. CASE Free(k)
  BY <1>10, <1>2 DEF Free
<1>. QED
  BY <1>1, <1>4, <1>5, <1>6, <1>7, <1>8, <1>9, <1>10

(* A key that moves keeps its cell and its lock; the others stay. *)
LEMMA MovedKeys ==
  ASSUME TypeOK, NEW k \in Key, NEW from, NEW to \in Stage, Moved(k, from, to)
  PROVE  /\ key' \in [Key -> {NoKey} \cup KeyState]
         /\ key'[k] # NoKey
         /\ key'[k].stage = to /\ key'[k].cell = key[k].cell /\ key'[k].locked = key[k].locked
         /\ \A j \in Key \ {k} : key'[j] = key[j]
         /\ \A j \in Key : (key'[j] = NoKey) = (key[j] = NoKey)
         /\ \A j \in Key : key[j] # NoKey => key'[j].cell = key[j].cell
         /\ Owned' = Owned
<1>1. key[k] \in KeyState
  BY KeyInMemory DEF Moved
<1>2. key \in [Key -> {NoKey} \cup KeyState]
  BY DEF TypeOK, KeyState
<1>3. key' = [key EXCEPT ![k] = [key[k] EXCEPT !.stage = to]]
  BY DEF Moved
<1>4. [key[k] EXCEPT !.stage = to] \in KeyState
  BY <1>1 DEF KeyState
<1>5. [key[k] EXCEPT !.stage = to].stage = to
      /\ [key[k] EXCEPT !.stage = to].cell = key[k].cell
      /\ [key[k] EXCEPT !.stage = to].locked = key[k].locked
  BY <1>1 DEF KeyState
<1>6. "none" \notin Stage
  BY DEF Stage
<1>7. key' \in [Key -> {NoKey} \cup KeyState] /\ key'[k] = [key[k] EXCEPT !.stage = to]
      /\ \A j \in Key \ {k} : key'[j] = key[j]
  BY <1>2, <1>3, <1>4
<1>8. key'[k] # NoKey
  BY <1>5, <1>6, <1>7 DEF NoKey
<1>9. key[k] # NoKey
  BY DEF Moved
<1>10. \A j \in Key : (key'[j] = NoKey) = (key[j] = NoKey)
  BY <1>7, <1>8, <1>9
<1>11. \A j \in Key : key[j] # NoKey => key'[j].cell = key[j].cell
  BY <1>5, <1>7
<1>12. Owned' = Owned
  BY <1>10, <1>11 DEF Owned
<1>. QED
  BY <1>5, <1>7, <1>8, <1>10, <1>11, <1>12

-----------------------------------------------------------------------------
(* Types and memory                                                        *)

(* A wiped key has no bytes, unowned cells have none, and an owned cell has
   those of its owner or none. *)
Wiped(k) == key[k].stage \in {"readmitting", "unlocking", "freeing"}

MemoryInv ==
  /\ FreedMemoryIsClean
  /\ \A k \in Key : key[k] # NoKey /\ Wiped(k) => bytes[key[k].cell] = Nobody

(* At the start there are no keys (aegis_key.rs:39-53). *)
LEMMA InitMemory == Init => TypeOK /\ MemoryInv /\ pinned = {}
BY DEF Init, TypeOK, MemoryInv, FreedMemoryIsClean, Owned

(* No key is in the cell of another. *)
Apart == \A j, k \in Key : key[j] # NoKey /\ key[k] # NoKey /\ j # k => key[j].cell # key[k].cell

(* A step in which key k moves on and at most wipes itself keeps the types and
   the memory as it should be. *)
LEMMA MovedMemory ==
  ASSUME TypeOK, MemoryInv, NEW k \in Key, NEW from, NEW to \in Stage, Moved(k, from, to),
         \/ bytes' = bytes
         \/ bytes' = [bytes EXCEPT ![key[k].cell] = Nobody],
         to \in {"readmitting", "unlocking", "freeing"} =>
           Wiped(k) \/ bytes' = [bytes EXCEPT ![key[k].cell] = Nobody],
         pinned' \subseteq Page, undumped' \subseteq Page, UNCHANGED crowded
  PROVE  TypeOK' /\ MemoryInv'
<1>1. /\ key' \in [Key -> {NoKey} \cup KeyState]
      /\ key'[k].stage = to /\ key'[k].cell = key[k].cell
      /\ \A j \in Key \ {k} : key'[j] = key[j]
      /\ \A j \in Key : (key'[j] = NoKey) = (key[j] = NoKey)
      /\ \A j \in Key : key[j] # NoKey => key'[j].cell = key[j].cell
      /\ Owned' = Owned
  BY MovedKeys
<1>2. /\ bytes \in [Cell -> Key \cup {Nobody}]
      /\ Apart
      /\ key[k] # NoKey
  BY DEF TypeOK, Apart, Moved
<1>3. key[k].cell \in Cell
  BY <1>2, KeyInMemory DEF KeyState
<1>4. /\ bytes' \in [Cell -> Key \cup {Nobody}]
      /\ \A c \in Cell : bytes'[c] \in {bytes[c], Nobody}
  BY <1>2, <1>3
<1>5. TypeOK'
  <2>1. Apart'
    BY <1>1, <1>2 DEF Apart
  <2>. QED
    BY <2>1, <1>1, <1>4 DEF TypeOK, Apart, KeyState
<1>6. FreedMemoryIsClean'
  <2>1. \A c \in Cell \ Owned' : bytes'[c] = Nobody
    BY <1>1, <1>4 DEF MemoryInv, FreedMemoryIsClean
  <2>2. ASSUME NEW j \in Key, key'[j] # NoKey
        PROVE  bytes'[key'[j].cell] \in {j, Nobody}
    <3>1. key[j] # NoKey /\ key'[j].cell = key[j].cell
      BY <2>2, <1>1
    <3>2. key[j].cell \in Cell
      BY <3>1, KeyInMemory DEF KeyState
    <3>3. bytes[key[j].cell] \in {j, Nobody}
      BY <3>1 DEF MemoryInv, FreedMemoryIsClean
    <3>. QED
      BY <3>1, <3>2, <3>3, <1>4
  <2>. QED
    BY <2>1, <2>2 DEF FreedMemoryIsClean
<1>7. ASSUME NEW j \in Key, key'[j] # NoKey, Wiped(j)'
      PROVE  bytes'[key'[j].cell] = Nobody
  <2>1. key[j] # NoKey /\ key'[j].cell = key[j].cell
    BY <1>7, <1>1
  <2>2. key[j].cell \in Cell
    BY <2>1, KeyInMemory DEF KeyState
  <2>3. CASE Wiped(j)
    BY <2>1, <2>2, <2>3, <1>4 DEF MemoryInv
  <2>4. CASE ~Wiped(j)
    <3>1. j = k
      BY <2>4, <1>7, <1>1 DEF Wiped
    <3>2. bytes' = [bytes EXCEPT ![key[k].cell] = Nobody]
      BY <3>1, <2>4, <1>7, <1>1 DEF Wiped
    <3>. QED
      BY <3>1, <3>2, <2>1, <1>2, <1>3
  <2>. QED
    BY <2>3, <2>4
<1>. QED
  BY <1>5, <1>6, <1>7 DEF MemoryInv

(* A key that appears is alone in its cell, which was clean
   (aegis_key.rs:39-42). *)
LEMMA CopyMemory ==
  ASSUME TypeOK, MemoryInv, NEW k \in Key, Copy(k)
  PROVE  TypeOK' /\ MemoryInv'
<1>1. PICK c \in Cell \ Owned :
        /\ key' = [key EXCEPT ![k] = [stage |-> "copied", cell |-> c, locked |-> FALSE]]
        /\ bytes' = [bytes EXCEPT ![c] = k]
        /\ crowded' \in {crowded, crowded \cup {c[1]}}
  BY DEF Copy
<1>2. key[k] = NoKey /\ UNCHANGED <<pinned, undumped>>
  BY DEF Copy
<1>3. /\ key \in [Key -> {NoKey} \cup KeyState]
      /\ bytes \in [Cell -> Key \cup {Nobody}]
      /\ Apart
  BY DEF TypeOK, KeyState, Apart
<1>. DEFINE new == [stage |-> "copied", cell |-> c, locked |-> FALSE]
<1>4. new \in KeyState /\ new # NoKey /\ new.cell = c /\ new.stage = "copied"
  <2>1. new \in KeyState
    BY DEF KeyState, Stage
  <2>2. new.stage = "copied" /\ NoKey.stage = "none"
    BY DEF NoKey
  <2>. QED
    BY <2>1, <2>2
<1>5. key'[k] = new /\ \A j \in Key \ {k} : key'[j] = key[j]
  BY <1>1, <1>3
<1>6. \A j \in Key \ {k} : key'[j] # NoKey => key'[j].cell \in Owned
  BY <1>5 DEF Owned
<1>7. Owned' = Owned \cup {c}
  BY <1>2, <1>4, <1>5 DEF Owned
<1>8. Apart'
  BY <1>3, <1>4, <1>5, <1>6 DEF Apart
<1>9. TypeOK'
  <2>1. key' \in [Key -> {NoKey} \cup KeyState]
    BY <1>1, <1>3, <1>4
  <2>2. bytes' \in [Cell -> Key \cup {Nobody}]
    BY <1>1, <1>3
  <2>3. pinned' \subseteq Page /\ undumped' \subseteq Page
    BY <1>2 DEF TypeOK
  <2>4. crowded' \subseteq Page
    BY <1>1 DEF TypeOK, Cell
  <2>. QED
    BY <2>1, <2>2, <2>3, <2>4, <1>8 DEF TypeOK, KeyState, Apart
<1>10. FreedMemoryIsClean'
  <2>1. \A d \in Cell \ Owned' : bytes'[d] = Nobody
    BY <1>1, <1>3, <1>7 DEF MemoryInv, FreedMemoryIsClean
  <2>2. ASSUME NEW j \in Key, key'[j] # NoKey
        PROVE  bytes'[key'[j].cell] \in {j, Nobody}
    <3>1. CASE j = k
      BY <3>1, <1>1, <1>3, <1>4, <1>5
    <3>2. CASE j # k
      <4>1. key'[j] = key[j] /\ key[j] # NoKey /\ key[j].cell # c
        BY <3>2, <2>2, <1>5, <1>6
      <4>2. key[j].cell \in Cell
        BY <4>1, KeyInMemory DEF KeyState
      <4>. QED
        BY <4>1, <4>2, <1>1, <1>3 DEF MemoryInv, FreedMemoryIsClean
    <3>. QED
      BY <3>1, <3>2
  <2>. QED
    BY <2>1, <2>2 DEF FreedMemoryIsClean
<1>11. ASSUME NEW j \in Key, key'[j] # NoKey, Wiped(j)'
       PROVE  bytes'[key'[j].cell] = Nobody
  <2>1. j # k
    BY <1>11, <1>4, <1>5 DEF Wiped
  <2>2. key'[j] = key[j] /\ key[j] # NoKey /\ key[j].cell # c
    BY <2>1, <1>11, <1>5, <1>6
  <2>3. key[j].cell \in Cell
    BY <2>2, KeyInMemory DEF KeyState
  <2>. QED
    BY <2>2, <2>3, <1>11, <1>1, <1>3 DEF MemoryInv, Wiped
<1>. QED
  BY <1>9, <1>10, <1>11 DEF MemoryInv

(* The answer of mlock changes no cell (aegis_key.rs:116-121). *)
LEMMA LockMemory ==
  ASSUME TypeOK, MemoryInv, NEW k \in Key, Lock(k)
  PROVE  TypeOK' /\ MemoryInv'
<1>1. PICK granted \in BOOLEAN :
        /\ pinned' = IF granted THEN pinned \cup {PageOf(k)} ELSE pinned
        /\ key' = [key EXCEPT ![k].stage = IF granted THEN "advising" ELSE "live",
                              ![k].locked = lock_memory(k, granted)]
  BY DEF Lock
<1>. DEFINE new == [key[k] EXCEPT !.stage = IF granted THEN "advising" ELSE "live",
                                  !.locked = granted]
<1>2. key[k] \in KeyState /\ key[k] # NoKey /\ PageOf(k) \in Page
  BY KeyInMemory DEF Lock
<1>3. /\ key \in [Key -> {NoKey} \cup KeyState]
      /\ Apart
      /\ UNCHANGED <<bytes, undumped, crowded>>
  BY DEF TypeOK, KeyState, Apart, Lock
<1>4. key' = [key EXCEPT ![k] = new]
  BY <1>1 DEF lock_memory
<1>5. /\ new \in KeyState /\ new.cell = key[k].cell
      /\ new.stage \in {"advising", "live"} /\ new.locked = granted
  BY <1>2 DEF KeyState, Stage
<1>6. new # NoKey
  BY <1>5 DEF NoKey
<1>7. key'[k] = new /\ \A j \in Key \ {k} : key'[j] = key[j]
  BY <1>3, <1>4
<1>8. /\ \A j \in Key : (key'[j] = NoKey) = (key[j] = NoKey)
      /\ \A j \in Key : key[j] # NoKey => key'[j].cell = key[j].cell
  BY <1>2, <1>5, <1>6, <1>7
<1>9. Owned' = Owned /\ Apart'
  BY <1>3, <1>8 DEF Owned, Apart
<1>10. TypeOK'
  <2>1. key' \in [Key -> {NoKey} \cup KeyState]
    BY <1>3, <1>4, <1>5
  <2>2. pinned' \subseteq Page
    BY <1>1, <1>2 DEF TypeOK
  <2>. QED
    BY <2>1, <2>2, <1>3, <1>9 DEF TypeOK, KeyState, Apart
<1>11. FreedMemoryIsClean'
  BY <1>3, <1>8, <1>9 DEF MemoryInv, FreedMemoryIsClean
<1>12. ASSUME NEW j \in Key, key'[j] # NoKey, Wiped(j)'
       PROVE  bytes'[key'[j].cell] = Nobody
  <2>1. j # k
    BY <1>12, <1>5, <1>7 DEF Wiped
  <2>. QED
    BY <2>1, <1>12, <1>3, <1>7 DEF MemoryInv, Wiped
<1>. QED
  BY <1>10, <1>11, <1>12 DEF MemoryInv

(* A key that is gone leaves a clean cell (aegis_key.rs:100-109). *)
LEMMA FreeMemory ==
  ASSUME TypeOK, MemoryInv, NEW k \in Key, key[k] # NoKey, Free(k)
  PROVE  TypeOK' /\ MemoryInv'
<1>1. /\ key' = [key EXCEPT ![k] = NoKey] /\ UNCHANGED <<bytes, pinned, undumped, crowded>>
      /\ Wiped(k)
  BY DEF Free, Wiped
<1>2. key \in [Key -> {NoKey} \cup KeyState] /\ Apart
  BY DEF TypeOK, KeyState, Apart
<1>3. key'[k] = NoKey /\ \A j \in Key \ {k} : key'[j] = key[j]
  BY <1>1, <1>2
<1>4. bytes[key[k].cell] = Nobody
  BY <1>1 DEF MemoryInv
<1>5. Owned \subseteq Owned' \cup {key[k].cell}
  BY <1>3 DEF Owned
<1>6. TypeOK'
  <2>1. key' \in [Key -> {NoKey} \cup KeyState]
    BY <1>1, <1>2
  <2>2. Apart'
    BY <1>2, <1>3 DEF Apart
  <2>. QED
    BY <2>1, <2>2, <1>1 DEF TypeOK, KeyState, Apart
<1>7. FreedMemoryIsClean'
  BY <1>1, <1>3, <1>4, <1>5 DEF MemoryInv, FreedMemoryIsClean
<1>8. ASSUME NEW j \in Key, key'[j] # NoKey, Wiped(j)'
      PROVE  bytes'[key'[j].cell] = Nobody
  BY <1>8, <1>1, <1>3 DEF MemoryInv, Wiped
<1>. QED
  BY <1>6, <1>7, <1>8 DEF MemoryInv

(* Every step keeps the types and the memory as it should be. *)
LEMMA MemoryStep ==
  ASSUME TypeOK, MemoryInv, [Next]_vars
  PROVE  TypeOK' /\ MemoryInv'
<1>1. CASE UNCHANGED vars
  BY <1>1 DEF vars, TypeOK, MemoryInv, FreedMemoryIsClean, Owned, Wiped
<1>2. CASE Next
  <2>1. PICK k \in Key :
           \/ Copy(k) \/ Lock(k)
           \/ Advise(k) /\ Moved(k, "advising", "live")
                /\ undumped' \subseteq Page /\ UNCHANGED <<bytes, pinned, crowded>>
           \/ /\ Moved(k, "live", "wiping") /\ UNCHANGED <<pinned, undumped, crowded>>
              /\ bytes' \in {bytes, [bytes EXCEPT ![key[k].cell] = Nobody]}
           \/ /\ Moved(k, "wiping", "readmitting") /\ UNCHANGED <<pinned, undumped, crowded>>
              /\ bytes' = [bytes EXCEPT ![key[k].cell] = Nobody]
           \/ Readmit(k) /\ Moved(k, "readmitting", "unlocking")
                /\ undumped' \subseteq Page /\ UNCHANGED <<bytes, pinned, crowded>>
           \/ /\ Moved(k, "unlocking", "freeing") /\ UNCHANGED <<bytes, undumped, crowded>>
              /\ pinned' = IF key[k].locked THEN pinned \ {PageOf(k)} ELSE pinned
           \/ key[k] # NoKey /\ Free(k)
    BY <1>2, Steps
  <2>2. pinned \subseteq Page /\ undumped \subseteq Page
    BY DEF TypeOK
  <2>3. {"live", "wiping", "readmitting", "unlocking", "freeing"} \subseteq Stage
    BY DEF Stage
  <2>4. CASE Copy(k)
    BY <2>4, CopyMemory
  <2>5. CASE Lock(k)
    BY <2>5, LockMemory
  <2>6. CASE Advise(k) /\ Moved(k, "advising", "live")
               /\ undumped' \subseteq Page /\ UNCHANGED <<bytes, pinned, crowded>>
    BY <2>2, <2>3, <2>6, MovedMemory
  <2>7. CASE /\ Moved(k, "live", "wiping") /\ UNCHANGED <<pinned, undumped, crowded>>
             /\ bytes' \in {bytes, [bytes EXCEPT ![key[k].cell] = Nobody]}
    BY <2>2, <2>3, <2>7, MovedMemory
  <2>8. CASE /\ Moved(k, "wiping", "readmitting") /\ UNCHANGED <<pinned, undumped, crowded>>
             /\ bytes' = [bytes EXCEPT ![key[k].cell] = Nobody]
    BY <2>2, <2>3, <2>8, MovedMemory
  <2>9. CASE Readmit(k) /\ Moved(k, "readmitting", "unlocking")
               /\ undumped' \subseteq Page /\ UNCHANGED <<bytes, pinned, crowded>>
    <3>1. Wiped(k)
      BY <2>9 DEF Moved, Wiped
    <3>. QED
      BY <2>2, <2>3, <2>9, <3>1, MovedMemory
  <2>10. CASE /\ Moved(k, "unlocking", "freeing") /\ UNCHANGED <<bytes, undumped, crowded>>
              /\ pinned' = IF key[k].locked THEN pinned \ {PageOf(k)} ELSE pinned
    <3>1. Wiped(k)
      BY <2>10 DEF Moved, Wiped
    <3>2. pinned' \subseteq Page
      BY <2>2, <2>10
    <3>. QED
      BY <2>2, <2>3, <2>10, <3>1, <3>2, MovedMemory
  <2>11. CASE key[k] # NoKey /\ Free(k)
    BY <2>11, FreeMemory
  <2>. QED
    BY <2>1, <2>4, <2>5, <2>6, <2>7, <2>8, <2>9, <2>10, <2>11
<1>. QED
  BY <1>1, <1>2

(* Keys, cells and pages keep their kinds and no two keys share a cell,
   whatever keys other threads make and drop (aegis_key.rs:39-141). *)
THEOREM MemoryTypeCorrect == Spec => []TypeOK
<1>1. Init => TypeOK /\ MemoryInv
  BY InitMemory
<1>. QED
  BY <1>1, MemoryStep, PTL DEF Spec

(* Memory that is given back holds no key's bytes, burnt or dropped, locked or
   not (aegis_key.rs:95-109). *)
THEOREM AlwaysClean == Spec => []FreedMemoryIsClean
<1>1. Init => TypeOK /\ MemoryInv
  BY InitMemory
<1>2. MemoryInv => FreedMemoryIsClean
  BY DEF MemoryInv
<1>. QED
  BY <1>1, <1>2, MemoryStep, PTL DEF Spec

-----------------------------------------------------------------------------
(* Locks                                                                   *)

(* A page stays locked for a key that has yet to unlock it, and no key is
   locked before mlock was called for it. *)
Holds(k, p) ==
  key[k] # NoKey /\ PageOf(k) = p /\ key[k].locked /\ key[k].stage # "freeing"

Fresh(k) == key[k] # NoKey /\ key[k].stage = "copied"

LockInv ==
  /\ \A p \in pinned : \E k \in Key : Holds(k, p)
  /\ \A k \in Key : Fresh(k) => ~key[k].locked

(* Keys that stay as they are hold what they held (aegis_key.rs:26-30). *)
LEMMA StillHolds ==
  ASSUME NEW j \in Key, key'[j] = key[j]
  PROVE  /\ \A p : Holds(j, p) => Holds(j, p)'
         /\ Fresh(j)' = Fresh(j)
BY DEF Holds, Fresh, PageOf

(* If all other keys stay, and the pages that stay locked for none of them are
   held by key k, the locks are as they should be. *)
LEMMA OneKeyLocks ==
  ASSUME LockInv, NEW k \in Key,
         \A j \in Key \ {k} : key'[j] = key[j],
         Fresh(k)' => ~key'[k].locked,
         \A p \in pinned' : (p \in pinned /\ ~Holds(k, p)) \/ Holds(k, p)'
  PROVE  LockInv'
<1>1. ASSUME NEW p \in pinned'
      PROVE  \E j \in Key : Holds(j, p)'
  <2>1. CASE p \in pinned /\ ~Holds(k, p)
    <3>1. PICK j \in Key : Holds(j, p)
      BY <2>1 DEF LockInv
    <3>2. j # k
      BY <2>1, <3>1
    <3>. QED
      BY <3>1, <3>2, StillHolds
  <2>2. CASE Holds(k, p)'
    BY <2>2
  <2>. QED
    BY <2>1, <2>2
<1>2. ASSUME NEW j \in Key \ {k}, Fresh(j)'
      PROVE  ~key'[j].locked
  BY <1>2, StillHolds DEF LockInv
<1>. QED
  BY <1>1, <1>2 DEF LockInv

(* A key that moves on holds what it held unless it comes to its end, before
   which it unlocks its page (aegis_key.rs:100-109). *)
LEMMA MovedLocks ==
  ASSUME TypeOK, LockInv, NEW k \in Key, NEW from, NEW to \in Stage \ {"copied"},
         Moved(k, from, to),
         \/ to # "freeing" /\ pinned' = pinned
         \/ pinned' = IF key[k].locked THEN pinned \ {PageOf(k)} ELSE pinned
  PROVE  LockInv'
<1>1. ASSUME NEW p \in pinned'
      PROVE  (p \in pinned /\ ~Holds(k, p)) \/ Holds(k, p)'
  BY <1>1, MovedKeys DEF Holds, PageOf
<1>2. ~Fresh(k)'
  BY MovedKeys DEF Fresh
<1>. QED
  BY <1>1, <1>2, MovedKeys, OneKeyLocks

(* A page that mlock has just locked is held by its key
   (aegis_key.rs:116-121). *)
LEMMA LockLocks ==
  ASSUME TypeOK, LockInv, NEW k \in Key, Lock(k)
  PROVE  LockInv'
<1>1. PICK granted \in BOOLEAN :
        /\ pinned' = IF granted THEN pinned \cup {PageOf(k)} ELSE pinned
        /\ key' = [key EXCEPT ![k].stage = IF granted THEN "advising" ELSE "live",
                              ![k].locked = lock_memory(k, granted)]
  BY DEF Lock
<1>. DEFINE new == [key[k] EXCEPT !.stage = IF granted THEN "advising" ELSE "live",
                                  !.locked = granted]
<1>2. key[k] \in KeyState /\ key[k] # NoKey /\ key[k].stage = "copied"
  BY KeyInMemory DEF Lock
<1>3. key' = [key EXCEPT ![k] = new]
  BY <1>1 DEF lock_memory
<1>4. key \in [Key -> {NoKey} \cup KeyState]
  BY DEF TypeOK, KeyState
<1>5. key'[k] = new /\ \A j \in Key \ {k} : key'[j] = key[j]
  BY <1>3, <1>4
<1>6. /\ new.cell = key[k].cell /\ new.stage \in {"advising", "live"}
      /\ new.locked = granted
  BY <1>2 DEF KeyState
<1>7. new # NoKey
  BY <1>6 DEF NoKey
<1>8. ~Fresh(k)'
  BY <1>5, <1>6 DEF Fresh
<1>9. \A p : ~Holds(k, p)
  BY <1>2 DEF LockInv, Fresh, Holds
<1>10. \A p \in pinned' : (p \in pinned /\ ~Holds(k, p)) \/ Holds(k, p)'
  <2>. SUFFICES ASSUME NEW p \in pinned', p \notin pinned
                PROVE  Holds(k, p)'
    BY <1>9
  <2>1. granted /\ p = PageOf(k)
    BY <1>1
  <2>. QED
    BY <2>1, <1>2, <1>5, <1>6, <1>7 DEF Holds, PageOf
<1>11. \A j \in Key \ {k} : key'[j] = key[j]
  BY <1>5
<1>12. Fresh(k)' => ~key'[k].locked
  BY <1>8
<1>. QED
  BY <1>10, <1>11, <1>12, OneKeyLocks

(* Every step keeps the locks as they should be. *)
LEMMA LockStep ==
  ASSUME TypeOK, LockInv, [Next]_vars
  PROVE  LockInv'
<1>1. CASE UNCHANGED vars
  BY <1>1 DEF vars, LockInv, Holds, Fresh, PageOf
<1>2. CASE Next
  <2>1. PICK k \in Key :
           \/ Copy(k) \/ Lock(k)
           \/ \E from, to \in Stage \ {"copied", "freeing"} :
                Moved(k, from, to) /\ UNCHANGED pinned
           \/ /\ Moved(k, "unlocking", "freeing")
              /\ pinned' = IF key[k].locked THEN pinned \ {PageOf(k)} ELSE pinned
           \/ key[k] # NoKey /\ Free(k)
    <3>1. {"advising", "live", "wiping", "readmitting", "unlocking"}
            \subseteq Stage \ {"copied", "freeing"}
      BY DEF Stage
    <3>. QED
      BY <1>2, <3>1, Steps
  <2>2. key \in [Key -> {NoKey} \cup KeyState]
    BY DEF TypeOK, KeyState
  <2>3. CASE Copy(k)
    <3>1. PICK c \in Cell : key' = [key EXCEPT ![k] = [stage |-> "copied", cell |-> c,
                                                       locked |-> FALSE]]
      BY <2>3 DEF Copy
    <3>2. ~key'[k].locked /\ \A j \in Key \ {k} : key'[j] = key[j]
      BY <2>2, <3>1
    <3>3. pinned' = pinned /\ \A p : ~Holds(k, p)
      BY <2>3 DEF Copy, Holds
    <3>. QED
      BY <3>2, <3>3, OneKeyLocks
  <2>4. CASE Lock(k)
    BY <2>4, LockLocks
  <2>5. CASE \E from, to \in Stage \ {"copied", "freeing"} :
               Moved(k, from, to) /\ UNCHANGED pinned
    BY <2>5, MovedLocks
  <2>6. CASE /\ Moved(k, "unlocking", "freeing")
             /\ pinned' = IF key[k].locked THEN pinned \ {PageOf(k)} ELSE pinned
    <3>1. "freeing" \in Stage \ {"copied"}
      BY DEF Stage
    <3>. QED
      BY <2>6, <3>1, MovedLocks
  <2>7. CASE key[k] # NoKey /\ Free(k)
    <3>1. /\ key' = [key EXCEPT ![k] = NoKey] /\ pinned' = pinned
          /\ key[k].stage = "freeing"
      BY <2>7 DEF Free
    <3>2. key'[k] = NoKey /\ \A j \in Key \ {k} : key'[j] = key[j]
      BY <2>2, <3>1
    <3>3. ~Fresh(k)' /\ \A p : ~Holds(k, p)
      BY <3>1, <3>2 DEF Fresh, Holds
    <3>. QED
      BY <3>1, <3>2, <3>3, OneKeyLocks
  <2>. QED
    BY <2>1, <2>3, <2>4, <2>5, <2>6, <2>7
<1>. QED
  BY <1>1, <1>2

(* A page is locked only as long as one of its keys has a lock to give back,
   however the steps of keys on one page interleave (aegis_key.rs:44-48,
   100-109). *)
THEOREM LocksComeBack == Spec => []LocksAreReturned
<1>1. Init => LockInv
  BY DEF Init, LockInv, Fresh
<1>2. LockInv => LocksAreReturned
  BY DEF LockInv, Holds, LocksAreReturned
<1>. QED
  BY <1>1, <1>2, MemoryTypeCorrect, LockStep, PTL DEF Spec
-----------------------------------------------------------------------------
(* Core dumps                                                              *)

(* A key is locked when it comes to be excluded, and was not before. *)
LockedInOrder ==
  \A k \in Key : /\ Fresh(k) => ~key[k].locked
                 /\ key[k] # NoKey /\ key[k].stage = "advising" => key[k].locked

(* Two keys do not exclude one page: only one has the page's address
   (aegis_key.rs:123-128). *)
LEMMA OneKeyExcludes ==
  ASSUME TypeOK, NEW j \in Key, NEW k \in Key, Excludes(j), Excludes(k), PageOf(j) = PageOf(k)
  PROVE  j = k
<1>1. key[j] # NoKey /\ key[k] # NoKey
  BY DEF Excludes
<1>2. key[j].cell \in Cell /\ key[k].cell \in Cell
  BY <1>1, KeyInMemory DEF KeyState
<1>3. key[j].cell = key[k].cell
  BY <1>2 DEF Excludes, PageOf, Aligned, Cell
<1>. QED
  BY <1>1, <1>3 DEF TypeOK

(* A step of one key that excludes what it excluded, or whose change core dumps
   follow, leaves the exclusions with the keys. *)
LEMMA OneKeyChanges ==
  ASSUME TypeOK, ExclusionsFollowKeys, NEW k \in Key,
         \A j \in Key \ {k} : key'[j] = key[j],
         \/ ~Excludes(k) /\ ~Excludes(k)' /\ undumped' = undumped
         \/ Excludes(k) /\ Excludes(k)' /\ PageOf(k)' = PageOf(k) /\ undumped' = undumped
         \/ ~Excludes(k) /\ Excludes(k)' /\ undumped' = undumped \cup {PageOf(k)'}
         \/ Excludes(k) /\ ~Excludes(k)' /\ undumped' = undumped \ {PageOf(k)}
  PROVE  ExclusionsFollowKeys'
<1>. DEFINE Others == {PageOf(j) : j \in {i \in Key \ {k} : Excludes(i)}}
<1>1. \A j \in Key \ {k} : Excludes(j)' = Excludes(j) /\ PageOf(j)' = PageOf(j)
  BY DEF Excludes, PageOf, Aligned
<1>2. Others' = Others
  BY <1>1
<1>3. undumped = Others \cup (IF Excludes(k) THEN {PageOf(k)} ELSE {})
  BY DEF ExclusionsFollowKeys
<1>4. Excludes(k) => PageOf(k) \notin Others
  BY OneKeyExcludes
<1>5. ExclusionsFollowKeys' =
        (undumped' = Others' \cup (IF Excludes(k)' THEN {PageOf(k)'} ELSE {}))
  BY DEF ExclusionsFollowKeys
<1>. HIDE DEF Others
<1>6. undumped' = Others' \cup (IF Excludes(k)' THEN {PageOf(k)'} ELSE {})
  BY <1>2, <1>3, <1>4
<1>. QED
  BY <1>5, <1>6

(* Every step keeps the exclusions with the keys. *)
LEMMA ExclusionStep ==
  ASSUME TypeOK, LockedInOrder, ExclusionsFollowKeys, [Next]_vars
  PROVE  LockedInOrder' /\ ExclusionsFollowKeys'
<1>1. CASE UNCHANGED vars
  BY <1>1 DEF vars, LockedInOrder, Fresh, ExclusionsFollowKeys, Excludes, PageOf, Aligned
<1>2. CASE Next
  <2>1. PICK k \in Key :
           \/ Copy(k) \/ Lock(k)
           \/ Advise(k) /\ Moved(k, "advising", "live")
           \/ /\ \/ Moved(k, "live", "wiping")
                 \/ Moved(k, "wiping", "readmitting")
                 \/ Moved(k, "unlocking", "freeing")
              /\ UNCHANGED undumped
           \/ Readmit(k) /\ Moved(k, "readmitting", "unlocking")
           \/ key[k] # NoKey /\ Free(k)
    BY <1>2, Steps
  <2>2. key \in [Key -> {NoKey} \cup KeyState]
    BY DEF TypeOK, KeyState
  <2>. DEFINE
         Changes ==
           \/ ~Excludes(k) /\ ~Excludes(k)' /\ undumped' = undumped
           \/ Excludes(k) /\ Excludes(k)' /\ PageOf(k)' = PageOf(k) /\ undumped' = undumped
           \/ ~Excludes(k) /\ Excludes(k)' /\ undumped' = undumped \cup {PageOf(k)'}
           \/ Excludes(k) /\ ~Excludes(k)' /\ undumped' = undumped \ {PageOf(k)}
         InOrder ==
           /\ Fresh(k)' => ~key'[k].locked
           /\ key'[k] # NoKey /\ key'[k].stage = "advising" => key'[k].locked
  <2>3. SUFFICES (\A j \in Key \ {k} : key'[j] = key[j]) /\ Changes /\ InOrder
    <3>1. ASSUME \A j \in Key \ {k} : key'[j] = key[j], InOrder
          PROVE  LockedInOrder'
      BY <3>1 DEF LockedInOrder, Fresh
    <3>2. ASSUME \A j \in Key \ {k} : key'[j] = key[j], Changes
          PROVE  ExclusionsFollowKeys'
      BY <3>2, OneKeyChanges
    <3>. QED
      BY <3>1, <3>2
  <2>4. CASE Copy(k)
    <3>1. PICK c \in Cell : key' = [key EXCEPT ![k] = [stage |-> "copied", cell |-> c,
                                                       locked |-> FALSE]]
      BY <2>4 DEF Copy
    <3>2. key'[k] = [stage |-> "copied", cell |-> c, locked |-> FALSE]
          /\ \A j \in Key \ {k} : key'[j] = key[j]
      BY <2>2, <3>1
    <3>3. undumped' = undumped /\ ~Excludes(k) /\ ~Excludes(k)'
      BY <2>4, <3>2 DEF Copy, Excludes
    <3>4. key'[k].stage = "copied" /\ ~key'[k].locked
      BY <3>2
    <3>. QED
      BY <3>2, <3>3, <3>4
  <2>5. CASE Lock(k)
    <3>1. PICK granted \in BOOLEAN :
            key' = [key EXCEPT ![k].stage = IF granted THEN "advising" ELSE "live",
                               ![k].locked = lock_memory(k, granted)]
      BY <2>5 DEF Lock
    <3>2. key[k] \in KeyState /\ key[k].stage = "copied" /\ undumped' = undumped
      BY <2>5, KeyInMemory DEF Lock
    <3>3. /\ key'[k].stage = IF granted THEN "advising" ELSE "live"
          /\ key'[k].locked = granted
          /\ \A j \in Key \ {k} : key'[j] = key[j]
      BY <2>2, <3>1, <3>2 DEF lock_memory, KeyState
    <3>4. ~Excludes(k) /\ ~Excludes(k)'
      BY <3>2, <3>3 DEF Excludes
    <3>5. InOrder
      BY <3>3 DEF Fresh
    <3>. QED
      BY <3>2, <3>3, <3>4, <3>5
  <2>6. CASE Advise(k) /\ Moved(k, "advising", "live")
    <3>1. "live" \in Stage /\ key[k] # NoKey /\ key[k].stage = "advising"
      BY <2>6 DEF Stage, Moved
    <3>2. /\ key'[k].stage = "live" /\ key'[k].cell = key[k].cell
          /\ key'[k].locked = key[k].locked /\ key'[k] # NoKey
          /\ \A j \in Key \ {k} : key'[j] = key[j]
      BY <2>6, <3>1, MovedKeys
    <3>3. key[k].locked /\ ~Excludes(k)
      BY <3>1 DEF LockedInOrder, Excludes
    <3>4. Excludes(k)' = Aligned(k) /\ PageOf(k)' = PageOf(k)
      BY <3>2, <3>3 DEF Excludes, Aligned, PageOf
    <3>5. undumped' = IF Aligned(k) THEN undumped \cup {PageOf(k)} ELSE undumped
      BY <2>6 DEF Advise
    <3>6. InOrder
      BY <3>2 DEF Fresh
    <3>. QED
      BY <3>2, <3>3, <3>4, <3>5, <3>6
  <2>7. CASE /\ \/ Moved(k, "live", "wiping")
                \/ Moved(k, "wiping", "readmitting")
                \/ Moved(k, "unlocking", "freeing")
             /\ UNCHANGED undumped
    <3>1. PICK to \in {"wiping", "readmitting", "freeing"} :
            \E from \in {"live", "wiping", "unlocking"} :
              /\ Moved(k, from, to)
              /\ (from = "unlocking") = (to = "freeing")
      BY <2>7
    <3>2. PICK from \in {"live", "wiping", "unlocking"} :
              /\ Moved(k, from, to)
              /\ (from = "unlocking") = (to = "freeing")
      BY <3>1
    <3>3. key[k] # NoKey /\ key[k].stage = from
      BY <3>2 DEF Moved
    <3>4. to \in Stage
      BY DEF Stage
    <3>5. /\ key'[k].stage = to /\ key'[k].cell = key[k].cell
          /\ key'[k].locked = key[k].locked /\ key'[k] # NoKey
          /\ \A j \in Key \ {k} : key'[j] = key[j]
      BY <3>2, <3>4, MovedKeys
    <3>6. Excludes(k)' = Excludes(k) /\ PageOf(k)' = PageOf(k)
      BY <3>2, <3>3, <3>5 DEF Excludes, Aligned, PageOf
    <3>7. InOrder
      BY <3>5 DEF Fresh
    <3>. QED
      BY <2>7, <3>5, <3>6, <3>7
  <2>8. CASE Readmit(k) /\ Moved(k, "readmitting", "unlocking")
    <3>1. "unlocking" \in Stage /\ key[k] # NoKey /\ key[k].stage = "readmitting"
      BY <2>8 DEF Stage, Moved
    <3>2. /\ key'[k].stage = "unlocking"
          /\ \A j \in Key \ {k} : key'[j] = key[j]
      BY <2>8, <3>1, MovedKeys
    <3>3. ~Excludes(k)' /\ Excludes(k) = (key[k].locked /\ Aligned(k))
      <4>1. ~Excludes(k)'
        BY <3>2 DEF Excludes
      <4>2. key[k].locked \in BOOLEAN
        BY <3>1, KeyInMemory DEF KeyState
      <4>3. Excludes(k) = (key[k].locked /\ Aligned(k))
        BY <3>1, <4>2 DEF Excludes, Aligned
      <4>. QED
        BY <4>1, <4>3
    <3>4. undumped' = IF key[k].locked /\ Aligned(k) THEN undumped \ {PageOf(k)} ELSE undumped
      BY <2>8 DEF Readmit
    <3>5. InOrder
      BY <3>2 DEF Fresh
    <3>. QED
      BY <3>2, <3>3, <3>4, <3>5
  <2>9. CASE key[k] # NoKey /\ Free(k)
    <3>1. /\ key' = [key EXCEPT ![k] = NoKey] /\ undumped' = undumped
          /\ key[k].stage = "freeing"
      BY <2>9 DEF Free
    <3>2. key'[k] = NoKey /\ \A j \in Key \ {k} : key'[j] = key[j]
      BY <2>2, <3>1
    <3>3. ~Excludes(k) /\ ~Excludes(k)'
      BY <3>1, <3>2 DEF Excludes
    <3>4. InOrder
      BY <3>2 DEF Fresh
    <3>. QED
      BY <3>1, <3>2, <3>3, <3>4
  <2>. QED
    BY <2>1, <2>4, <2>5, <2>6, <2>7, <2>8, <2>9
<1>. QED
  BY <1>1, <1>2

(* The pages that core dumps leave out are those of the locked keys that have
   a page's address, from the end of their making until they are readmitted:
   no key on the page puts it back early or leaves it out for good, whatever
   order the keys are made and dropped in (aegis_key.rs:116-141). *)
THEOREM ExclusionsAreKept == Spec => []ExclusionsFollowKeys
<1>1. Init => LockedInOrder /\ ExclusionsFollowKeys
  BY DEF Init, LockedInOrder, Fresh, ExclusionsFollowKeys, Excludes
<1>. QED
  BY <1>1, MemoryTypeCorrect, ExclusionStep, PTL DEF Spec

-----------------------------------------------------------------------------
(* Pages of one key                                                        *)

(* Two keys that are on one page have met there. *)
MetAreCrowded ==
  \A j, k \in Key :
    key[j] # NoKey /\ key[k] # NoKey /\ j # k /\ PageOf(j) = PageOf(k) =>
      PageOf(k) \in crowded

(* No key moves, and only a new one can meet another (aegis_key.rs:41-42). *)
LEMMA Meetings ==
  ASSUME TypeOK, Next
  PROVE  \E k \in Key :
           \/ Copy(k)
           \/ /\ UNCHANGED crowded
              /\ \A j \in Key :
                   key'[j] # NoKey => key[j] # NoKey /\ key'[j].cell = key[j].cell
<1>. DEFINE Same == \A j \in Key :
                      key'[j] # NoKey => key[j] # NoKey /\ key'[j].cell = key[j].cell
<1>1. PICK k \in Key :
         \/ Copy(k) \/ Lock(k)
         \/ key[k] # NoKey /\ Free(k)
         \/ \E from, to \in Stage : Moved(k, from, to) /\ UNCHANGED crowded
  <2>1. {"advising", "live", "wiping", "readmitting", "unlocking", "freeing"} \subseteq Stage
    BY DEF Stage
  <2>. QED
    BY <2>1, Steps
<1>2. key \in [Key -> {NoKey} \cup KeyState]
  BY DEF TypeOK, KeyState
<1>3. CASE Copy(k)
  BY <1>3
<1>4. CASE Lock(k)
  <2>1. PICK stage, granted :
          key' = [key EXCEPT ![k].stage = stage, ![k].locked = lock_memory(k, granted)]
    BY <1>4 DEF Lock
  <2>2. key[k] \in KeyState /\ key[k] # NoKey /\ UNCHANGED crowded
    BY <1>4, KeyInMemory DEF Lock
  <2>3. key'[k].cell = key[k].cell /\ \A j \in Key \ {k} : key'[j] = key[j]
    BY <1>2, <2>1, <2>2 DEF KeyState
  <2>. QED
    BY <2>2, <2>3
<1>5. CASE key[k] # NoKey /\ Free(k)
  <2>1. key'[k] = NoKey /\ \A j \in Key \ {k} : key'[j] = key[j]
    BY <1>2, <1>5 DEF Free
  <2>2. UNCHANGED crowded
    BY <1>5 DEF Free
  <2>. QED
    BY <2>1, <2>2
<1>6. CASE \E from, to \in Stage : Moved(k, from, to) /\ UNCHANGED crowded
  BY <1>6, MovedKeys
<1>. QED
  BY <1>1, <1>3, <1>4, <1>5, <1>6

(* Every step notes who meets, and forgets no meeting. *)
LEMMA CrowdStep ==
  ASSUME TypeOK, MetAreCrowded, Next
  PROVE  MetAreCrowded' /\ crowded \subseteq crowded'
<1>1. PICK k \in Key :
         \/ Copy(k)
         \/ /\ UNCHANGED crowded
            /\ \A j \in Key : key'[j] # NoKey => key[j] # NoKey /\ key'[j].cell = key[j].cell
  BY Meetings
<1>2. CASE Copy(k)
  <2>1. PICK c \in Cell :
          /\ key' = [key EXCEPT ![k] = [stage |-> "copied", cell |-> c, locked |-> FALSE]]
          /\ crowded' = IF \E j \in Key : key[j] # NoKey /\ PageOf(j) = c[1]
                        THEN crowded \cup {c[1]} ELSE crowded
    BY <1>2 DEF Copy
  <2>2. key'[k].cell = c /\ key[k] = NoKey /\ \A j \in Key \ {k} : key'[j] = key[j]
    BY <1>2, <2>1 DEF TypeOK, Copy
  <2>3. PageOf(k)' = c[1] /\ \A j \in Key \ {k} : PageOf(j)' = PageOf(j)
    BY <2>2 DEF PageOf
  <2>4. crowded \subseteq crowded'
    BY <2>1
  <2>5. ASSUME NEW i \in Key, NEW j \in Key, key'[i] # NoKey, key'[j] # NoKey, i # j,
               PageOf(i)' = PageOf(j)'
        PROVE  PageOf(j)' \in crowded'
    BY <2>1, <2>2, <2>3, <2>5 DEF MetAreCrowded
  <2>. QED
    BY <2>4, <2>5 DEF MetAreCrowded
<1>3. CASE /\ UNCHANGED crowded
           /\ \A j \in Key : key'[j] # NoKey => key[j] # NoKey /\ key'[j].cell = key[j].cell
  BY <1>3 DEF MetAreCrowded, PageOf
<1>. QED
  BY <1>1, <1>2, <1>3

(* The page of a key that has yet to unlock it is locked, if no keys met there. *)
HeldPagesPinned ==
  \A k \in Key : Holds(k, PageOf(k)) /\ PageOf(k) \notin crowded => PageOf(k) \in pinned

(* A step leaves locked the pages of the keys that hold them, where no two met:
   what munlock unlocks there was only its own key's (aegis_key.rs:133-141). *)
LEMMA AloneStep ==
  ASSUME TypeOK, HeldPagesPinned, MetAreCrowded, Next
  PROVE  HeldPagesPinned'
<1>1. PICK k \in Key :
         \/ Copy(k) \/ Lock(k)
         \/ \E from, to \in Stage \ {"copied", "freeing"} :
              Moved(k, from, to) /\ UNCHANGED pinned
         \/ /\ Moved(k, "unlocking", "freeing")
            /\ pinned' = IF key[k].locked THEN pinned \ {PageOf(k)} ELSE pinned
         \/ key[k] # NoKey /\ Free(k)
  <2>1. {"advising", "live", "wiping", "readmitting", "unlocking"}
          \subseteq Stage \ {"copied", "freeing"}
    BY DEF Stage
  <2>. QED
    BY <2>1, Steps
<1>2. key \in [Key -> {NoKey} \cup KeyState]
  BY DEF TypeOK, KeyState
<1>3. SUFFICES /\ \A j \in Key \ {k} : key'[j] = key[j]
               /\ Holds(k, PageOf(k))' /\ PageOf(k)' \notin crowded' => PageOf(k)' \in pinned'
               /\ \/ pinned \subseteq pinned'
                  \/ key'[k] # NoKey /\ PageOf(k)' = PageOf(k) /\ pinned' = pinned \ {PageOf(k)}
  <2>. SUFFICES ASSUME NEW j \in Key \ {k}, Holds(j, PageOf(j))', PageOf(j)' \notin crowded'
                PROVE  PageOf(j)' \in pinned'
    BY <1>3 DEF HeldPagesPinned
  <2>0. MetAreCrowded' /\ crowded \subseteq crowded'
    BY CrowdStep
  <2>1. key'[j] = key[j] /\ PageOf(j)' = PageOf(j) /\ Holds(j, PageOf(j)) /\ key'[j] # NoKey
    BY <1>3 DEF Holds, PageOf
  <2>2. PageOf(j) \in pinned
    BY <2>0, <2>1 DEF HeldPagesPinned
  <2>3. key'[k] # NoKey => PageOf(j)' # PageOf(k)'
    BY <2>0, <2>1 DEF MetAreCrowded
  <2>. QED
    BY <2>1, <2>2, <2>3, <1>3
<1>4. CASE Copy(k)
  <2>1. PICK c \in Cell : key' = [key EXCEPT ![k] = [stage |-> "copied", cell |-> c,
                                                     locked |-> FALSE]]
    BY <1>4 DEF Copy
  <2>2. key'[k] = [stage |-> "copied", cell |-> c, locked |-> FALSE]
        /\ \A j \in Key \ {k} : key'[j] = key[j]
    BY <1>2, <2>1
  <2>3. ~Holds(k, PageOf(k))' /\ pinned' = pinned
    BY <1>4, <2>2 DEF Copy, Holds
  <2>. QED
    BY <2>2, <2>3
<1>5. CASE Lock(k)
  <2>1. PICK granted \in BOOLEAN :
          /\ pinned' = IF granted THEN pinned \cup {PageOf(k)} ELSE pinned
          /\ key' = [key EXCEPT ![k].stage = IF granted THEN "advising" ELSE "live",
                                ![k].locked = lock_memory(k, granted)]
    BY <1>5 DEF Lock
  <2>2. key[k] \in KeyState
    BY <1>5, KeyInMemory DEF Lock
  <2>3. /\ key'[k].locked = granted /\ key'[k].cell = key[k].cell
        /\ \A j \in Key \ {k} : key'[j] = key[j]
    BY <1>2, <2>1, <2>2 DEF lock_memory, KeyState
  <2>4. PageOf(k)' = PageOf(k) /\ (Holds(k, PageOf(k))' => granted)
    BY <2>3 DEF Holds, PageOf
  <2>5. pinned \subseteq pinned' /\ (granted => PageOf(k) \in pinned')
    BY <2>1
  <2>. QED
    BY <2>3, <2>4, <2>5
<1>6. CASE \E from, to \in Stage \ {"copied", "freeing"} :
             Moved(k, from, to) /\ UNCHANGED pinned
  <2>1. PICK from \in Stage \ {"copied", "freeing"}, to \in Stage \ {"copied", "freeing"} :
          Moved(k, from, to) /\ UNCHANGED pinned
    BY <1>6
  <2>2. key[k] # NoKey /\ key[k].stage # "freeing"
    BY <2>1 DEF Moved
  <2>3. /\ key'[k].locked = key[k].locked /\ key'[k].cell = key[k].cell
        /\ \A j \in Key \ {k} : key'[j] = key[j]
    BY <2>1, MovedKeys
  <2>4. Holds(k, PageOf(k))' => Holds(k, PageOf(k))
    BY <2>2, <2>3 DEF Holds, PageOf
  <2>5. crowded \subseteq crowded'
    BY CrowdStep
  <2>. QED
    BY <2>1, <2>3, <2>4, <2>5 DEF HeldPagesPinned, PageOf
<1>7. CASE /\ Moved(k, "unlocking", "freeing")
           /\ pinned' = IF key[k].locked THEN pinned \ {PageOf(k)} ELSE pinned
  <2>1. "freeing" \in Stage
    BY DEF Stage
  <2>2. /\ key'[k] # NoKey /\ key'[k].stage = "freeing" /\ key'[k].cell = key[k].cell
        /\ \A j \in Key \ {k} : key'[j] = key[j]
    BY <1>7, <2>1, MovedKeys
  <2>. QED
    BY <1>7, <2>2 DEF Holds, PageOf
<1>8. CASE key[k] # NoKey /\ Free(k)
  <2>1. key' = [key EXCEPT ![k] = NoKey] /\ pinned' = pinned
    BY <1>8 DEF Free
  <2>2. key'[k] = NoKey /\ \A j \in Key \ {k} : key'[j] = key[j]
    BY <1>2, <2>1
  <2>. QED
    BY <2>1, <2>2 DEF Holds
<1>. QED
  BY <1>1, <1>4, <1>5, <1>6, <1>7, <1>8

(* The bytes of a key whose lock was granted are on a locked page from the answer
   of mlock until they are wiped, as long as no two keys have met on that page: what
   the documentation promises fails only between neighbours
   (aegis_key.rs:7-8, 99-141). *)
THEOREM PinnedWhenAlone == Spec => []KeysAlonePinned
<1>. DEFINE AloneInv == HeldPagesPinned /\ MetAreCrowded
<1>1. Init => AloneInv
  BY DEF Init, HeldPagesPinned, Holds, MetAreCrowded
<1>2. ASSUME TypeOK, AloneInv, [Next]_vars
      PROVE  AloneInv'
  <2>1. CASE UNCHANGED vars
    BY <1>2, <2>1 DEF vars, HeldPagesPinned, Holds, MetAreCrowded, PageOf
  <2>2. CASE Next
    BY <1>2, <2>2, AloneStep, CrowdStep
  <2>. QED
    BY <1>2, <2>1, <2>2
<1>3. TypeOK /\ MemoryInv /\ AloneInv => KeysAlonePinned
  BY DEF KeysAlonePinned, Guarded, MemoryInv, Wiped, HeldPagesPinned, Holds
<1>4. Init => TypeOK /\ MemoryInv
  BY InitMemory
<1>. QED
  BY <1>1, <1>2, <1>3, <1>4, MemoryStep, PTL DEF Spec
=============================================================================
