----------------------------- MODULE KeyMemory ------------------------------
(***************************************************************************)
(* aegis_key.rs: keys in memory.  The allocator puts each key in a cell of *)
(* some page, next to other keys; the system locks and excludes from core  *)
(* dumps whole pages.  Keys belong to different threads: the steps of one  *)
(* being made and of others being dropped come in any order.               *)
(***************************************************************************)
EXTENDS Naturals, Sequences

CONSTANTS
  Key,            \* the AegisKey objects
  Page,
  CellsPerPage,   \* keys that fit in one page
  Nobody          \* no key's bytes: zeros

ASSUME MemoryAssumption == CellsPerPage \in Nat \ {0}

VARIABLES
  key,       \* stage, cell and locked flag of each key
  bytes,     \* whose bytes each cell has, or Nobody
  pinned,    \* the pages that are locked in RAM
  undumped,  \* the pages that core dumps leave out
  crowded    \* history: the pages that two keys have been on at a time

vars == <<key, bytes, pinned, undumped, crowded>>

Cell == Page \X (1 .. CellsPerPage)

PageOf(k) == key[k].cell[1]

(* Only the first cell of a page has the address of the page. *)
Aligned(k) == key[k].cell[2] = 1

NoKey == [stage |-> "none"]

(* Fault: the buffer is given back once it is wiped, before it is unlocked. *)
Owned_Early ==
  {key[k].cell : k \in {j \in Key :
                           key[j].stage \in {"copied", "advising", "live", "wiping"}}}

Owned == {key[k].cell : k \in {j \in Key : key[j] # NoKey}}

Goes(k, stage) == key' = [key EXCEPT ![k].stage = stage]

-----------------------------------------------------------------------------
(* AegisKey::new                                                           *)

(* The buffer is allocated and the material copied into it. *)
Copy(k) ==
  /\ key[k] = NoKey
  /\ \E c \in Cell \ Owned :
       /\ key' = [key EXCEPT ![k] = [stage |-> "copied", cell |-> c, locked |-> FALSE]]
       /\ bytes' = [bytes EXCEPT ![c] = k]
       /\ crowded' = IF \E j \in Key : key[j] # NoKey /\ PageOf(j) = c[1]
                     THEN crowded \cup {c[1]} ELSE crowded
  /\ UNCHANGED <<pinned, undumped>>

(* Fault: a failed madvise is reported as a failed lock. *)
lock_memory_Strict(k, granted) == granted /\ Aligned(k)

(* Fault: what mlock answers is not looked at. *)
lock_memory_Unchecked(k, granted) == TRUE

(* What lock_memory answers when mlock is granted or refused. *)
lock_memory(k, granted) == granted

(* mlock takes any address and locks the whole page, or refuses. *)
Lock(k) ==
  /\ key[k].stage = "copied"
  /\ \E granted \in BOOLEAN :
       /\ pinned' = IF granted THEN pinned \cup {PageOf(k)} ELSE pinned
       /\ key' = [key EXCEPT ![k].stage = IF granted THEN "advising" ELSE "live",
                             ![k].locked = lock_memory(k, granted)]
  /\ UNCHANGED <<bytes, undumped, crowded>>

(* madvise refuses an address that is not that of a page, which nobody sees. *)
Advise(k) ==
  /\ key[k].stage = "advising"
  /\ undumped' = IF Aligned(k) THEN undumped \cup {PageOf(k)} ELSE undumped
  /\ Goes(k, "live")
  /\ UNCHANGED <<bytes, pinned, crowded>>

-----------------------------------------------------------------------------
(* burn and Drop::drop                                                     *)

(* Fault: nothing is wiped. *)
DropStages_Unwiped == <<"readmitting", "unlocking", "freeing">>

(* Fault: the lock is released first, then the bytes are wiped. *)
DropStages_UnlockFirst == <<"readmitting", "unlocking", "wiping", "freeing">>

(* What drop does after it was called, in order. *)
DropStages == <<"wiping", "readmitting", "unlocking", "freeing">>

After(stage) ==
  LET i == CHOOSE j \in DOMAIN DropStages : DropStages[j] = stage
  IN  DropStages[i + 1]

Drop(k) ==
  /\ key[k].stage = "live"
  /\ Goes(k, DropStages[1])
  /\ UNCHANGED <<bytes, pinned, undumped, crowded>>

(* burn wipes, and drop then wipes again. *)
Burn(k) ==
  /\ key[k].stage = "live"
  /\ bytes' = [bytes EXCEPT ![key[k].cell] = Nobody]
  /\ Goes(k, DropStages[1])
  /\ UNCHANGED <<pinned, undumped, crowded>>

Wipe(k) ==
  /\ key[k].stage = "wiping"
  /\ bytes' = [bytes EXCEPT ![key[k].cell] = Nobody]
  /\ Goes(k, After("wiping"))
  /\ UNCHANGED <<pinned, undumped, crowded>>

(* Fault: the address given to madvise is rounded down to that of the page. *)
Readmit_Rounded(k) ==
  /\ key[k].stage = "readmitting"
  /\ undumped' = IF key[k].locked THEN undumped \ {PageOf(k)} ELSE undumped
  /\ Goes(k, After("readmitting"))
  /\ UNCHANGED <<bytes, pinned, crowded>>

(* unlock_memory, only for a key whose lock was granted: first core dumps
   have the page again, where madvise takes the address, ... *)
Readmit(k) ==
  /\ key[k].stage = "readmitting"
  /\ undumped' = IF key[k].locked /\ Aligned(k) THEN undumped \ {PageOf(k)} ELSE undumped
  /\ Goes(k, After("readmitting"))
  /\ UNCHANGED <<bytes, pinned, crowded>>

(* ... then munlock unlocks it, whoever else is on it. *)
Unlock(k) ==
  /\ key[k].stage = "unlocking"
  /\ pinned' = IF key[k].locked THEN pinned \ {PageOf(k)} ELSE pinned
  /\ Goes(k, After("unlocking"))
  /\ UNCHANGED <<bytes, undumped, crowded>>

Free(k) ==
  /\ key[k].stage = "freeing"
  /\ key' = [key EXCEPT ![k] = NoKey]
  /\ UNCHANGED <<bytes, pinned, undumped, crowded>>

-----------------------------------------------------------------------------
Init ==
  /\ key = [k \in Key |-> NoKey]
  /\ bytes = [c \in Cell |-> Nobody]
  /\ pinned = {}
  /\ undumped = {}
  /\ crowded = {}

Next ==
  \E k \in Key :
    \/ Copy(k) \/ Lock(k) \/ Advise(k)
    \/ Burn(k) \/ Drop(k) \/ Wipe(k) \/ Readmit(k) \/ Unlock(k) \/ Free(k)

Spec == Init /\ [][Next]_vars

-----------------------------------------------------------------------------
(* Safety                                                                  *)

Stage ==
  {"copied", "advising", "live", "wiping", "readmitting", "unlocking", "freeing"}

(* Every variable has values of its kind, and no two keys have one cell. *)
TypeOK ==
  /\ key \in [Key -> {NoKey} \cup [stage : Stage, cell : Cell, locked : BOOLEAN]]
  /\ bytes \in [Cell -> Key \cup {Nobody}]
  /\ pinned \subseteq Page
  /\ undumped \subseteq Page
  /\ crowded \subseteq Page
  /\ \A j, k \in Key : key[j] # NoKey /\ key[k] # NoKey /\ j # k => key[j].cell # key[k].cell

(* "Zeroized on drop" (aegis_key.rs:9-11): memory the allocator has back holds
   no key's bytes, and no key finds those of another in its cell. *)
FreedMemoryIsClean ==
  /\ \A c \in Cell \ Owned : bytes[c] = Nobody
  /\ \A k \in Key : key[k] # NoKey => bytes[key[k].cell] \in {k, Nobody}

(* Locks are given back: a page stays locked only for a key that has its lock
   granted, so that dropped keys do not use up what the process may lock
   (aegis_key.rs:44-48, 100-109). *)
LocksAreReturned ==
  \A p \in pinned : \E k \in Key : key[k] # NoKey /\ PageOf(k) = p /\ key[k].locked

(* Key k is at the start of its page, was locked, and has the page left out of
   core dumps: from the end of its making until it is readmitted. *)
Excludes(k) ==
  /\ key[k] # NoKey
  /\ Aligned(k) /\ key[k].locked
  /\ key[k].stage \in {"live", "wiping", "readmitting"}

(* Core dumps leave out the pages of just those keys: no neighbour on the page
   lets it back in, whatever order they are made and dropped in, and no page
   stays out after its key (aegis_key.rs:116-141). *)
ExclusionsFollowKeys == undumped = {PageOf(k) : k \in {j \in Key : Excludes(j)}}

(* The lock of key k was granted, and its bytes are still there. *)
Guarded(k) == key[k] # NoKey /\ key[k].locked /\ bytes[key[k].cell] # Nobody

(* The bytes of a key whose lock was granted are on a locked page until the last
   of them is wiped ("Wipe first, then release the lock", aegis_key.rs:102), as
   long as no two keys have met on that page: whatever happens on other pages, and
   whoever had the page before, also in the same cell (aegis_key.rs:31-57, 99-141). *)
KeysAlonePinned ==
  \A k \in Key : Guarded(k) /\ PageOf(k) \notin crowded => PageOf(k) \in pinned

-----------------------------------------------------------------------------
(* What the documentation says and the code does not do                    *)

Live(k) == key[k] # NoKey /\ key[k].stage = "live" /\ key[k].locked

(* "The backing allocation is pinned to RAM" (aegis_key.rs:7-8): a live key
   whose lock was granted is on a locked page.  It is so on
   pages that are not shared (KeysAlonePinned), else until a neighbour is
   dropped. *)
LiveKeysPinned == \A k \in Key : Live(k) => PageOf(k) \in pinned

(* "Exclude the key pages from process core dumps" (aegis_key.rs:123): such a
   key is on a page that core dumps leave out. *)
LiveKeysUndumped == \A k \in Key : Live(k) => PageOf(k) \in undumped
=============================================================================
