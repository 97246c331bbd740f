------------------------ MODULE VaultImplementsRoster -----------------------
(***************************************************************************)
(* The vaults implement the roster.  A place on the roster of a table is   *)
(* held by the passphrase the key of the slot there was derived from; a    *)
(* disabled slot is a struck place.  The volume is the master key itself,  *)
(* in a kept table the one its verifier was made from.  What a method      *)
(* returned is the answer: places count from 1, slot indices from 0.       *)
(***************************************************************************)
EXTENDS AegisVault

HolderOf(slot) == slot.ct.key.passphrase

RosterOf(table) ==
  [i \in DOMAIN table.slots |->
     IF i \in enabled_slots(table) THEN HolderOf(table.slots[i]) ELSE None]

HeldAs(v) ==
  IF v = None THEN None
  ELSE [volume |-> v.master,
        roster |-> IF v.slots = None THEN None ELSE RosterOf(v.slots)]

Filed(s) == [volume |-> Kept(s).verifier.data, roster |-> RosterOf(Kept(s))]

(* The methods about users. *)
CallOf ==
  [seal_slots |-> "found", add_slot |-> "join", revoke_slot |-> "strike",
   open_from_slots |-> "restore"]

AnswerOf(r) ==
  IF r.op \in DOMAIN CallOf
  THEN [call |-> CallOf[r.op], user |-> r.by,
        place |-> IF r.idx = None THEN 0 ELSE r.idx + 1, granted |-> r.out = "Ok"]
  ELSE [call |-> "none", user |-> None, place |-> 0, granted |-> TRUE]

(* The masters there can be after n draws: those given to from_master_key,
   those unlock derives, and one for each draw. *)
DerivedMasters ==
  {argon2id_root(pw, p.salt, p.memory_kib, p.iterations).val :
     pw \in Passphrase,
     p \in {q \in KdfParam : Argon2Accepts(q.salt, q.memory_kib, q.iterations)}}

MastersAfter(n) == RawMaster \cup DerivedMasters \cup [random : 0 .. n]

(* None is no vault, table, user or index, no roster, and nothing a holder has. *)
ASSUME NoneAssumption ==
  /\ None \notin Vault
  /\ None \notin KeySlotTable
  /\ None \notin Passphrase
  /\ None \notin Nat
  /\ None \notin Seq(Passphrase \cup {None})
  /\ None \notin [volume : Master, roster : Seq(Passphrase \cup {None}) \cup {None}]

(* No key given to from_master_key is one that OsRng gives later. *)
ASSUME RawMasterAssumption == \A raw \in RawMaster : raw \notin [random : Nat]

Roster == INSTANCE VaultRoster WITH
  Holder <- Handle, User <- Passphrase, Volume <- MastersAfter(MaxDraws),
  Limit <- MAX_SLOTS, Struck <- None, Nothing <- None,
  held <- [h \in Handle |-> HeldAs(vault[h])],
  archive <- {Filed(s) : s \in saved},
  answer <- AnswerOf(ret)

(* Slot keys, trial decryption, MAC and verifier together amount to a roster
   of passphrases, with the answers of one: who is added gets the place that
   add_slot reports and is refused only by a full table, revoke_slot strikes
   exactly the place it is given unless it is the last user's, and
   open_from_slots brings back a table as it was kept, for one of its users
   alone (lib.rs:59-195, slots.rs:106-118, 189-335). *)
RosterSpec == Roster!Spec
=============================================================================
