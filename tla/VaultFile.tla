------------------------------ MODULE VaultFile -----------------------------
(***************************************************************************)
(* What the launcher promises people who do not change files two at a      *)
(* time, without files: a volume with its users, a text that is sealed on  *)
(* it, and the users who have been told that they have access.  A user is  *)
(* let in by a user, or made the only one of a volume anew.  Who dies in   *)
(* the middle of a change loses what was to be changed.                    *)
(***************************************************************************)
CONSTANTS
  User, Text,
  VolumeOf(_),   \* the volume a user's passphrase makes
  Nothing

VARIABLES
  users,     \* who can open the volume
  volume,    \* the volume, or Nothing
  told,      \* the users who were told that they can
  sealed     \* the sealed text and its volume, or Nothing

fileVars == <<users, volume, told, sealed>>

Init == users = {} /\ volume = Nothing /\ told = {} /\ sealed = Nothing

Create(u) ==
  /\ told' = {} /\ users' = {u} /\ volume' = VolumeOf(u)
  /\ UNCHANGED sealed

Admit(by, u) ==
  /\ by \in users
  /\ users' = users \cup {u}
  /\ UNCHANGED <<volume, told, sealed>>

Tell(u) ==
  /\ u \in users
  /\ told' = told \cup {u}
  /\ UNCHANGED <<users, volume, sealed>>

Seal(by, text) ==
  /\ by \in users
  /\ sealed' = [text |-> text, volume |-> volume]
  /\ UNCHANGED <<users, volume, told>>

LoseVolume ==
  /\ users' = {} /\ volume' = Nothing /\ told' = {}
  /\ UNCHANGED sealed

LoseText == sealed' = Nothing /\ UNCHANGED <<users, volume, told>>

Next ==
  \/ \E u \in User : Create(u) \/ Tell(u) \/ \E by \in User : Admit(by, u)
  \/ \E by \in User, text \in Text : Seal(by, text)
  \/ LoseVolume \/ LoseText

Spec == Init /\ [][Next]_fileVars
=============================================================================
