----------------------------- MODULE VaultRoster ----------------------------
(***************************************************************************)
(* What the vaults and their slot tables promise, without cryptography.    *)
(* A holder has a volume and possibly a roster of the users who may open   *)
(* it.  Users join a roster at its end, for as long as it has room, and    *)
(* are told their place; they are struck from it by place, never the last  *)
(* one, and a place is never given to someone else.  Rosters can be filed, *)
(* and a filed roster gives its volume to a user who was on it when it was *)
(* filed and to nobody else.                                               *)
(*                                                                         *)
(* Every call is answered: whose call it was, the place it was about or    *)
(* that it gave, and whether it was granted.                               *)
(***************************************************************************)
EXTENDS Naturals, Sequences

CONSTANTS
  Holder, User, Volume,
  Limit,      \* the places of a roster
  Struck,     \* the place of a user who was struck from a roster
  Nothing     \* no volume held, no roster, or no user

VARIABLES
  held,       \* what each holder has
  archive,    \* the filed rosters
  answer      \* to the last call

rosterVars == <<held, archive, answer>>

Active(roster) == {i \in DOMAIN roster : roster[i] # Struck}

Members(roster) == {roster[i] : i \in Active(roster)}

HasRoster(h) == held[h] # Nothing /\ held[h].roster # Nothing

Answer(call, user, place, granted) ==
  answer' = [call |-> call, user |-> user, place |-> place, granted |-> granted]

NoAnswer == Answer("none", Nothing, 0, TRUE)

Init ==
  /\ held = [h \in Holder |-> Nothing]
  /\ archive = {}
  /\ answer = [call |-> "none", user |-> Nothing, place |-> 0, granted |-> TRUE]

Take(h) ==
  /\ held[h] = Nothing
  /\ \E v \in Volume : held' = [held EXCEPT ![h] = [volume |-> v, roster |-> Nothing]]
  /\ NoAnswer
  /\ UNCHANGED archive

Release(h) ==
  /\ held[h] # Nothing
  /\ held' = [held EXCEPT ![h] = Nothing]
  /\ NoAnswer
  /\ UNCHANGED archive

Renew(h) ==
  /\ held[h] # Nothing
  /\ \E v \in Volume \ {held[h].volume} :
       held' = [held EXCEPT ![h] = [volume |-> v, roster |-> Nothing]]
  /\ NoAnswer
  /\ UNCHANGED archive

File(h) ==
  /\ HasRoster(h)
  /\ archive' = archive \cup {held[h]}
  /\ NoAnswer
  /\ UNCHANGED held

Found(h, u) ==
  /\ held[h] # Nothing
  /\ held' = [held EXCEPT ![h].roster = <<u>>]
  /\ Answer("found", u, 0, TRUE)
  /\ UNCHANGED archive

(* The first user to join founds the roster; a full one refuses. *)
Join(h, u) ==
  /\ held[h] # Nothing
  /\ LET old == IF held[h].roster = Nothing THEN <<>> ELSE held[h].roster
     IN  \/ /\ Len(old) < Limit
            /\ held' = [held EXCEPT ![h].roster = Append(old, u)]
            /\ Answer("join", u, Len(old) + 1, TRUE)
         \/ /\ Len(old) >= Limit
            /\ Answer("join", u, 0, FALSE)
            /\ UNCHANGED held
  /\ UNCHANGED archive

(* A user who was struck can be struck again. *)
Strike(h, i) ==
  /\ held[h] # Nothing
  /\ LET mayStrike == /\ HasRoster(h)
                      /\ i \in DOMAIN held[h].roster
                      /\ Active(held[h].roster) # {i}
     IN  \/ /\ mayStrike
            /\ held' = [held EXCEPT ![h].roster[i] = Struck]
            /\ Answer("strike", Nothing, i, TRUE)
         \/ /\ ~mayStrike
            /\ Answer("strike", Nothing, i, FALSE)
            /\ UNCHANGED held
  /\ UNCHANGED archive

(* What a user asks back may be damaged, or of someone else. *)
Restore(h, u) ==
  /\ held[h] # Nothing
  /\ \/ \E filed \in archive :
          /\ u \in Members(filed.roster)
          /\ held' = [held EXCEPT ![h] = filed]
          /\ Answer("restore", u, 0, TRUE)
     \/ /\ Answer("restore", u, 0, FALSE)
        /\ UNCHANGED held
  /\ UNCHANGED archive

(* A call that is about no roster. *)
Other == NoAnswer /\ UNCHANGED <<held, archive>>

Next ==
  \/ \E h \in Holder :
       \/ Take(h) \/ Release(h) \/ Renew(h) \/ File(h)
       \/ \E u \in User : Found(h, u) \/ Join(h, u) \/ Restore(h, u)
       \/ \E i \in 1 .. Limit + 1 : Strike(h, i)
  \/ Other

Spec == Init /\ [][Next]_rosterVars
=============================================================================
