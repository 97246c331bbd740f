---------------------------- MODULE CliArguments ----------------------------
(***************************************************************************)
(* bin/aegis.rs: how a command line becomes a command with its arguments.  *)
(* parse_args takes the word after a flag for its value, whatever it looks *)
(* like, and req then asks for the flags of the command one after another. *)
(* AegisCli begins where this ends.                                        *)
(*                                                                         *)
(* A word is the sequence of its characters, as far as they matter here.   *)
(* argv[k] of the code is argv[k + 1].                                     *)
(***************************************************************************)
EXTENDS Naturals, SequencesExt

CONSTANTS
  Symbol,   \* what words are made of
  Value,    \* the words people give for values
  Typed     \* the commands they type

VARIABLES
  line,     \* history: the line that was meant, and where it lacks a value
  argv,     \* what the system hands over
  i,        \* the word parse_args is at
  map,      \* the flags it has found
  asked,    \* how many flags req has looked for
  outcome   \* "none" yet, "runs" or "failed"

vars == <<line, argv, i, map, asked, outcome>>

(* The flags each command asks for, in this order. *)
Required(cmd) ==
  CASE cmd = "init"             -> <<"p", "o">>
    [] cmd = "add"              -> <<"p", "n", "f">>
    [] cmd \in {"seal", "open"} -> <<"p", "f", "i", "o">>
    [] cmd = "verify"           -> <<"p", "f">>
    [] OTHER                    -> <<>>

Known(cmd) == Required(cmd) # <<>>

Flags(cmd) == {Required(cmd)[k] : k \in DOMAIN Required(cmd)}

ASSUME ArgumentsAssumption ==
  /\ Typed \cup {"aegis", "-", "p", "n", "f", "i", "o"} \subseteq Symbol
  /\ Value \subseteq Seq(Symbol) \ {<<>>}

Dashed(word) == word # <<>> /\ Head(word) = "-"

-----------------------------------------------------------------------------
(* What people type: nothing at all, or a command and its flags in any order,
   each with its value, or one of them without. *)
Nothing == "nothing"

Lines ==
  UNION {[cmd     : {cmd},
          order   : Surjection(DOMAIN Required(cmd), Flags(cmd)),
          value   : [Flags(cmd) -> Value],
          lacking : 0 .. Len(Required(cmd))] : cmd \in Typed}

(* The line with all its values: flags are at 3, 5, ..., each before its value. *)
WholeLine(l) ==
  [w \in 1 .. 2 * Len(l.order) + 2 |->
     CASE w = 1                  -> <<"aegis">>
       [] w = 2                  -> <<l.cmd>>
       [] w > 2 /\ w % 2 = 1     -> <<"-", l.order[w \div 2]>>
       [] w > 2 /\ w % 2 = 0     -> l.value[l.order[w \div 2 - 1]]]

ArgvOf(l) ==
  CASE l.cmd = Nothing                      -> <<<<"aegis">>>>
    [] l.cmd # Nothing /\ l.lacking = 0     -> WholeLine(l)
    [] l.cmd # Nothing /\ l.lacking # 0     -> RemoveAt(WholeLine(l), 2 * l.lacking + 2)

-----------------------------------------------------------------------------
(* parse_args *)

NoCommand ==
  /\ Len(argv) < 2
  /\ outcome = "none"
  /\ outcome' = "failed"
  /\ UNCHANGED <<line, argv, i, map, asked>>

(* HashMap::insert. *)
Inserted(m, key, val) ==
  [k \in DOMAIN m \cup {key} |-> IF k = key THEN val ELSE m[k]]

Parsing == outcome = "none" /\ Len(argv) >= 2 /\ i < Len(argv)

(* Fault: the value is looked at again as if it were a flag. *)
NextWord_Value == i + 1

(* The word after a value. *)
NextWord == i + 2

Flag ==
  /\ Parsing
  /\ Dashed(argv[i + 1])
  /\ LET key == Tail(argv[i + 1])
         val == IF i + 1 < Len(argv) THEN argv[i + 2] ELSE <<>>
     IN  map' = Inserted(map, key, val)
  /\ i' = NextWord
  /\ UNCHANGED <<line, argv, asked, outcome>>

Skip ==
  /\ Parsing
  /\ ~Dashed(argv[i + 1])
  /\ i' = i + 1
  /\ UNCHANGED <<line, argv, map, asked, outcome>>

(* Fault: an empty value is one. *)
Has_Empty(k) == <<k>> \in DOMAIN map

(* The flag was given with a value. *)
Has(k) == <<k>> \in DOMAIN map /\ map[<<k>>] # <<>>

(* req, for the next flag of the command. *)
Req ==
  LET required == Required(line.cmd)
  IN  /\ outcome = "none" /\ Len(argv) >= 2 /\ i >= Len(argv)
      /\ asked < Len(required)
      /\ IF Has(required[asked + 1])
         THEN /\ asked' = asked + 1
              /\ outcome' = IF asked' = Len(required) THEN "runs" ELSE "none"
         ELSE outcome' = "failed" /\ UNCHANGED asked
      /\ UNCHANGED <<line, argv, i, map>>

UnknownCommand ==
  /\ outcome = "none" /\ Len(argv) >= 2 /\ i >= Len(argv)
  /\ ~Known(line.cmd)
  /\ outcome' = "failed"
  /\ UNCHANGED <<line, argv, i, map, asked>>

Init ==
  /\ line \in Lines
  /\ argv = ArgvOf(line)
  /\ i = 2
  /\ map = <<>>
  /\ asked = 0
  /\ outcome = "none"

Next == NoCommand \/ Flag \/ Skip \/ Req \/ UnknownCommand

Spec == Init /\ [][Next]_vars

-----------------------------------------------------------------------------
(* Safety                                                                  *)

(* parse_args stays within the words and what follows them, and a command that
   runs has a value for each of its flags (aegis.rs:43-69). *)
TypeOK ==
  /\ line \in Lines
  /\ argv \in Seq(Seq(Symbol)) /\ i \in 2 .. Len(argv) + 1
  /\ \A key \in DOMAIN map : key \in Seq(Symbol) /\ map[key] \in Seq(Symbol)
  /\ asked \in 0 .. Len(Required(line.cmd))
  /\ outcome \in {"none", "runs", "failed"}
  /\ outcome = "runs" => \A k \in Flags(line.cmd) : map[<<k>>] \in Seq(Symbol) \ {<<>>}

(* A command line as the usage has it runs, in any order of its flags, with
   just the values that were given: a passphrase or a file name that looks like
   a flag, or like a flag of the command, is a value all the same
   (aegis.rs:7-11, 51-60). *)
RunsAsTyped ==
  outcome # "none" /\ Known(line.cmd) /\ line.lacking = 0 =>
    outcome = "runs" /\ \A k \in Flags(line.cmd) : map[<<k>>] = line.value[k]

(* A command line with one value left out never runs.  The flag before the gap
   takes the next flag for its value, and its own value is then skipped or
   taken for a flag in turn: at the end some flag is without a value, so that
   no vault is made or searched under "-f" for a passphrase
   (aegis.rs:53-69). *)
OmissionNoticed == line.lacking # 0 => outcome # "runs"
=============================================================================
