--------------------------- MODULE MCCliArguments ---------------------------
(* The instance of CliArguments that TLC checks. *)
EXTENDS CliArguments

(* A plain word, words that look like flags of commands, and a lone dash. *)
Values == {<<"w">>, <<"-", "p">>, <<"-", "f">>, <<"-", "o">>, <<"-">>}

Commands == {"init", "add", "seal", "verify", "help", Nothing}

Symbols == Commands \cup {"aegis", "-", "p", "n", "f", "i", "o", "w"}
=============================================================================
