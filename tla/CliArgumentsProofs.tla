------------------------- MODULE CliArgumentsProofs -------------------------
(***************************************************************************)
(* Theorems of the command line's arguments, for any words as values.      *)
(***************************************************************************)
EXTENDS CliArguments, FiniteSetTheorems, TLAPS

(* The lines, and the words they are handed over as.                       *)

LEMMA FlagLetters ==
  /\ "p" \in Symbol /\ "n" \in Symbol /\ "f" \in Symbol /\ "i" \in Symbol /\ "o" \in Symbol
  /\ "-" \in Symbol /\ "aegis" \in Symbol
BY ArgumentsAssumption

LEMMA RequiredType ==
  ASSUME NEW cmd
  PROVE  /\ Required(cmd) \in Seq(Symbol)
         /\ DOMAIN Required(cmd) = 1 .. Len(Required(cmd))
         /\ Len(Required(cmd)) \in 0 .. 4
         /\ Known(cmd) <=> Len(Required(cmd)) > 0
         /\ Known(cmd) => cmd # Nothing
<1>1. CASE cmd = "init"
  <2>1. Required(cmd) = <<"p", "o">>
    BY <1>1 DEF Required
  <2>2. Required(cmd) \in Seq(Symbol)
    BY <2>1, FlagLetters
  <2>3. /\ DOMAIN Required(cmd) = 1 .. Len(Required(cmd))
        /\ Len(Required(cmd)) \in 0 .. 4
        /\ Required(cmd) # <<>> <=> Len(Required(cmd)) > 0
    BY <2>1
  <2>4. cmd # Nothing
    BY <1>1 DEF Nothing
  <2>. QED
    BY <2>2, <2>3, <2>4 DEF Known
<1>2. CASE cmd = "add"
  <2>1. Required(cmd) = <<"p", "n", "f">>
    BY <1>2 DEF Required
  <2>2. Required(cmd) \in Seq(Symbol)
    BY <2>1, FlagLetters
  <2>3. /\ DOMAIN Required(cmd) = 1 .. Len(Required(cmd))
        /\ Len(Required(cmd)) \in 0 .. 4
        /\ Required(cmd) # <<>> <=> Len(Required(cmd)) > 0
    BY <2>1
  <2>4. cmd # Nothing
    BY <1>2 DEF Nothing
  <2>. QED
    BY <2>2, <2>3, <2>4 DEF Known
<1>3. CASE cmd \in {"seal", "open"}
  <2>1. Required(cmd) = <<"p", "f", "i", "o">>
    BY <1>3 DEF Required
  <2>2. Required(cmd) \in Seq(Symbol)
    BY <2>1, FlagLetters
  <2>3. /\ DOMAIN Required(cmd) = 1 .. Len(Required(cmd))
        /\ Len(Required(cmd)) \in 0 .. 4
        /\ Required(cmd) # <<>> <=> Len(Required(cmd)) > 0
    BY <2>1
  <2>4. cmd # Nothing
    BY <1>3 DEF Nothing
  <2>. QED
    BY <2>2, <2>3, <2>4 DEF Known
<1>4. CASE cmd = "verify"
  <2>1. Required(cmd) = <<"p", "f">>
    BY <1>4 DEF Required
  <2>2. Required(cmd) \in Seq(Symbol)
    BY <2>1, FlagLetters
  <2>3. /\ DOMAIN Required(cmd) = 1 .. Len(Required(cmd))
        /\ Len(Required(cmd)) \in 0 .. 4
        /\ Required(cmd) # <<>> <=> Len(Required(cmd)) > 0
    BY <2>1
  <2>4. cmd # Nothing
    BY <1>4 DEF Nothing
  <2>. QED
    BY <2>2, <2>3, <2>4 DEF Known
<1>5. CASE cmd \notin {"init", "add", "seal", "open", "verify"}
  <2>1. Required(cmd) = <<>>
    BY <1>5 DEF Required
  <2>2. Required(cmd) \in Seq(Symbol)
    BY <2>1, FlagLetters
  <2>3. /\ DOMAIN Required(cmd) = 1 .. Len(Required(cmd))
        /\ Len(Required(cmd)) \in 0 .. 4
        /\ Required(cmd) # <<>> <=> Len(Required(cmd)) > 0
    BY <2>1
  <2>. QED
    BY <2>1, <2>2, <2>3 DEF Known
<1>. QED
  BY <1>1, <1>2, <1>3, <1>4, <1>5

(* No command asks for a flag twice. *)
LEMMA FlagsCounted ==
  ASSUME NEW cmd
  PROVE  /\ IsFiniteSet(Flags(cmd))
         /\ Cardinality(Flags(cmd)) = Len(Required(cmd))
<1>1. ASSUME NEW S, NEW x, IsFiniteSet(S), x \notin S
      PROVE  IsFiniteSet(S \cup {x}) /\ Cardinality(S \cup {x}) = Cardinality(S) + 1
  BY <1>1, FS_AddElement
<1>2. ASSUME NEW a, NEW b, a # b
      PROVE  IsFiniteSet({a, b}) /\ Cardinality({a, b}) = 2
  <2>1. IsFiniteSet({a}) /\ Cardinality({a}) = 1
    BY FS_Singleton
  <2>2. {a, b} = {a} \cup {b} /\ b \notin {a}
    BY <1>2
  <2>. QED
    BY <1>1, <2>1, <2>2
<1>3. ASSUME NEW a, NEW b, NEW c, a # b, c \notin {a, b}
      PROVE  IsFiniteSet({a, b, c}) /\ Cardinality({a, b, c}) = 3
  <2>1. {a, b, c} = {a, b} \cup {c}
    OBVIOUS
  <2>2. IsFiniteSet({a, b}) /\ Cardinality({a, b}) = 2
    BY <1>2, <1>3
  <2>. QED
    BY <1>1, <1>3, <2>1, <2>2
<1>4. ASSUME NEW a, NEW b, NEW c, NEW d, a # b, c \notin {a, b}, d \notin {a, b, c}
      PROVE  IsFiniteSet({a, b, c, d}) /\ Cardinality({a, b, c, d}) = 4
  <2>1. {a, b, c, d} = {a, b, c} \cup {d}
    OBVIOUS
  <2>2. IsFiniteSet({a, b, c}) /\ Cardinality({a, b, c}) = 3
    BY <1>3, <1>4
  <2>. QED
    BY <1>1, <1>4, <2>1, <2>2
<1>5. CASE cmd = "init"
  <2>1. Required(cmd) = <<"p", "o">>
    BY <1>5 DEF Required
  <2>2. DOMAIN Required(cmd) = {1, 2}
    BY <2>1
  <2>3. Required(cmd)[1] = "p" /\ Required(cmd)[2] = "o"
    BY <2>1
  <2>4. Flags(cmd) = {"p", "o"}
    BY <2>2, <2>3 DEF Flags
  <2>5. Len(Required(cmd)) = 2
    BY <2>1
  <2>6. IsFiniteSet({"p", "o"}) /\ Cardinality({"p", "o"}) = 2
    BY <1>2
  <2>. QED
    BY <2>4, <2>5, <2>6
<1>6. CASE cmd = "add"
  <2>1. Required(cmd) = <<"p", "n", "f">>
    BY <1>6 DEF Required
  <2>2. DOMAIN Required(cmd) = {1, 2, 3}
    BY <2>1
  <2>3. Required(cmd)[1] = "p" /\ Required(cmd)[2] = "n" /\ Required(cmd)[3] = "f"
    BY <2>1
  <2>4. Flags(cmd) = {"p", "n", "f"}
    BY <2>2, <2>3 DEF Flags
  <2>5. Len(Required(cmd)) = 3
    BY <2>1
  <2>6. IsFiniteSet({"p", "n", "f"}) /\ Cardinality({"p", "n", "f"}) = 3
    BY <1>3
  <2>. QED
    BY <2>4, <2>5, <2>6
<1>7. CASE cmd \in {"seal", "open"}
  <2>1. Required(cmd) = <<"p", "f", "i", "o">>
    BY <1>7 DEF Required
  <2>2. DOMAIN Required(cmd) = {1, 2, 3, 4}
    BY <2>1
  <2>3. /\ Required(cmd)[1] = "p"
        /\ Required(cmd)[2] = "f"
        /\ Required(cmd)[3] = "i"
        /\ Required(cmd)[4] = "o"
    BY <2>1
  <2>4. Flags(cmd) = {"p", "f", "i", "o"}
    BY <2>2, <2>3 DEF Flags
  <2>5. Len(Required(cmd)) = 4
    BY <2>1
  <2>6. IsFiniteSet({"p", "f", "i", "o"}) /\ Cardinality({"p", "f", "i", "o"}) = 4
    BY <1>4
  <2>. QED
    BY <2>4, <2>5, <2>6
<1>8. CASE cmd = "verify"
  <2>1. Required(cmd) = <<"p", "f">>
    BY <1>8 DEF Required
  <2>2. DOMAIN Required(cmd) = {1, 2}
    BY <2>1
  <2>3. Required(cmd)[1] = "p" /\ Required(cmd)[2] = "f"
    BY <2>1
  <2>4. Flags(cmd) = {"p", "f"}
    BY <2>2, <2>3 DEF Flags
  <2>5. Len(Required(cmd)) = 2
    BY <2>1
  <2>6. IsFiniteSet({"p", "f"}) /\ Cardinality({"p", "f"}) = 2
    BY <1>2
  <2>. QED
    BY <2>4, <2>5, <2>6
<1>9. CASE cmd \notin {"init", "add", "seal", "open", "verify"}
  <2>1. Required(cmd) = <<>>
    BY <1>9 DEF Required
  <2>4. Flags(cmd) = {}
    BY <2>1 DEF Flags
  <2>5. Len(Required(cmd)) = 0
    BY <2>1
  <2>6. IsFiniteSet({}) /\ Cardinality({}) = 0
    BY FS_EmptySet
  <2>. QED
    BY <2>4, <2>5, <2>6
<1>. QED
  BY <1>5, <1>6, <1>7, <1>8, <1>9

LEMMA LineType ==
  ASSUME NEW l \in Lines
  PROVE  /\ l.cmd \in Typed
         /\ l.order \in Seq(Flags(l.cmd))
         /\ Len(l.order) = Len(Required(l.cmd))
         /\ \A k \in Flags(l.cmd) : \E j \in 1 .. Len(l.order) : l.order[j] = k
         /\ l.value \in [Flags(l.cmd) -> Value]
         /\ l.lacking \in 0 .. Len(l.order)
<1>1. PICK cmd \in Typed :
        l \in [cmd     : {cmd},
               order   : Surjection(DOMAIN Required(cmd), Flags(cmd)),
               value   : [Flags(cmd) -> Value],
               lacking : 0 .. Len(Required(cmd))]
  BY DEF Lines
<1>2. /\ l.cmd = cmd
      /\ l.order \in Surjection(1 .. Len(Required(cmd)), Flags(cmd))
      /\ l.value \in [Flags(cmd) -> Value]
      /\ l.lacking \in 0 .. Len(Required(cmd))
  BY <1>1, RequiredType
<1>3. /\ l.order \in [1 .. Len(Required(cmd)) -> Flags(cmd)]
      /\ \A k \in Flags(cmd) : \E j \in 1 .. Len(Required(cmd)) : l.order[j] = k
  BY <1>2 DEF Surjection
<1>4. Len(Required(cmd)) \in Nat
  BY RequiredType
<1>5. l.order \in Seq(Flags(cmd)) /\ Len(l.order) = Len(Required(cmd))
  BY <1>3, <1>4
<1>. QED
  BY <1>1, <1>2, <1>3, <1>5

LEMMA FlagsAreSymbols ==
  ASSUME NEW cmd
  PROVE  Flags(cmd) \subseteq Symbol
BY RequiredType DEF Flags

LEMMA OddAndEven ==
  ASSUME NEW n \in Nat
  PROVE  /\ \A j \in Nat : (2 * j + 1) % 2 = 1 /\ (2 * j + 1) \div 2 = j
         /\ \A j \in Nat : (2 * j + 2) % 2 = 0 /\ (2 * j + 2) \div 2 - 1 = j
         /\ \A w \in 3 .. 2 * n + 2 : \E j \in 1 .. n : w = 2 * j + 1 \/ w = 2 * j + 2
<1>1. ASSUME NEW w \in 3 .. 2 * n + 2
      PROVE  \E j \in 1 .. n : w = 2 * j + 1 \/ w = 2 * j + 2
  <2>1. (w - 1) \div 2 \in 1 .. n
    OBVIOUS
  <2>2. w = 2 * ((w - 1) \div 2) + 1 \/ w = 2 * ((w - 1) \div 2) + 2
    OBVIOUS
  <2>. QED
    BY <2>1, <2>2
<1>. QED
  BY <1>1

(* Where the flags and the values stand. *)
LEMMA WholeLineWords ==
  ASSUME NEW l \in Lines
  PROVE  /\ WholeLine(l) \in Seq(Seq(Symbol))
         /\ Len(WholeLine(l)) = 2 * Len(l.order) + 2
         /\ \A j \in 1 .. Len(l.order) :
              /\ WholeLine(l)[2 * j + 1] = <<"-", l.order[j]>>
              /\ WholeLine(l)[2 * j + 2] = l.value[l.order[j]]
<1>. DEFINE n == Len(l.order)
            W == WholeLine(l)
<1>1. n \in Nat
  BY LineType
<1>2. ASSUME NEW w \in 1 .. 2 * n + 2
      PROVE  \/ w = 1 \/ w = 2
             \/ \E j \in 1 .. n : w = 2 * j + 1 \/ w = 2 * j + 2
  <2>1. w = 1 \/ w = 2 \/ w \in 3 .. 2 * n + 2
    BY <1>1
  <2>. QED
    BY <1>1, <2>1, OddAndEven
<1>3. ASSUME NEW j \in 1 .. n
      PROVE  /\ W[2 * j + 1] = <<"-", l.order[j]>>
             /\ W[2 * j + 2] = l.value[l.order[j]]
  <2>. /\ j \in Nat
       /\ 2 * j + 1 \in 1 .. 2 * n + 2 /\ 2 * j + 2 \in 1 .. 2 * n + 2
       /\ 2 * j + 1 > 2 /\ 2 * j + 2 > 2
    BY <1>1
  <2>1. (2 * j + 1) % 2 = 1 /\ (2 * j + 1) \div 2 = j
    BY OddAndEven
  <2>2. (2 * j + 2) % 2 = 0 /\ (2 * j + 2) \div 2 - 1 = j
    BY OddAndEven
  <2>3. W[2 * j + 1] = <<"-", l.order[(2 * j + 1) \div 2]>>
    <3>1. \A w \in 1 .. 2 * n + 2 : w > 2 /\ w % 2 = 1 => W[w] = <<"-", l.order[w \div 2]>>
      BY DEF WholeLine
    <3>. HIDE DEF W
    <3>. QED
      BY <2>1, <3>1
  <2>4. W[2 * j + 2] = l.value[l.order[(2 * j + 2) \div 2 - 1]]
    BY <2>2 DEF WholeLine
  <2>. QED
    BY <2>1, <2>2, <2>3, <2>4
<1>4. ASSUME NEW w \in 1 .. 2 * n + 2
      PROVE  W[w] \in Seq(Symbol)
  <2>1. CASE w = 1
    <3>1. W[1] = <<"aegis">>
      BY <1>1 DEF WholeLine
    <3>. QED
      BY <2>1, <3>1, FlagLetters
  <2>2. CASE w = 2
    <3>1. W[2] = <<l.cmd>>
      BY <1>1 DEF WholeLine
    <3>2. l.cmd \in Symbol
      BY LineType, ArgumentsAssumption
    <3>. QED
      BY <2>2, <3>1, <3>2
  <2>3. ASSUME NEW j \in 1 .. n
        PROVE  W[2 * j + 1] \in Seq(Symbol) /\ W[2 * j + 2] \in Seq(Symbol)
    <3>1. l.order[j] \in Flags(l.cmd)
      BY LineType
    <3>2. l.order[j] \in Symbol /\ l.value[l.order[j]] \in Seq(Symbol)
      BY <3>1, FlagsAreSymbols, LineType, ArgumentsAssumption
    <3>3. <<"-", l.order[j]>> \in Seq(Symbol)
      BY <3>2, FlagLetters
    <3>. HIDE DEF W
    <3>. QED
      BY <1>3, <3>2, <3>3
  <2>. QED
    BY <2>1, <2>2, <2>3, <1>2
<1>5. W \in [1 .. 2 * n + 2 -> Seq(Symbol)]
  BY <1>4 DEF WholeLine
<1>6. 2 * n + 2 \in Nat
  BY <1>1
<1>7. W \in Seq(Seq(Symbol)) /\ Len(W) = 2 * n + 2
  BY <1>5, <1>6
<1>. QED
  BY <1>3, <1>7

(* A value left out is a word less. *)
LEMMA ArgvType ==
  ASSUME NEW l \in Lines
  PROVE  /\ ArgvOf(l) \in Seq(Seq(Symbol))
         /\ l.cmd = Nothing => Len(ArgvOf(l)) = 1
         /\ l.cmd # Nothing /\ l.lacking = 0 => ArgvOf(l) = WholeLine(l)
         /\ l.cmd # Nothing /\ l.lacking # 0 => Len(ArgvOf(l)) = 2 * Len(l.order) + 1
<1>1. CASE l.cmd = Nothing
  <2>1. ArgvOf(l) = <<<<"aegis">>>>
    BY <1>1 DEF ArgvOf
  <2>2. <<"aegis">> \in Seq(Symbol)
    BY FlagLetters
  <2>. QED
    BY <2>1, <2>2, <1>1
<1>2. CASE l.cmd # Nothing /\ l.lacking = 0
  BY <1>2, WholeLineWords DEF ArgvOf
<1>3. CASE l.cmd # Nothing /\ l.lacking # 0
  <2>. DEFINE n == Len(l.order)
              W == WholeLine(l)
              at == 2 * l.lacking + 2
  <2>1. ArgvOf(l) = SubSeq(W, 1, at - 1) \o SubSeq(W, at + 1, Len(W))
    BY <1>3 DEF ArgvOf, RemoveAt
  <2>2. /\ n \in Nat /\ at \in 1 .. 2 * n + 2
        /\ W \in Seq(Seq(Symbol)) /\ Len(W) = 2 * n + 2
    BY <1>3, LineType, WholeLineWords
  <2>. HIDE DEF n, W, at
  <2>3. /\ SubSeq(W, 1, at - 1) \in Seq(Seq(Symbol))
        /\ Len(SubSeq(W, 1, at - 1)) = at - 1
    BY <2>2
  <2>4. /\ SubSeq(W, at + 1, Len(W)) \in Seq(Seq(Symbol))
        /\ Len(SubSeq(W, at + 1, Len(W))) = 2 * n + 2 - at
    BY <2>2
  <2>5. Len(ArgvOf(l)) = (at - 1) + (2 * n + 2 - at) /\ ArgvOf(l) \in Seq(Seq(Symbol))
    BY <2>1, <2>3, <2>4
  <2>6. Len(ArgvOf(l)) = 2 * n + 1
    BY <2>2, <2>5
  <2>. QED
    BY <1>3, <2>5, <2>6 DEF n
<1>. QED
  BY <1>1, <1>2, <1>3

LEMMA SomeWord ==
  ASSUME NEW l \in Lines
  PROVE  Len(ArgvOf(l)) \in Nat /\ Len(ArgvOf(l)) >= 1
<1>1. Len(l.order) \in Nat
  BY LineType
<1>2. CASE l.cmd = Nothing
  <2>1. Len(ArgvOf(l)) = 1
    BY <1>2, ArgvType
  <2>. QED
    BY <2>1
<1>3. CASE l.cmd # Nothing /\ l.lacking = 0
  <2>1. Len(ArgvOf(l)) = 2 * Len(l.order) + 2
    BY <1>3, ArgvType, WholeLineWords
  <2>. QED
    BY <1>1, <2>1
<1>4. CASE l.cmd # Nothing /\ l.lacking # 0
  <2>1. Len(ArgvOf(l)) = 2 * Len(l.order) + 1
    BY <1>4, ArgvType
  <2>. QED
    BY <1>1, <2>1
<1>. QED
  BY <1>2, <1>3, <1>4

-----------------------------------------------------------------------------
(* What is found, and what is asked for.                                   *)

Words ==
  /\ line \in Lines
  /\ argv = ArgvOf(line)
  /\ i \in 2 .. Len(argv) + 1
  /\ \A key \in DOMAIN map : key \in Seq(Symbol) /\ map[key] \in Seq(Symbol)

(* The flags asked for so far were there, and nothing is asked for before the
   last word. *)
Asked ==
  /\ asked \in 0 .. Len(Required(line.cmd))
  /\ outcome \in {"none", "runs", "failed"}
  /\ asked > 0 => i >= Len(argv)
  /\ \A j \in 1 .. asked : Has(Required(line.cmd)[j])
  /\ outcome = "runs" => asked > 0 /\ asked = Len(Required(line.cmd))

ArgInv == Words /\ Asked

LEMMA ArgvWords ==
  ASSUME Words
  PROVE  argv \in Seq(Seq(Symbol)) /\ Len(argv) \in Nat /\ Len(argv) >= 1 /\ i \in Nat
<1>1. argv \in Seq(Seq(Symbol))
  BY ArgvType DEF Words
<1>2. Len(argv) \in Nat /\ Len(argv) >= 1
  BY SomeWord DEF Words
<1>. QED
  BY <1>1, <1>2 DEF Words

(* The flag that is found, and its value: the next word, or none. *)
Key   == Tail(argv[i + 1])
Found == IF i + 1 < Len(argv) THEN argv[i + 2] ELSE <<>>

LEMMA FoundType ==
  ASSUME Words, i < Len(argv), Dashed(argv[i + 1])
  PROVE  Key \in Seq(Symbol) /\ Found \in Seq(Symbol)
<1>1. /\ argv \in Seq(Seq(Symbol)) /\ i \in Nat /\ Len(argv) \in Nat
      /\ i + 1 \in 1 .. Len(argv)
  BY ArgvWords
<1>2. argv[i + 1] \in Seq(Symbol) /\ argv[i + 1] # <<>>
  BY <1>1 DEF Dashed
<1>3. Key \in Seq(Symbol)
  BY <1>2 DEF Key
<1>4. CASE i + 1 < Len(argv)
  <2>1. i + 2 \in 1 .. Len(argv)
    BY <1>1, <1>4
  <2>2. argv[i + 2] \in Seq(Symbol)
    BY <1>1, <2>1
  <2>. QED
    BY <1>3, <1>4, <2>2 DEF Found
<1>5. CASE ~(i + 1 < Len(argv))
  BY <1>3, <1>5 DEF Found
<1>. QED
  BY <1>4, <1>5

LEMMA InitArgs == Init => ArgInv
<1>. SUFFICES ASSUME Init
              PROVE  ArgInv
  OBVIOUS
<1>1. line \in Lines /\ argv = ArgvOf(line) /\ i = 2 /\ DOMAIN map = {} /\ asked = 0
      /\ outcome = "none"
  BY DEF Init
<1>2. Len(argv) \in Nat /\ Len(argv) >= 1
  BY <1>1, SomeWord
<1>3. Words
  BY <1>1, <1>2 DEF Words
<1>4. Asked
  BY <1>1, RequiredType DEF Asked
<1>. QED
  BY <1>3, <1>4 DEF ArgInv

LEMMA StepArgs == ArgInv /\ [Next]_vars => ArgInv'
<1>. SUFFICES ASSUME ArgInv, [Next]_vars
              PROVE  ArgInv'
  OBVIOUS
<1>. USE DEF ArgInv
<1>0. /\ argv \in Seq(Seq(Symbol)) /\ Len(argv) \in Nat /\ i \in Nat /\ Len(argv) >= 1
      /\ Len(Required(line.cmd)) \in Nat /\ asked \in Nat
  BY ArgvWords, RequiredType DEF Asked
<1>1. CASE NoCommand
  <2>1. Words'
    BY <1>1 DEF NoCommand, Words
  <2>2. Asked'
    BY <1>1 DEF NoCommand, Asked, Has
  <2>. QED
    BY <2>1, <2>2
<1>2. CASE Flag
  <2>1. /\ i < Len(argv) /\ Dashed(argv[i + 1]) /\ outcome = "none"
        /\ map' = Inserted(map, Key, Found) /\ i' = i + 2
        /\ line' = line /\ argv' = argv /\ asked' = asked /\ outcome' = outcome
    BY <1>2 DEF Flag, Parsing, NextWord, Key, Found
  <2>2. asked = 0
    BY <1>0, <2>1 DEF Asked
  <2>3. ASSUME NEW key \in DOMAIN map'
        PROVE  key \in Seq(Symbol) /\ map'[key] \in Seq(Symbol)
    <3>1. map'[key] = IF key = Key THEN Found ELSE map[key]
      BY <2>1 DEF Inserted
    <3>2. key \in DOMAIN map \cup {Key}
      BY <2>1 DEF Inserted
    <3>. QED
      BY <2>1, <3>1, <3>2, FoundType DEF Words
  <2>4. i' \in 2 .. Len(argv') + 1
    BY <1>0, <2>1 DEF Words
  <2>5. Words'
    BY <2>1, <2>3, <2>4 DEF Words
  <2>6. Asked'
    BY <2>1, <2>2 DEF Asked
  <2>. QED
    BY <2>5, <2>6
<1>3. CASE Skip
  <2>1. /\ i < Len(argv) /\ i' = i + 1 /\ outcome = "none"
        /\ UNCHANGED <<line, argv, map, asked, outcome>>
    BY <1>3 DEF Skip, Parsing
  <2>2. Words'
    BY <1>0, <2>1 DEF Words
  <2>3. asked = 0
    BY <1>0, <2>1 DEF Asked
  <2>4. Asked'
    BY <2>1, <2>3 DEF Asked
  <2>. QED
    BY <2>2, <2>4
<1>4. CASE Req
  <2>1. /\ i >= Len(argv) /\ asked < Len(Required(line.cmd)) /\ outcome = "none"
        /\ UNCHANGED <<line, argv, i, map>>
    BY <1>4 DEF Req
  <2>2. Words'
    BY <2>1 DEF Words
  <2>3. CASE Has(Required(line.cmd)[asked + 1])
    <3>1. /\ asked' = asked + 1
          /\ outcome' = IF asked' = Len(Required(line.cmd)) THEN "runs" ELSE "none"
      BY <1>4, <2>3 DEF Req
    <3>2. ASSUME NEW j \in 1 .. asked'
          PROVE  Has(Required(line.cmd)[j])'
      <4>1. j \in 1 .. asked \/ j = asked + 1
        BY <1>0, <3>1
      <4>2. Has(Required(line.cmd)[j])
        BY <2>3, <4>1 DEF Asked
      <4>. QED
        BY <2>1, <4>2 DEF Has
    <3>3. asked' \in 0 .. Len(Required(line.cmd)) /\ asked' > 0
      BY <1>0, <2>1, <3>1
    <3>4. Asked'
      BY <2>1, <3>1, <3>2, <3>3 DEF Asked
    <3>. QED
      BY <2>2, <3>4
  <2>4. CASE ~Has(Required(line.cmd)[asked + 1])
    <3>1. asked' = asked /\ outcome' = "failed"
      BY <1>4, <2>4 DEF Req
    <3>2. Asked'
      BY <2>1, <3>1 DEF Asked, Has
    <3>. QED
      BY <2>2, <3>2
  <2>. QED
    BY <2>3, <2>4
<1>5. CASE UnknownCommand
  <2>1. Words'
    BY <1>5 DEF UnknownCommand, Words
  <2>2. Asked'
    BY <1>5 DEF UnknownCommand, Asked, Has
  <2>. QED
    BY <2>1, <2>2
<1>6. CASE UNCHANGED vars
  BY <1>6 DEF vars, Words, Asked, Has
<1>. QED
  BY <1>1, <1>2, <1>3, <1>4, <1>5, <1>6 DEF Next

LEMMA ArgInvariant == Spec => []ArgInv
BY InitArgs, StepArgs, PTL DEF Spec

(* A command that runs has every flag it asks for. *)
LEMMA RunsWithAll ==
  ASSUME ArgInv, outcome = "runs"
  PROVE  /\ Known(line.cmd) /\ i >= Len(argv)
         /\ \A k \in Flags(line.cmd) : Has(k)
<1>1. asked > 0 /\ asked = Len(Required(line.cmd)) /\ i >= Len(argv)
  BY DEF ArgInv, Asked
<1>2. ASSUME NEW k \in Flags(line.cmd)
      PROVE  Has(k)
  <2>1. PICK j \in 1 .. asked : k = Required(line.cmd)[j]
    BY <1>1, RequiredType DEF Flags
  <2>. QED
    BY <2>1 DEF ArgInv, Asked
<1>. QED
  BY <1>1, <1>2, RequiredType

(* The words, the flags found and the outcome are of their types, and a command
   that runs has a value for each of its flags (aegis.rs:43-69). *)
THEOREM ArgumentsTypeCorrect == Spec => []TypeOK
<1>1. ArgInv => TypeOK
  <2>. SUFFICES ASSUME ArgInv
                PROVE  TypeOK
    OBVIOUS
  <2>1. argv \in Seq(Seq(Symbol))
    BY ArgvWords DEF ArgInv
  <2>2. ASSUME outcome = "runs", NEW k \in Flags(line.cmd)
        PROVE  map[<<k>>] \in Seq(Symbol) \ {<<>>}
    BY <2>2, RunsWithAll DEF ArgInv, Words, Has
  <2>. QED
    BY <2>1, <2>2 DEF TypeOK, ArgInv, Words, Asked
<1>. QED
  BY <1>1, ArgInvariant, PTL


-----------------------------------------------------------------------------
(* A value left out: every flag found with a value has used up two words.  *)

Given == {k \in Flags(line.cmd) : Has(k)}

Seen == IF i <= Len(argv) THEN i ELSE Len(argv)

TwoWordsEach == 2 * Cardinality(Given) + 2 <= Seen

OmissionInv ==
  line.lacking # 0 => TwoWordsEach

LEMMA GivenFinite ==
  /\ IsFiniteSet(Given) /\ Cardinality(Given) \in Nat
  /\ \A S : S \subseteq Given => IsFiniteSet(S) /\ Cardinality(S) <= Cardinality(Given)
<1>1. Given \in SUBSET Flags(line.cmd)
  BY DEF Given
<1>2. IsFiniteSet(Given)
  BY <1>1, FlagsCounted, FS_Subset
<1>. QED
  BY <1>2, FS_Subset, FS_CardinalityType

(* A flag without a word after it counts for nothing, and one with a word for
   one at most. *)
LEMMA FlagGives ==
  ASSUME Words, Flag
  PROVE  /\ i + 1 >= Len(argv) => Given' \subseteq Given
         /\ \E k : Given' \subseteq Given \cup {k}
<1>1. map' = Inserted(map, Key, Found) /\ line' = line
  BY DEF Flag, Key, Found
<1>2. ASSUME NEW k \in Given', <<k>> # Key
      PROVE  k \in Given
  <2>1. k \in Flags(line.cmd) /\ <<k>> \in DOMAIN map' /\ map'[<<k>>] # <<>>
    BY <1>1 DEF Given, Has
  <2>2. <<k>> \in DOMAIN map /\ map'[<<k>>] = map[<<k>>]
    BY <1>1, <1>2, <2>1 DEF Inserted
  <2>. QED
    BY <2>1, <2>2 DEF Given, Has
<1>3. ASSUME NEW k \in Given', <<k>> = Key
      PROVE  k = Key[1] /\ i + 1 < Len(argv)
  <2>1. <<k>> \in DOMAIN map' /\ map'[<<k>>] # <<>>
    BY DEF Given, Has
  <2>2. map'[<<k>>] = Found
    BY <1>1, <1>3, <2>1 DEF Inserted
  <2>3. i + 1 < Len(argv)
    BY <2>1, <2>2 DEF Found
  <2>4. <<k>>[1] = k
    OBVIOUS
  <2>. QED
    BY <1>3, <2>3, <2>4
<1>4. i + 1 >= Len(argv) => Given' \subseteq Given
  <2>1. i \in Nat /\ Len(argv) \in Nat
    BY ArgvWords
  <2>2. i + 1 >= Len(argv) => ~(i + 1 < Len(argv))
    BY <2>1
  <2>. QED
    BY <1>2, <1>3, <2>2
<1>5. Given' \subseteq Given \cup {Key[1]}
  BY <1>2, <1>3
<1>. QED
  BY <1>4, <1>5

LEMMA FlagCounts ==
  ASSUME Words, Flag
  PROVE  TwoWordsEach => TwoWordsEach'
<1>. SUFFICES ASSUME TwoWordsEach
              PROVE  TwoWordsEach'
  OBVIOUS
<1>1. /\ i < Len(argv) /\ i' = i + 2 /\ argv' = argv
      /\ i \in Nat /\ Len(argv) \in Nat
  BY ArgvWords DEF Flag, Parsing, NextWord
<1>2. Cardinality(Given) \in Nat /\ 2 * Cardinality(Given) + 2 <= i
  BY <1>1, GivenFinite DEF TwoWordsEach, Seen
<1>3. CASE i + 1 >= Len(argv)
  <2>1. Cardinality(Given') <= Cardinality(Given) /\ IsFiniteSet(Given')
    BY <1>3, FlagGives, GivenFinite
  <2>2. Cardinality(Given') \in Nat
    BY <2>1, FS_CardinalityType
  <2>3. Seen' = Len(argv)
    BY <1>1, <1>3 DEF Seen
  <2>4. 2 * Cardinality(Given') + 2 <= Seen'
    BY <1>1, <1>2, <2>1, <2>2, <2>3
  <2>. QED
    BY <2>4 DEF TwoWordsEach
<1>4. CASE i + 2 <= Len(argv)
  <2>1. PICK k : Given' \subseteq Given \cup {k}
    BY FlagGives
  <2>2. IsFiniteSet(Given \cup {k}) /\ Cardinality(Given \cup {k}) <= Cardinality(Given) + 1
    BY <1>2, GivenFinite, FS_AddElement
  <2>3. IsFiniteSet(Given') /\ Cardinality(Given') <= Cardinality(Given \cup {k})
    BY <2>1, <2>2, FS_Subset
  <2>4. Cardinality(Given') \in Nat /\ Cardinality(Given \cup {k}) \in Nat
    BY <2>2, <2>3, FS_CardinalityType
  <2>5. Seen' = i + 2
    BY <1>1, <1>4 DEF Seen
  <2>6. 2 * Cardinality(Given') + 2 <= Seen'
    BY <1>1, <1>2, <2>2, <2>3, <2>4, <2>5
  <2>. QED
    BY <2>6 DEF TwoWordsEach
<1>5. i + 1 >= Len(argv) \/ i + 2 <= Len(argv)
  BY <1>1
<1>. QED
  BY <1>3, <1>4, <1>5

LEMMA InitOmission == Init => OmissionInv
<1>. SUFFICES ASSUME Init, line.lacking # 0
              PROVE  TwoWordsEach
  BY DEF OmissionInv
<1>1. line \in Lines /\ argv = ArgvOf(line) /\ i = 2 /\ DOMAIN map = {}
  BY DEF Init
<1>2. Given = {}
  BY <1>1 DEF Given, Has
<1>3. Cardinality(Given) = 0
  BY <1>2, FS_EmptySet
<1>4. line.cmd # Nothing /\ Len(line.order) \in Nat /\ Len(line.order) >= 1
  <2>1. Len(line.order) = Len(Required(line.cmd)) /\ line.lacking \in 0 .. Len(line.order)
    BY <1>1, LineType
  <2>2. Len(Required(line.cmd)) \in Nat /\ (Known(line.cmd) <=> Len(Required(line.cmd)) > 0)
    BY RequiredType
  <2>3. Len(Required(line.cmd)) > 0
    BY <2>1, <2>2
  <2>. QED
    BY <2>1, <2>2, <2>3, RequiredType
<1>5. Len(argv) = 2 * Len(line.order) + 1
  BY <1>1, <1>4, ArgvType
<1>6. Seen = 2
  BY <1>1, <1>4, <1>5 DEF Seen
<1>. QED
  BY <1>3, <1>6 DEF TwoWordsEach

LEMMA StepOmission == ArgInv /\ OmissionInv /\ [Next]_vars => OmissionInv'
<1>. SUFFICES ASSUME ArgInv, OmissionInv, [Next]_vars
              PROVE  OmissionInv'
  OBVIOUS
<1>1. CASE Flag
  <2>1. line' = line
    BY <1>1 DEF Flag
  <2>. QED
    BY <1>1, <2>1, FlagCounts DEF OmissionInv, ArgInv
<1>2. CASE Skip
  <2>1. /\ i < Len(argv) /\ i' = i + 1 /\ line' = line /\ argv' = argv /\ map' = map
    BY <1>2 DEF Skip, Parsing
  <2>2. i \in Nat /\ Len(argv) \in Nat
    BY ArgvWords DEF ArgInv
  <2>3. Seen = i /\ Seen' = i + 1
    BY <2>1, <2>2 DEF Seen
  <2>4. Given' = Given
    BY <2>1 DEF Given, Has
  <2>5. Cardinality(Given) \in Nat
    BY GivenFinite
  <2>6. TwoWordsEach => TwoWordsEach'
    BY <2>2, <2>3, <2>4, <2>5 DEF TwoWordsEach
  <2>. QED
    BY <2>1, <2>6 DEF OmissionInv
<1>3. CASE NoCommand \/ Req \/ UnknownCommand \/ UNCHANGED vars
  <2>1. line' = line /\ argv' = argv /\ i' = i /\ map' = map
    BY <1>3 DEF NoCommand, Req, UnknownCommand, vars
  <2>2. Given' = Given /\ Seen' = Seen
    BY <2>1 DEF Given, Seen, Has
  <2>. QED
    BY <2>1, <2>2 DEF OmissionInv, TwoWordsEach
<1>. QED
  BY <1>1, <1>2, <1>3 DEF Next

(* A command line with one value left out never runs, whatever its other values
   look like (aegis.rs:53-69): to run it would have to find each of its flags
   with a value, in two words each, and it is a word short. *)
THEOREM OmissionsNoticed == Spec => []OmissionNoticed
<1>1. Spec => []OmissionInv
  BY InitOmission, StepOmission, ArgInvariant, PTL DEF Spec
<1>2. ArgInv /\ OmissionInv => OmissionNoticed
  <2>. SUFFICES ASSUME ArgInv, OmissionInv, line.lacking # 0, outcome = "runs"
                PROVE  FALSE
    BY DEF OmissionNoticed
  <2>1. Given = Flags(line.cmd) /\ Known(line.cmd)
    BY RunsWithAll DEF Given
  <2>2. Cardinality(Given) = Len(Required(line.cmd)) /\ line.cmd # Nothing
    BY <2>1, FlagsCounted, RequiredType
  <2>3. Len(argv) = 2 * Len(line.order) + 1 /\ Len(line.order) = Len(Required(line.cmd))
    BY <2>2, ArgvType, LineType DEF ArgInv, Words
  <2>4. 2 * Cardinality(Given) + 2 <= Seen
    BY DEF OmissionInv, TwoWordsEach
  <2>5. i \in Nat /\ Len(argv) \in Nat /\ Len(Required(line.cmd)) \in Nat
    BY ArgvWords, RequiredType DEF ArgInv
  <2>6. Seen <= Len(argv)
    BY <2>5 DEF Seen
  <2>7. Seen \in Nat
    BY <2>5 DEF Seen
  <2>. QED
    BY <2>2, <2>3, <2>4, <2>5, <2>6, <2>7
<1>. QED
  BY <1>1, <1>2, ArgInvariant, PTL


-----------------------------------------------------------------------------
(* A whole line: after 2 * j words of flags and values, what is found is the
   first j flags with their values. *)

Whole == Known(line.cmd) /\ line.lacking = 0

FoundAsTyped(j) ==
  /\ i = 2 * j + 2
  /\ \A k \in 1 .. j : /\ <<line.order[k]>> \in DOMAIN map
                       /\ map[<<line.order[k]>>] = line.value[line.order[k]]

WholeInv ==
  Whole => outcome # "failed" /\ \E j \in 0 .. Len(line.order) : FoundAsTyped(j)

LEMMA WholeArgv ==
  ASSUME Words, Whole
  PROVE  /\ argv = WholeLine(line) /\ Len(argv) = 2 * Len(line.order) + 2
         /\ Len(line.order) \in Nat /\ Len(line.order) > 0
<1>1. line \in Lines /\ argv = ArgvOf(line) /\ Known(line.cmd) /\ line.lacking = 0
  BY DEF Words, Whole
<1>2. line.cmd # Nothing /\ Len(line.order) = Len(Required(line.cmd))
  BY <1>1, RequiredType, LineType
<1>3. Len(line.order) \in Nat /\ Len(line.order) > 0
  BY <1>1, <1>2, RequiredType
<1>. QED
  BY <1>1, <1>2, <1>3, ArgvType, WholeLineWords

(* What Flag finds is the next flag and its value. *)
LEMMA NextFlag ==
  ASSUME Words, Whole, NEW j \in 0 .. Len(line.order), FoundAsTyped(j), i < Len(argv)
  PROVE  /\ j + 1 \in 1 .. Len(line.order)
         /\ Dashed(argv[i + 1])
         /\ Key = <<line.order[j + 1]>>
         /\ Found = line.value[line.order[j + 1]]
<1>1. j + 1 \in 1 .. Len(line.order)
  BY WholeArgv DEF FoundAsTyped
<1>2. /\ i + 1 = 2 * (j + 1) + 1 /\ i + 2 = 2 * (j + 1) + 2
      /\ i + 1 < Len(argv)
  BY <1>1, WholeArgv DEF FoundAsTyped
<1>3. line \in Lines
  BY DEF Words
<1>4. /\ argv[i + 1] = <<"-", line.order[j + 1]>>
      /\ argv[i + 2] = line.value[line.order[j + 1]]
  <2>1. /\ WholeLine(line)[2 * (j + 1) + 1] = <<"-", line.order[j + 1]>>
        /\ WholeLine(line)[2 * (j + 1) + 2] = line.value[line.order[j + 1]]
    BY <1>1, <1>3, WholeLineWords
  <2>. QED
    BY <1>2, <2>1, WholeArgv
<1>5. ASSUME NEW a, NEW b
      PROVE  <<a, b>> # <<>> /\ Head(<<a, b>>) = a /\ Tail(<<a, b>>) = <<b>>
  OBVIOUS
<1>. QED
  BY <1>1, <1>2, <1>4, <1>5 DEF Dashed, Key, Found

LEMMA FlagAsTyped ==
  ASSUME Words, Whole, Flag, NEW j \in 0 .. Len(line.order), FoundAsTyped(j)
  PROVE  j + 1 \in 0 .. Len(line.order) /\ FoundAsTyped(j + 1)'
<1>1. /\ i < Len(argv) /\ i' = i + 2 /\ line' = line
      /\ map' = Inserted(map, Key, Found)
  BY DEF Flag, Parsing, NextWord, Key, Found
<1>2. /\ j + 1 \in 1 .. Len(line.order)
      /\ Key = <<line.order[j + 1]>> /\ Found = line.value[line.order[j + 1]]
  BY <1>1, NextFlag
<1>3. i' = 2 * (j + 1) + 2
  BY <1>1 DEF FoundAsTyped
<1>4. ASSUME NEW k \in 1 .. j + 1
      PROVE  /\ <<line.order[k]>> \in DOMAIN map'
             /\ map'[<<line.order[k]>>] = line.value[line.order[k]]
  <2>1. CASE <<line.order[k]>> = Key
    <3>1. line.order[k] = line.order[j + 1]
      <4>1. ASSUME NEW a, NEW b, <<a>> = <<b>>
            PROVE  a = b
        BY <4>1
      <4>. QED
        BY <1>2, <2>1, <4>1
    <3>2. Key \in DOMAIN map' /\ map'[Key] = Found
      BY <1>1 DEF Inserted
    <3>. QED
      BY <1>2, <2>1, <3>1, <3>2
  <2>2. CASE <<line.order[k]>> # Key
    <3>1. k \in 1 .. j
      <4>1. k # j + 1
        BY <1>2, <2>2
      <4>. QED
        BY <4>1
    <3>2. /\ <<line.order[k]>> \in DOMAIN map
          /\ map[<<line.order[k]>>] = line.value[line.order[k]]
      BY <3>1 DEF FoundAsTyped
    <3>. QED
      BY <1>1, <2>2, <3>2 DEF Inserted
  <2>. QED
    BY <2>1, <2>2
<1>5. j + 1 \in 0 .. Len(line.order)
  BY <1>2
<1>. QED
  BY <1>1, <1>3, <1>4, <1>5 DEF FoundAsTyped

(* At the end of the words every flag is found with the value given for it. *)
LEMMA AllFound ==
  ASSUME Words, Whole, WholeInv, i >= Len(argv), NEW k \in Flags(line.cmd)
  PROVE  Has(k) /\ map[<<k>>] = line.value[k]
<1>1. PICK j \in 0 .. Len(line.order) : FoundAsTyped(j)
  BY DEF WholeInv
<1>2. j = Len(line.order)
  BY <1>1, WholeArgv DEF FoundAsTyped
<1>3. PICK at \in 1 .. Len(line.order) : line.order[at] = k
  BY LineType DEF Words
<1>4. <<k>> \in DOMAIN map /\ map[<<k>>] = line.value[k]
  BY <1>1, <1>2, <1>3 DEF FoundAsTyped
<1>5. line.value[k] # <<>>
  <2>1. line.value[k] \in Value
    BY LineType DEF Words
  <2>. QED
    BY <2>1, ArgumentsAssumption
<1>. QED
  BY <1>4, <1>5 DEF Has

LEMMA InitWhole == Init => WholeInv
<1>. SUFFICES ASSUME Init, Whole
              PROVE  WholeInv
  BY DEF WholeInv
<1>1. outcome = "none" /\ i = 2 /\ Words
  BY InitArgs DEF Init, ArgInv
<1>2. 0 \in 0 .. Len(line.order)
  BY <1>1, WholeArgv
<1>3. FoundAsTyped(0)
  BY <1>1 DEF FoundAsTyped
<1>. QED
  BY <1>1, <1>2, <1>3 DEF WholeInv

LEMMA StepWhole == ArgInv /\ WholeInv /\ [Next]_vars => WholeInv'
<1>. SUFFICES ASSUME ArgInv, WholeInv, [Next]_vars, Whole'
              PROVE  WholeInv'
  BY DEF WholeInv
<1>1. Words
  BY DEF ArgInv
<1>2. line' = line
  BY DEF Next, NoCommand, Flag, Skip, Req, UnknownCommand, vars
<1>3. Whole
  BY <1>2 DEF Whole
<1>4. outcome # "failed"
  BY <1>3 DEF WholeInv
<1>5. PICK j \in 0 .. Len(line.order) : FoundAsTyped(j)
  BY <1>3 DEF WholeInv
<1>6. CASE NoCommand
  <2>1. Len(argv) < 2
    BY <1>6 DEF NoCommand
  <2>. QED
    BY <1>1, <1>3, <2>1, WholeArgv
<1>7. CASE Flag
  <2>1. j + 1 \in 0 .. Len(line.order) /\ FoundAsTyped(j + 1)'
    BY <1>1, <1>3, <1>5, <1>7, FlagAsTyped
  <2>2. outcome' # "failed"
    BY <1>4, <1>7 DEF Flag
  <2>3. \E n \in 0 .. Len(line.order) : FoundAsTyped(n)'
    BY <2>1
  <2>. QED
    BY <1>2, <2>2, <2>3 DEF WholeInv
<1>8. CASE Skip
  <2>1. i < Len(argv) /\ ~Dashed(argv[i + 1])
    BY <1>8 DEF Skip, Parsing
  <2>. QED
    BY <1>1, <1>3, <1>5, <2>1, NextFlag
<1>9. CASE Req
  <2>1. /\ i >= Len(argv) /\ asked < Len(Required(line.cmd))
        /\ i' = i /\ map' = map
    BY <1>9 DEF Req
  <2>2. asked + 1 \in DOMAIN Required(line.cmd)
    BY <2>1, RequiredType DEF ArgInv, Asked
  <2>3. Required(line.cmd)[asked + 1] \in Flags(line.cmd)
    BY <2>2 DEF Flags
  <2>4. Has(Required(line.cmd)[asked + 1])
    BY <1>1, <1>3, <2>1, <2>3, AllFound
  <2>5. outcome' # "failed"
    BY <1>9, <2>4 DEF Req
  <2>6. FoundAsTyped(j)'
    BY <1>2, <1>5, <2>1 DEF FoundAsTyped
  <2>. QED
    BY <1>2, <2>5, <2>6 DEF WholeInv
<1>10. CASE UnknownCommand
  BY <1>3, <1>10 DEF UnknownCommand, Whole
<1>11. CASE UNCHANGED vars
  <2>1. i' = i /\ map' = map /\ outcome' = outcome
    BY <1>11 DEF vars
  <2>2. FoundAsTyped(j)'
    BY <1>2, <1>5, <2>1 DEF FoundAsTyped
  <2>. QED
    BY <1>2, <1>4, <2>1, <2>2 DEF WholeInv
<1>. QED
  BY <1>6, <1>7, <1>8, <1>9, <1>10, <1>11 DEF Next

(* A whole command line runs with just the values that were given, in any order
   of its flags and whatever the values look like (aegis.rs:7-11, 51-69). *)
THEOREM WholeLinesRun == Spec => []RunsAsTyped
<1>1. Spec => []WholeInv
  BY InitWhole, StepWhole, ArgInvariant, PTL DEF Spec
<1>2. ArgInv /\ WholeInv => RunsAsTyped
  <2>. SUFFICES ASSUME ArgInv, WholeInv, outcome # "none", Known(line.cmd), line.lacking = 0
                PROVE  outcome = "runs" /\ \A k \in Flags(line.cmd) : map[<<k>>] = line.value[k]
    BY DEF RunsAsTyped
  <2>1. Whole /\ Words
    BY DEF Whole, ArgInv
  <2>2. outcome = "runs"
    BY <2>1 DEF WholeInv, ArgInv, Asked
  <2>3. i >= Len(argv)
    BY <2>2, RunsWithAll
  <2>. QED
    BY <2>1, <2>2, <2>3, AllFound
<1>. QED
  BY <1>1, <1>2, ArgInvariant, PTL

=============================================================================
