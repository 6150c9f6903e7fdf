-------------------------- MODULE CommandLineProofs -------------------------
(***************************************************************************)
(* The command line, for buffers of every size and every keyboard: what the *)
(* parser may reach of the buffer, that exec_run() fills no more of the     *)
(* argument vector than there is, and that it fills it with the words of    *)
(* the line: supermain() implements Shell.                                  *)
(***************************************************************************)
EXTENDS CommandLine, Numbers, SequenceTheorems

Paren == \E i \in 1 .. Len(submitted) : submitted[i] = "("

\* The line at the prompt has no NUL in it; the parser is at rest.
Editing ==
    mode = "edit" =>
        /\ \A i \in 0 .. length - 1 : command[i] \in Letters
        /\ x = 0 /\ depth = 0

\* The line that is parsed is the one that was typed, but for the blanks that
\* became NUL, and a NUL follows it.
LineKept ==
    mode \in Parsing /\ submitted # <<>> =>
        /\ Len(submitted) = length /\ length \in Cells \ {0}
        /\ command[length] = "NUL"
        /\ \A i \in 0 .. length - 1 : command[i] \in {submitted[i + 1], "NUL"}
        /\ Paren \/ depth = 0

\* A line without operators is forgotten when its program returns: nothing of it
\* is parsed any more.
LineDone ==
    mode \in Parsing /\ submitted = <<>> =>
        /\ mode = "after" /\ depth = 0 /\ x <= length
        /\ command[x] \notin {"*", "+"}

\* A factor is parsed at the beginning of the line and behind an operator.
FactorBegins ==
    mode = "factor" => x = 0 \/ command[x - 1] \in {"(", "+", "*"}

CInv ==
    /\ TypeOK /\ OwnText /\ LostOnlyByTheLine
    /\ depth <= x
    /\ Editing /\ LineKept /\ LineDone /\ FactorBegins
-----------------------------------------------------------------------------
\* Where the scans of the buffer stop.

LEMMA BufferSizes ==
    /\ COMMAND \in Nat /\ COMMAND > 0 /\ MAX_STRING \in Nat /\ MAX_STRING > 0
    /\ MAX_ARGS \in Nat /\ MAX_ARGS > 0 /\ "NUL" \notin Letters
    /\ Cells = 0 .. COMMAND - 1 /\ \A c \in Letters : c \in Chars
BY LineAssumption DEF Cells, Letters, Chars

LEMMA FirstStop ==
    ASSUME NEW i \in 0 .. COMMAND, NEW stops, stops \subseteq i .. COMMAND - 1
    PROVE  LET s == IF stops = {} THEN COMMAND ELSE Min(stops)
           IN  /\ s \in i .. COMMAND
               /\ \A j \in stops : s <= j
               /\ s < COMMAND => s \in stops
<1>1. i \in Nat /\ i <= COMMAND /\ COMMAND \in Nat
  BY BufferSizes
<1>2. CASE stops = {}
  BY <1>1, <1>2
<1>3. CASE stops # {}
  <2>1. stops \subseteq Nat
    BY <1>1
  <2>2. PICK m \in stops : \A j \in stops : m <= j
    BY <1>3, <2>1, LeastElement
  <2>3. Min(stops) \in stops /\ \A j \in stops : Min(stops) <= j
    BY <2>2 DEF Min
  <2>4. Min(stops) \in i .. COMMAND
    <3>1. Min(stops) \in i .. COMMAND - 1
      BY <2>3
    <3>2. i .. COMMAND - 1 \subseteq i .. COMMAND
      BY <1>1
    <3> QED
      BY <3>1, <3>2
  <2> QED
    BY <1>3, <2>3, <2>4
<1> QED
  BY <1>2, <1>3

LEMMA DigitsEnd ==
    ASSUME NEW i \in 0 .. COMMAND
    PROVE  /\ SkipSet(i, IsDigit) \in i .. COMMAND
           /\ \A j \in i .. COMMAND - 1 :
                  ~IsDigit(command[j]) => SkipSet(i, IsDigit) <= j
<1> DEFINE stops == {j \in i .. COMMAND - 1 : ~IsDigit(command[j])}
<1>1. stops \subseteq i .. COMMAND - 1
  OBVIOUS
<1>2. SkipSet(i, IsDigit) = IF stops = {} THEN COMMAND ELSE Min(stops)
  BY DEF SkipSet
<1>3. \A j \in i .. COMMAND - 1 : ~IsDigit(command[j]) => j \in stops
  OBVIOUS
<1> HIDE DEF stops
<1> DEFINE s == IF stops = {} THEN COMMAND ELSE Min(stops)
<1>4. /\ s \in i .. COMMAND
      /\ \A j \in stops : s <= j
      /\ s < COMMAND => s \in stops
  BY <1>1, FirstStop
<1>5. SkipSet(i, IsDigit) = s
  BY <1>2
<1> HIDE DEF s
<1> QED
  BY <1>3, <1>4, <1>5

LEMMA BlanksEnd ==
    ASSUME NEW i \in 0 .. COMMAND
    PROVE  /\ SkipSet(i, isWhitespace) \in i .. COMMAND
           /\ \A j \in i .. COMMAND - 1 :
                  ~isWhitespace(command[j]) => SkipSet(i, isWhitespace) <= j
           /\ SkipSet(i, isWhitespace) < COMMAND
                  => ~isWhitespace(command[SkipSet(i, isWhitespace)])
<1> DEFINE stops == {j \in i .. COMMAND - 1 : ~isWhitespace(command[j])}
<1>1. stops \subseteq i .. COMMAND - 1
  OBVIOUS
<1>2. SkipSet(i, isWhitespace) = IF stops = {} THEN COMMAND ELSE Min(stops)
  BY DEF SkipSet
<1>3. /\ \A j \in i .. COMMAND - 1 : ~isWhitespace(command[j]) => j \in stops
      /\ \A j \in stops : ~isWhitespace(command[j])
  OBVIOUS
<1> HIDE DEF stops
<1> DEFINE s == IF stops = {} THEN COMMAND ELSE Min(stops)
<1>4. /\ s \in i .. COMMAND
      /\ \A j \in stops : s <= j
      /\ s < COMMAND => s \in stops
  BY <1>1, FirstStop
<1>5. SkipSet(i, isWhitespace) = s
  BY <1>2
<1> HIDE DEF s
<1> QED
  BY <1>3, <1>4, <1>5

\* A token has neither blanks nor NUL in it; behind it come blanks.
LEMMA TokenEnds ==
    ASSUME x \in 0 .. COMMAND
    PROVE  /\ TokenEnd \in x .. COMMAND /\ NextWord \in TokenEnd .. COMMAND
           /\ \A j \in x .. TokenEnd - 1 :
                  ~isWhitespace(command[j]) /\ ~isTerminator(command[j])
           /\ \A j \in x .. COMMAND - 1 :
                  isTerminator(command[j]) => TokenEnd <= j /\ NextWord <= j
           /\ TokenEnd < COMMAND =>
                  isWhitespace(command[TokenEnd]) \/ isTerminator(command[TokenEnd])
           /\ \A j \in TokenEnd .. NextWord - 1 : j < COMMAND => isWhitespace(command[j])
           /\ NextWord < COMMAND => ~isWhitespace(command[NextWord])
<1> DEFINE stops == {j \in x .. COMMAND - 1 :
                        ~(~isWhitespace(command[j]) /\ ~isTerminator(command[j]))}
<1>1. stops \subseteq x .. COMMAND - 1
  OBVIOUS
<1>2. TokenEnd = IF stops = {} THEN COMMAND ELSE Min(stops)
  BY DEF TokenEnd, SkipSet
<1>3. /\ \A j \in x .. COMMAND - 1 :
             ~(~isWhitespace(command[j]) /\ ~isTerminator(command[j])) => j \in stops
      /\ \A j \in stops : isWhitespace(command[j]) \/ isTerminator(command[j])
  OBVIOUS
<1> HIDE DEF stops
<1>4. /\ TokenEnd \in x .. COMMAND /\ \A j \in stops : TokenEnd <= j
      /\ TokenEnd < COMMAND => TokenEnd \in stops
  BY <1>1, <1>2, FirstStop
<1>5. COMMAND \in Nat /\ x \in Nat
  BY BufferSizes
<1>6. ASSUME NEW j \in x .. TokenEnd - 1
      PROVE  ~isWhitespace(command[j]) /\ ~isTerminator(command[j])
  <2>1. j \in x .. COMMAND - 1 /\ ~(TokenEnd <= j)
    BY <1>4, <1>5
  <2> QED
    BY <1>3, <1>4, <2>1
<1>7. /\ NextWord \in TokenEnd .. COMMAND
      /\ \A j \in TokenEnd .. COMMAND - 1 : ~isWhitespace(command[j]) => NextWord <= j
      /\ NextWord < COMMAND => ~isWhitespace(command[NextWord])
  <2>1. TokenEnd \in 0 .. COMMAND
    BY <1>4, <1>5
  <2>2. CASE TokenEnd \in Cells
    BY <2>1, <2>2, BlanksEnd DEF NextWord
  <2>3. CASE TokenEnd \notin Cells
    <3>1. TokenEnd = COMMAND
      BY <1>5, <2>1, <2>3 DEF Cells
    <3>2. NextWord = COMMAND
      BY <2>3 DEF NextWord
    <3> QED
      BY <1>5, <3>1, <3>2
  <2> QED
    BY <2>2, <2>3
<1>8. ASSUME NEW j \in x .. COMMAND - 1, isTerminator(command[j])
      PROVE  TokenEnd <= j /\ NextWord <= j
  <2>1. TokenEnd <= j
    BY <1>3, <1>4, <1>8
  <2>2. j \in TokenEnd .. COMMAND - 1
    BY <1>4, <1>5, <2>1
  <2>3. ~isWhitespace(command[j])
    BY <1>8 DEF isTerminator, isWhitespace
  <2> QED
    BY <1>7, <2>1, <2>2, <2>3
<1>9. ASSUME NEW j \in TokenEnd .. NextWord - 1, j < COMMAND PROVE isWhitespace(command[j])
  <2>1. j \in TokenEnd .. COMMAND - 1 /\ ~(NextWord <= j)
    BY <1>4, <1>5, <1>7, <1>9
  <2> QED
    BY <1>7, <2>1
<1>10. TokenEnd < COMMAND => isWhitespace(command[TokenEnd]) \/ isTerminator(command[TokenEnd])
  BY <1>3, <1>4
<1> QED
  BY <1>4, <1>6, <1>7, <1>8, <1>9, <1>10
-----------------------------------------------------------------------------
\* The line editor keeps the invariant.

LEMMA LineAtPrompt ==
    ASSUME CInv, mode = "edit"
    PROVE  Typed \in Seq(Letters) /\ Len(Typed) = length
           /\ \A i \in 0 .. length - 1 : Typed[i + 1] = command[i]
<1>1. length \in Nat /\ \A i \in 0 .. length - 1 : command[i] \in Letters
  BY BufferSizes DEF CInv, TypeOK, Editing
<1>2. \A i \in 1 .. length : command[i - 1] \in Letters
  BY <1>1
<1>3. Typed \in Seq(Letters) /\ Len(Typed) = length
  BY <1>1, <1>2 DEF Typed
<1>4. \A i \in 0 .. length - 1 : Typed[i + 1] = command[i]
  <2> SUFFICES ASSUME NEW i \in 0 .. length - 1 PROVE Typed[i + 1] = command[i]
    OBVIOUS
  <2>1. i + 1 \in 1 .. length /\ (i + 1) - 1 = i
    BY <1>1
  <2> QED
    BY <2>1 DEF Typed
<1> QED
  BY <1>3, <1>4

\* What the handler of a key leaves of the line.
LEMMA KeyEffects ==
    ASSUME CInv, mode = "edit", NEW c \in Keys \cup {"NUL"}, Handle(c)
    PROVE  /\ command' \in [Cells -> Chars] /\ length' \in 0 .. COMMAND
           /\ mode' \in {"edit", "quit", "lost", "factor"}
           /\ mode' = "edit" => \A i \in 0 .. length' - 1 : command'[i] \in Letters
           /\ mode' = "lost" => length' = COMMAND
           /\ mode' = "factor" =>
                  /\ length \in Cells \ {0} /\ length' = length
                  /\ command' = [command EXCEPT ![length] = "NUL"]
<1>1. /\ command \in [Cells -> Chars] /\ length \in 0 .. COMMAND /\ COMMAND \in Nat
      /\ Cells = 0 .. COMMAND - 1 /\ COMMAND > 0 /\ "NUL" \in Chars
      /\ \A i \in 0 .. length - 1 : command[i] \in Letters
      /\ length \in Cells \/ length = COMMAND
  BY BufferSizes DEF CInv, TypeOK, Editing, Chars
<1>2. CASE c = "CR"
  <2>1. Enter
    BY <1>2 DEF Handle
  <2>2. CASE length \in Cells \ {0}
    BY <1>1, <2>1, <2>2 DEF Enter
  <2>3. CASE length \notin Cells \ {0}
    BY <1>1, <2>1, <2>3 DEF Enter
  <2> QED
    BY <2>2, <2>3
<1>3. CASE c = "BS"
  <2>1. EraseLast
    BY <1>3 DEF Handle
  <2>2. CASE length = 0
    BY <1>1, <2>1, <2>2 DEF EraseLast
  <2>3. CASE length # 0
    <3>1. /\ command' = [command EXCEPT ![length - 1] = "NUL"] /\ length' = length - 1
          /\ mode' = "edit" /\ length - 1 \in Cells
      BY <1>1, <2>1, <2>3 DEF EraseLast
    <3> QED
      BY <1>1, <3>1
  <2> QED
    BY <2>2, <2>3
<1>4. CASE c = "ETX"
  <2>1. length' = 0 /\ UNCHANGED <<command, mode>>
    BY <1>4 DEF Handle
  <2> QED
    BY <1>1, <2>1
<1>5. CASE c = "EOT"
  <2>1. mode' = "quit" /\ UNCHANGED <<command, length>>
    BY <1>5 DEF Handle
  <2> QED
    BY <1>1, <2>1
<1>6. CASE c \in {"FF", "ESC", "NUL"}
  <2>1. UNCHANGED <<command, length, mode>>
    BY <1>6 DEF Handle
  <2> QED
    BY <1>1, <2>1
<1>7. CASE c \notin {"CR", "BS", "ETX", "EOT", "FF", "ESC", "NUL"}
  <2>1. Store(c)
    BY <1>7 DEF Handle
  <2>2. c \in Letters /\ c \in Chars
    BY <1>7 DEF Letters, Control, Chars
  <2>3. CASE length \in Cells
    <3>1. /\ command' = [command EXCEPT ![length] = c] /\ length' = length + 1
          /\ mode' = "edit"
      BY <2>1, <2>3 DEF Store
    <3> QED
      BY <1>1, <2>2, <2>3, <3>1
  <2>4. CASE length \notin Cells
    <3>1. mode' = "lost" /\ UNCHANGED <<command, length>>
      BY <2>1, <2>4 DEF Store
    <3> QED
      BY <1>1, <2>4, <3>1
  <2> QED
    BY <2>3, <2>4
<1> QED
  BY <1>2, <1>3, <1>4, <1>5, <1>6, <1>7

LEMMA HandleKeeps ==
    ASSUME CInv, mode = "edit", NEW c \in Keys \cup {"NUL"}, Handle(c)
    PROVE  CInv'
<1>1. /\ submitted' = (IF mode' = "factor" THEN Typed ELSE <<>>) /\ last' = c
      /\ UNCHANGED <<nonblock, x, depth, argv>>
  BY DEF Handle
<1>2. /\ command' \in [Cells -> Chars] /\ length' \in 0 .. COMMAND
      /\ mode' \in {"edit", "quit", "lost", "factor"}
      /\ mode' = "edit" => \A i \in 0 .. length' - 1 : command'[i] \in Letters
      /\ mode' = "lost" => length' = COMMAND
      /\ mode' = "factor" =>
             /\ length \in Cells \ {0} /\ length' = length
             /\ command' = [command EXCEPT ![length] = "NUL"]
  BY KeyEffects
<1>3. /\ x = 0 /\ depth = 0 /\ nonblock \in BOOLEAN /\ argv \in Seq(Seq(Chars))
      /\ Len(argv) <= MAX_ARGS /\ command \in [Cells -> Chars]
      /\ Cells = 0 .. COMMAND - 1 /\ COMMAND \in Nat /\ COMMAND > 0
  BY BufferSizes DEF CInv, TypeOK, Editing
<1>4. Typed \in Seq(Letters) /\ Len(Typed) = length
      /\ \A i \in 0 .. length - 1 : Typed[i + 1] = command[i]
  BY LineAtPrompt
<1>5. submitted' \in Seq(Letters)
  BY <1>1, <1>4
<1>6. TypeOK'
  BY <1>1, <1>2, <1>3, <1>5 DEF TypeOK, Parsing
<1>7. OwnText' /\ LostOnlyByTheLine' /\ (depth <= x)' /\ Editing' /\ FactorBegins'
  <2>1. FactorBegins'
    BY <1>1, <1>3 DEF FactorBegins
  <2> QED
    BY <1>1, <1>2, <1>3, <2>1 DEF OwnText, LostOnlyByTheLine, Editing
<1>8. CASE mode' = "factor"
  <2>1. submitted' = Typed /\ Len(submitted') = length /\ length' = length
        /\ length \in Cells \ {0} /\ submitted' # <<>>
    <3>1. length # 0
      BY <1>2, <1>8
    <3>2. Typed # <<>>
      BY <1>4, <3>1, EmptySeq
    <3> QED
      BY <1>1, <1>2, <1>4, <1>8, <3>2
  <2>2. command'[length] = "NUL"
    BY <1>2, <1>3, <1>8
  <2>3. \A i \in 0 .. length - 1 : command'[i] = submitted'[i + 1]
    BY <1>2, <1>3, <1>4, <1>8, <2>1
  <2>4. LineKept'
    BY <1>1, <1>3, <2>1, <2>2, <2>3 DEF LineKept
  <2> QED
    BY <1>6, <1>7, <2>1, <2>4 DEF CInv, LineDone
<1>9. CASE mode' # "factor"
  BY <1>2, <1>6, <1>7, <1>9 DEF CInv, LineKept, LineDone, Parsing
<1> QED
  BY <1>8, <1>9
-----------------------------------------------------------------------------
\* The parser keeps the invariant.

\* A step of the parser over the line at hand.
LEMMA AdvanceKeeps ==
    ASSUME CInv, mode \in {"factor", "after"}, submitted # <<>>,
           NEW i, i \in 0 .. COMMAND, NEW next \in {"factor", "after"}, Goto(i, next),
           depth' \in Nat, depth' <= i,
           Paren \/ (i <= length /\ depth' = 0),
           next = "factor" => command[i - 1] \in {"(", "+", "*"},
           UNCHANGED <<editor, nonblock, argv, submitted>>
    PROVE  CInv'
<1>1. /\ x' = i /\ mode' = IF i \in Cells THEN next ELSE "lost"
      /\ UNCHANGED <<command, length, last, nonblock, argv, submitted>>
  BY DEF Goto, editor
<1>2. /\ Len(submitted) = length /\ length \in Cells \ {0}
      /\ command[length] = "NUL"
      /\ \A j \in 0 .. length - 1 : command[j] \in {submitted[j + 1], "NUL"}
  BY DEF CInv, LineKept, Parsing
<1>3. Cells = 0 .. COMMAND - 1 /\ COMMAND \in Nat
  BY BufferSizes
<1>4. depth' \in 0 .. COMMAND
  BY <1>3
<1>5. TypeOK'
  BY <1>1, <1>4 DEF CInv, TypeOK, Parsing
<1>6. Paren' <=> Paren
  BY <1>1 DEF Paren
<1>7. OwnText'
  BY <1>1, <1>6 DEF OwnText, Paren
<1>8. LostOnlyByTheLine'
  <2>1. mode' = "lost" => i = COMMAND
    BY <1>1, <1>3
  <2>2. length < COMMAND
    BY <1>2, <1>3
  <2>3. mode' = "lost" => Paren
    BY <1>2, <1>3, <2>1, <2>2
  <2> QED
    BY <1>1, <2>3 DEF LostOnlyByTheLine, Paren
<1>9. LineKept' /\ LineDone' /\ Editing'
  BY <1>1, <1>2, <1>6 DEF LineKept, LineDone, Editing
<1>10. FactorBegins'
  BY <1>1 DEF FactorBegins
<1> QED
  BY <1>1, <1>5, <1>7, <1>8, <1>9, <1>10 DEF CInv

\* What the parser knows of where it is.
LEMMA ParserFacts ==
    ASSUME CInv, mode \in {"factor", "after"}, submitted # <<>>
    PROVE  /\ x \in Cells /\ x \in Nat /\ x < COMMAND /\ COMMAND \in Nat
           /\ depth \in Nat /\ depth <= x
           /\ length \in Cells /\ length \in Nat /\ length < COMMAND
           /\ command[length] = "NUL" /\ Len(submitted) = length
           /\ Paren \/ (x <= length /\ depth = 0)
           /\ \A j \in 0 .. length - 1 : command[j] \in {submitted[j + 1], "NUL"}
<1>1. COMMAND \in Nat /\ Cells = 0 .. COMMAND - 1
  BY BufferSizes
<1>2. x \in Cells /\ depth \in 0 .. COMMAND /\ depth <= x
  BY DEF CInv, TypeOK, Parsing
<1>3. /\ Len(submitted) = length /\ length \in Cells \ {0}
      /\ command[length] = "NUL"
      /\ \A j \in 0 .. length - 1 : command[j] \in {submitted[j + 1], "NUL"}
      /\ Paren \/ depth = 0
  BY DEF CInv, LineKept, Parsing
<1>4. Paren \/ x <= length
  BY DEF CInv, OwnText, Parsing, Paren
<1> QED
  BY <1>1, <1>2, <1>3, <1>4

\* A factor is parsed of a line only; so is an operator, and what is in parentheses.
LEMMA LineAtHand ==
    ASSUME CInv, \/ mode = "factor"
                 \/ mode = "after" /\ (command[x] \in {"*", "+"} \/ depth > 0)
    PROVE  submitted # <<>> /\ mode \in {"factor", "after"}
BY DEF CInv, LineDone, Parsing

LEMMA NumberKeeps ==
    ASSUME CInv, Number
    PROVE  CInv'
<1> DEFINE i == SkipSet(x, IsDigit)
<1>1. /\ mode = "factor" /\ Goto(i, "after") /\ UNCHANGED depth
      /\ UNCHANGED <<editor, nonblock, argv, submitted>>
  BY DEF Number
<1>2. submitted # <<>>
  BY <1>1, LineAtHand
<1>3. /\ x \in Nat /\ x < COMMAND /\ COMMAND \in Nat /\ depth \in Nat /\ depth <= x
      /\ length \in Nat /\ length < COMMAND /\ command[length] = "NUL"
      /\ Paren \/ (x <= length /\ depth = 0)
  BY <1>1, <1>2, ParserFacts
<1>4. /\ i \in x .. COMMAND
      /\ \A j \in x .. COMMAND - 1 : ~IsDigit(command[j]) => i <= j
  <2>1. x \in 0 .. COMMAND
    BY <1>3
  <2> QED
    BY <2>1, DigitsEnd DEF i
<1>5. ~IsDigit(command[length])
  BY <1>3 DEF IsDigit
<1> HIDE DEF i
<1>6. x <= length => i <= length
  <2>1. x <= length => length \in x .. COMMAND - 1
    BY <1>3
  <2> QED
    BY <1>4, <1>5, <2>1
<1>7. i \in 0 .. COMMAND /\ depth' \in Nat /\ depth' <= i
      /\ (Paren \/ (i <= length /\ depth' = 0))
  BY <1>1, <1>3, <1>4, <1>6
<1> QED
  BY <1>1, <1>2, <1>7, AdvanceKeeps

LEMMA OpenParenKeeps ==
    ASSUME CInv, OpenParen
    PROVE  CInv'
<1>1. /\ mode = "factor" /\ Goto(x + 1, "factor") /\ depth' = depth + 1
      /\ command[x] = "(" /\ UNCHANGED <<editor, nonblock, argv, submitted>>
  BY DEF OpenParen
<1>2. submitted # <<>>
  BY <1>1, LineAtHand
<1>3. /\ x \in Nat /\ x < COMMAND /\ COMMAND \in Nat /\ depth \in Nat /\ depth <= x
      /\ length \in Nat /\ command[length] = "NUL" /\ Len(submitted) = length
      /\ Paren \/ (x <= length /\ depth = 0)
      /\ \A j \in 0 .. length - 1 : command[j] \in {submitted[j + 1], "NUL"}
  BY <1>1, <1>2, ParserFacts
<1>4. Paren
  <2> SUFFICES ASSUME x <= length PROVE Paren
    BY <1>3
  <2>1. x # length
    BY <1>1, <1>3
  <2>2. x \in 0 .. length - 1 /\ x + 1 \in 1 .. Len(submitted)
    BY <1>3, <2>1
  <2>3. submitted[x + 1] = "("
    BY <1>1, <1>3, <2>2
  <2> QED
    BY <2>2, <2>3 DEF Paren
<1>5. x + 1 \in 0 .. COMMAND /\ depth' \in Nat /\ depth' <= x + 1 /\ (x + 1) - 1 = x
  BY <1>1, <1>3
<1> QED
  BY <1>1, <1>2, <1>4, <1>5, AdvanceKeeps

LEMMA OperatorKeeps ==
    ASSUME CInv, Operator
    PROVE  CInv'
<1>1. /\ mode = "after" /\ Goto(x + 1, "factor") /\ UNCHANGED depth
      /\ command[x] \in {"*", "+"} /\ UNCHANGED <<editor, nonblock, argv, submitted>>
  BY DEF Operator
<1>2. submitted # <<>>
  BY <1>1, LineAtHand
<1>3. /\ x \in Nat /\ x < COMMAND /\ COMMAND \in Nat /\ depth \in Nat /\ depth <= x
      /\ length \in Nat /\ command[length] = "NUL"
      /\ Paren \/ (x <= length /\ depth = 0)
  BY <1>1, <1>2, ParserFacts
<1>4. Paren \/ (x + 1 <= length /\ depth' = 0)
  <2>1. x # length
    BY <1>1, <1>3
  <2> QED
    BY <1>1, <1>3, <2>1
<1>5. x + 1 \in 0 .. COMMAND /\ depth' \in Nat /\ depth' <= x + 1 /\ (x + 1) - 1 = x
  BY <1>1, <1>3
<1> QED
  BY <1>1, <1>2, <1>4, <1>5, AdvanceKeeps

LEMMA CloseParenKeeps ==
    ASSUME CInv, CloseParen
    PROVE  CInv'
<1>1. /\ mode = "after" /\ Goto(x + 1, "after") /\ depth' = depth - 1 /\ depth > 0
      /\ UNCHANGED <<editor, nonblock, argv, submitted>>
  BY DEF CloseParen
<1>2. submitted # <<>>
  BY <1>1, LineAtHand
<1>3. /\ x \in Nat /\ x < COMMAND /\ COMMAND \in Nat /\ depth \in Nat /\ depth <= x
      /\ Paren
  BY <1>1, <1>2, ParserFacts
<1>4. x + 1 \in 0 .. COMMAND /\ depth' \in Nat /\ depth' <= x + 1
  BY <1>1, <1>3
<1> QED
  BY <1>1, <1>2, <1>3, <1>4, AdvanceKeeps

\* parseToken() of a line: it stops at the line's NUL at the latest.
LEMMA TokenInLine ==
    ASSUME CInv, AtToken
    PROVE  /\ submitted # <<>> /\ mode = "factor"
           /\ TokenEnd \in Nat /\ x <= TokenEnd /\ TokenEnd <= NextWord
           /\ NextWord \in 0 .. COMMAND
           /\ Paren \/ (NextWord <= length /\ TokenEnd <= length)
<1>1. mode = "factor" /\ submitted # <<>>
  BY LineAtHand DEF AtToken
<1>2. /\ x \in Nat /\ x < COMMAND /\ COMMAND \in Nat
      /\ length \in Nat /\ length < COMMAND /\ command[length] = "NUL"
      /\ Paren \/ x <= length
  BY <1>1, ParserFacts
<1>3. /\ TokenEnd \in x .. COMMAND /\ NextWord \in TokenEnd .. COMMAND
      /\ \A j \in x .. COMMAND - 1 :
             isTerminator(command[j]) => TokenEnd <= j /\ NextWord <= j
  BY <1>2, TokenEnds
<1>4. TokenEnd \in Nat /\ x <= TokenEnd /\ TokenEnd <= NextWord /\ NextWord \in 0 .. COMMAND
  BY <1>2, <1>3
<1>5. ASSUME x <= length PROVE NextWord <= length /\ TokenEnd <= length
  <2>1. length \in x .. COMMAND - 1
    BY <1>2, <1>5
  <2>2. isTerminator(command[length])
    BY <1>2 DEF isTerminator
  <2> QED
    BY <1>3, <2>1, <2>2
<1> QED
  BY <1>1, <1>2, <1>4, <1>5

\* A token that fills parseString was typed as it is.
LEMMA LongWordWasTyped ==
    ASSUME CInv, AtToken, ~TokenFits, ~Paren
    PROVE  \E i \in 1 .. Len(submitted) :
               /\ i + MAX_STRING - 1 <= Len(submitted)
               /\ \A j \in i .. i + MAX_STRING - 1 : ~isWhitespace(submitted[j])
<1>1. submitted # <<>> /\ mode = "factor" /\ TokenEnd \in Nat /\ TokenEnd <= length
  BY TokenInLine
<1>2. /\ x \in Nat /\ x < COMMAND /\ COMMAND \in Nat /\ length \in Nat
      /\ Len(submitted) = length
      /\ \A j \in 0 .. length - 1 : command[j] \in {submitted[j + 1], "NUL"}
  BY <1>1, ParserFacts
<1>3. MAX_STRING \in Nat /\ MAX_STRING > 0 /\ TokenEnd - x >= MAX_STRING
  BY <1>1, <1>2, BufferSizes DEF TokenFits
<1>4. \A j \in x .. TokenEnd - 1 :
          ~isWhitespace(command[j]) /\ ~isTerminator(command[j])
  BY <1>2, TokenEnds
<1> DEFINE i == x + 1
<1>5. i \in 1 .. Len(submitted) /\ i + MAX_STRING - 1 <= Len(submitted)
  BY <1>1, <1>2, <1>3
<1>6. ASSUME NEW j \in i .. i + MAX_STRING - 1 PROVE ~isWhitespace(submitted[j])
  <2> DEFINE k == j - 1
  <2>1. k \in x .. TokenEnd - 1 /\ k \in 0 .. length - 1 /\ k + 1 = j
    BY <1>1, <1>2, <1>3
  <2> HIDE DEF k
  <2>2. command[k] # "NUL" /\ ~isWhitespace(command[k])
    BY <1>4, <2>1 DEF isTerminator
  <2>3. command[k] = submitted[j]
    BY <1>2, <2>1, <2>2
  <2> QED
    BY <2>2, <2>3
<1> QED
  BY <1>5, <1>6

\* A token of two slashes, or more, and nothing else was typed as it begins.
LEMMA SlashesWereTyped ==
    ASSUME CInv, AtToken, TooShort, ~Paren
    PROVE  \E i \in 1 .. Len(submitted) :
               /\ i < Len(submitted)
               /\ submitted[i] = "/" /\ submitted[i + 1] = "/"
               /\ i = 1 \/ submitted[i - 1] \in {"+", "*"}
<1>1. submitted # <<>> /\ mode = "factor" /\ TokenEnd \in Nat /\ TokenEnd <= length
  BY TokenInLine
<1>2. /\ x \in Nat /\ x < COMMAND /\ COMMAND \in Nat /\ length \in Nat
      /\ Len(submitted) = length
      /\ \A j \in 0 .. length - 1 : command[j] \in {submitted[j + 1], "NUL"}
  BY <1>1, ParserFacts
<1>3. TokenEnd - x > 1 /\ \A i \in 1 .. Len(Token) : Token[i] = "/"
  BY DEF TooShort, OnlySlashes
<1>4. Len(Token) = TokenEnd - x /\ Token[1] = command[x] /\ Token[2] = command[x + 1]
  BY <1>1, <1>2, <1>3 DEF Token
<1>5. command[x] = "/" /\ command[x + 1] = "/"
  BY <1>1, <1>2, <1>3, <1>4
<1>6. submitted[x + 1] = "/" /\ submitted[x + 2] = "/"
  <2>1. x \in 0 .. length - 1 /\ x + 1 \in 0 .. length - 1 /\ (x + 1) + 1 = x + 2
    BY <1>1, <1>2, <1>3
  <2>2. /\ command[x] \in {submitted[x + 1], "NUL"}
        /\ command[x + 1] \in {submitted[(x + 1) + 1], "NUL"}
    BY <1>2, <2>1
  <2> QED
    BY <1>5, <2>1, <2>2
<1>7. x # 0 => submitted[x] \in {"+", "*"}
  <2> SUFFICES ASSUME x # 0 PROVE submitted[x] \in {"+", "*"}
    OBVIOUS
  <2>1. command[x - 1] \in {"(", "+", "*"}
    BY <1>1 DEF CInv, FactorBegins
  <2>2. x - 1 \in 0 .. length - 1 /\ (x - 1) + 1 = x /\ x \in 1 .. Len(submitted)
    BY <1>1, <1>2, <1>3
  <2>3. command[x - 1] \in {submitted[(x - 1) + 1], "NUL"}
    BY <1>2, <2>2
  <2>4. submitted[x] # "("
    BY <2>2 DEF Paren
  <2> QED
    BY <2>1, <2>2, <2>3, <2>4
<1> DEFINE i == x + 1
<1>8. i \in 1 .. Len(submitted) /\ i < Len(submitted) /\ i + 1 = x + 2 /\ i - 1 = x
      /\ (i = 1 <=> x = 0)
  BY <1>1, <1>2, <1>3
<1> QED
  BY <1>6, <1>7, <1>8

\* A step of the parser that is lost because of the line at hand.
LEMMA LostKeeps ==
    ASSUME CInv, AtToken, ~Paren, ~TokenFits \/ TooShort,
           mode' = "lost", x' = COMMAND,
           UNCHANGED <<command, length, last, nonblock, depth, argv, submitted>>
    PROVE  CInv'
<1>1. x \in Nat /\ x < COMMAND /\ COMMAND \in Nat /\ depth <= x /\ depth \in Nat
  BY TokenInLine, ParserFacts
<1>2. TypeOK'
  BY <1>1 DEF CInv, TypeOK, Parsing
<1>3. LostOnlyByTheLine'
  BY LongWordWasTyped, SlashesWereTyped DEF LostOnlyByTheLine
<1> QED
  BY <1>1, <1>2, <1>3 DEF CInv, OwnText, Editing, LineKept, LineDone, FactorBegins, Parsing

LEMMA DispatchKeeps ==
    ASSUME CInv, Dispatch
    PROVE  CInv'
<1>1. /\ AtToken /\ Goto(IF TokenFits /\ ~TooShort THEN NextWord ELSE COMMAND, "after")
      /\ UNCHANGED depth /\ UNCHANGED <<editor, nonblock, argv, submitted>>
  BY DEF Dispatch
<1>2. /\ submitted # <<>> /\ mode = "factor"
      /\ TokenEnd \in Nat /\ x <= TokenEnd /\ TokenEnd <= NextWord
      /\ NextWord \in 0 .. COMMAND
      /\ Paren \/ (NextWord <= length /\ TokenEnd <= length)
  BY <1>1, TokenInLine
<1>3. /\ x \in Nat /\ x < COMMAND /\ COMMAND \in Nat /\ depth \in Nat /\ depth <= x
      /\ Paren \/ depth = 0
  BY <1>2, ParserFacts
<1>4. CASE TokenFits /\ ~TooShort
  <2>1. depth' \in Nat /\ depth' <= NextWord
        /\ (Paren \/ (NextWord <= length /\ depth' = 0))
    BY <1>1, <1>2, <1>3
  <2> QED
    BY <1>1, <1>2, <1>4, <2>1, AdvanceKeeps
<1>5. CASE ~(TokenFits /\ ~TooShort) /\ Paren
  <2>1. COMMAND \in 0 .. COMMAND /\ depth' \in Nat /\ depth' <= COMMAND
    BY <1>1, <1>3
  <2> QED
    BY <1>1, <1>2, <1>5, <2>1, AdvanceKeeps
<1>6. CASE ~(TokenFits /\ ~TooShort) /\ ~Paren
  <2>1. /\ mode' = "lost" /\ x' = COMMAND
        /\ UNCHANGED <<command, length, last, nonblock, depth, argv, submitted>>
    BY <1>1, <1>3, <1>6 DEF Goto, editor, Cells
  <2> QED
    BY <1>1, <1>6, <2>1, LostKeeps
<1> QED
  BY <1>4, <1>5, <1>6

\* A path that is cut leaves the line but for characters that became NUL.
LEMMA LoadKeeps ==
    ASSUME CInv, Load
    PROVE  CInv'
<1> DEFINE cut == PathCut(NextWord)
<1>1. /\ AtToken /\ NextWord \in Cells /\ command' = cut
      /\ x' = NextWord /\ mode' = "after"
      /\ UNCHANGED <<length, last, nonblock, depth, argv, submitted>>
  BY DEF Load, Goto
<1>2. /\ submitted # <<>> /\ mode = "factor"
      /\ TokenEnd \in Nat /\ x <= TokenEnd /\ TokenEnd <= NextWord
      /\ NextWord \in 0 .. COMMAND
      /\ Paren \/ (NextWord <= length /\ TokenEnd <= length)
  BY <1>1, TokenInLine
<1>3. /\ x \in Nat /\ x < COMMAND /\ COMMAND \in Nat /\ depth \in Nat /\ depth <= x
      /\ length \in Cells /\ length \in Nat /\ Len(submitted) = length
      /\ command[length] = "NUL" /\ (Paren \/ depth = 0)
      /\ \A j \in 0 .. length - 1 : command[j] \in {submitted[j + 1], "NUL"}
  BY <1>2, ParserFacts
<1>4. command \in [Cells -> Chars] /\ "NUL" \in Chars /\ Cells = 0 .. COMMAND - 1
  BY BufferSizes DEF CInv, TypeOK, Chars
<1>5. cut \in [Cells -> Chars] /\ \A i \in Cells : cut[i] \in {command[i], "NUL"}
  BY <1>4 DEF PathCut
<1> HIDE DEF cut
<1>6. TypeOK'
  BY <1>1, <1>2, <1>5 DEF CInv, TypeOK, Parsing
<1>7. Paren' <=> Paren
  BY <1>1 DEF Paren
<1>8. /\ OwnText' /\ LostOnlyByTheLine' /\ (depth <= x)' /\ Editing' /\ LineDone'
      /\ FactorBegins'
  BY <1>1, <1>2, <1>3, <1>7
     DEF OwnText, LostOnlyByTheLine, Editing, LineDone, FactorBegins, Paren
<1>9. LineKept'
  <2>1. Len(submitted) = length /\ length \in Cells \ {0}
    BY <1>2 DEF CInv, LineKept, Parsing
  <2>2. command'[length] = "NUL"
    <3>1. cut[length] = "NUL"
      BY <1>3, <1>5
    <3> QED
      BY <1>1, <3>1
  <2>3. \A i \in 0 .. length - 1 : command'[i] \in {submitted[i + 1], "NUL"}
    <3> SUFFICES ASSUME NEW i \in 0 .. length - 1
                 PROVE  command'[i] \in {submitted[i + 1], "NUL"}
      OBVIOUS
    <3>1. i \in Cells
      BY <1>3, <1>4
    <3> QED
      BY <1>1, <1>3, <1>5, <3>1
  <2> QED
    BY <1>1, <1>3, <1>7, <2>1, <2>2, <2>3 DEF LineKept
<1> QED
  BY <1>6, <1>8, <1>9 DEF CInv

LEMMA QuitKeeps ==
    ASSUME CInv, Quit
    PROVE  CInv'
<1>1. mode' = "quit" /\ UNCHANGED <<command, length, last, nonblock, x, depth, argv, submitted>>
  BY DEF Quit, editor, parser
<1>2. TypeOK'
  BY <1>1 DEF CInv, TypeOK, Parsing
<1> QED
  BY <1>1, <1>2 DEF CInv, OwnText, LostOnlyByTheLine, Editing, LineKept, LineDone, FactorBegins, Parsing

LEMMA ParseDoneKeeps ==
    ASSUME CInv, ParseDone
    PROVE  CInv'
<1>1. /\ mode' = "edit" /\ length' = 0 /\ x' = 0 /\ submitted' = <<>> /\ depth = 0
      /\ UNCHANGED <<command, last, nonblock, depth, argv>>
  BY DEF ParseDone
<1>2. 0 \in 0 .. COMMAND /\ <<>> \in Seq(Letters)
  BY BufferSizes
<1>3. TypeOK'
  BY <1>1, <1>2 DEF CInv, TypeOK, Parsing
<1> QED
  BY <1>1, <1>3 DEF CInv, OwnText, LostOnlyByTheLine, Editing, LineKept, LineDone, FactorBegins, Parsing
-----------------------------------------------------------------------------
\* exec_run(): its loop over the rest of the line, and the vector it fills.

\* The loop's variables: the words found so far, each with its place, leave room
\* for the word at hand.
Scans ==
    {a \in [on : BOOLEAN, argc : Nat, al : BOOLEAN, ap : Cells,
            starts : Seq(Cells), cuts : SUBSET Cells] :
        /\ a.argc = Len(a.starts) + 1
        /\ IF a.al THEN a.argc < MAX_ARGS ELSE a.argc <= MAX_ARGS}

LEMMA ArgumentKeeps ==
    ASSUME NEW a \in Scans, NEW i \in Cells, a.argc < MAX_ARGS
    PROVE  Argument(a, i) \in Scans
<1>1. /\ a \in [on : BOOLEAN, argc : Nat, al : BOOLEAN, ap : Cells,
                starts : Seq(Cells), cuts : SUBSET Cells]
      /\ a.argc = Len(a.starts) + 1
  BY DEF Scans
<1>2. MAX_ARGS \in Nat
  BY BufferSizes
<1>3. CASE ~iswhitespace(command[i])
  <2> DEFINE b == [a EXCEPT !.al = TRUE, !.ap = IF a.al THEN @ ELSE i]
  <2>1. Argument(a, i) = b
    BY <1>3 DEF Argument
  <2>2. /\ b \in [on : BOOLEAN, argc : Nat, al : BOOLEAN, ap : Cells,
                  starts : Seq(Cells), cuts : SUBSET Cells]
        /\ b.argc = a.argc /\ b.starts = a.starts /\ b.al
    BY <1>1
  <2> HIDE DEF b
  <2> QED
    BY <1>1, <2>1, <2>2 DEF Scans
<1>4. CASE iswhitespace(command[i]) /\ ~a.al
  BY <1>4 DEF Argument
<1>5. CASE iswhitespace(command[i]) /\ a.al
  <2> DEFINE starts == Append(a.starts, a.ap)
             n == a.argc + 1
             cuts == a.cuts \cup {i}
             b == [a EXCEPT !.starts = starts, !.argc = n, !.al = FALSE, !.cuts = cuts]
  <2>1. Argument(a, i) = b
    BY <1>5 DEF Argument
  <2>2. /\ starts \in Seq(Cells) /\ Len(starts) = Len(a.starts) + 1
        /\ n \in Nat /\ n = a.argc + 1 /\ cuts \in SUBSET Cells
    BY <1>1
  <2> HIDE DEF starts, n, cuts
  <2>3. /\ b \in [on : BOOLEAN, argc : Nat, al : BOOLEAN, ap : Cells,
                  starts : Seq(Cells), cuts : SUBSET Cells]
        /\ b.argc = n /\ b.starts = starts /\ b.al = FALSE
    BY <1>1, <2>2
  <2> HIDE DEF b
  <2>4. b.argc = Len(b.starts) + 1 /\ b.argc <= MAX_ARGS
    BY <1>1, <1>2, <2>2, <2>3
  <2> QED
    BY <2>1, <2>3, <2>4 DEF Scans
<1> QED
  BY <1>3, <1>4, <1>5

LEMMA ScanCellKeeps ==
    ASSUME NEW a \in Scans, NEW i \in Cells
    PROVE  ScanCell(a, i) \in Scans
<1>1. CASE a.on /\ ~EndsArguments(command[i]) /\ a.argc < MAX_ARGS
  BY <1>1, ArgumentKeeps DEF ScanCell
<1>2. CASE ~(a.on /\ ~EndsArguments(command[i]) /\ a.argc < MAX_ARGS)
  <2> DEFINE b == [a EXCEPT !.on = FALSE]
  <2>1. ScanCell(a, i) = b
    BY <1>2 DEF ScanCell
  <2>2. /\ b \in [on : BOOLEAN, argc : Nat, al : BOOLEAN, ap : Cells,
                  starts : Seq(Cells), cuts : SUBSET Cells]
        /\ b.argc = a.argc /\ b.starts = a.starts /\ b.al = a.al
    BY DEF Scans
  <2> HIDE DEF b
  <2> QED
    BY <2>1, <2>2 DEF Scans
<1> QED
  BY <1>1, <1>2

\* The loop's history, wherever it starts: it keeps to these states.
LEMMA ScanHistory ==
    ASSUME NEW s \in Cells
    PROVE  \E after :
               /\ Scan(s) = after[COMMAND - s]
               /\ after[0] = [on |-> TRUE, argc |-> 1, al |-> FALSE, ap |-> s,
                              starts |-> <<>>, cuts |-> {}]
               /\ \A k \in 1 .. COMMAND - s :
                      after[k] = ScanCell(after[k - 1], s + (k - 1))
               /\ \A k \in 0 .. COMMAND - s : after[k] \in Scans
<1> DEFINE base == [on |-> TRUE, argc |-> 1, al |-> FALSE, ap |-> s,
                    starts |-> <<>>, cuts |-> {}]
           n == COMMAND - s
           step == [k \in Nat |->
                       [a \in Scans |-> IF k \in 1 .. n THEN ScanCell(a, s + (k - 1)) ELSE a]]
           Loop(f) == f = [k \in 0 .. n |->
                              IF k = 0 THEN base ELSE ScanCell(f[k - 1], s + (k - 1))]
           after == CHOOSE f : Loop(f)
<1>1. /\ COMMAND \in Nat /\ s \in Nat /\ n \in Nat /\ Cells = 0 .. COMMAND - 1
      /\ \A k \in 1 .. n : s + (k - 1) \in Cells
  BY BufferSizes
<1>2. base \in Scans
  <2>1. <<>> \in Seq(Cells) /\ Len(<<>>) = 0 /\ 1 <= MAX_ARGS
    BY BufferSizes
  <2>2. base \in [on : BOOLEAN, argc : Nat, al : BOOLEAN, ap : Cells,
                  starts : Seq(Cells), cuts : SUBSET Cells]
    BY <2>1
  <2> QED
    BY <2>1, <2>2 DEF Scans
<1> HIDE DEF base
<1>3. \A k \in Nat : step[k] \in [Scans -> Scans]
  <2> SUFFICES ASSUME NEW k \in Nat
               PROVE  [a \in Scans |-> IF k \in 1 .. n THEN ScanCell(a, s + (k - 1)) ELSE a]
                          \in [Scans -> Scans]
    BY Zenon
  <2>1. \A a \in Scans : (IF k \in 1 .. n THEN ScanCell(a, s + (k - 1)) ELSE a) \in Scans
    BY <1>1, ScanCellKeeps
  <2> QED
    BY <2>1
<1> HIDE DEF n
<1>4. PICK g \in [0 .. n -> Scans] :
          g[0] = base /\ \A k \in 1 .. n : g[k] = step[k][g[k - 1]]
  <2> HIDE DEF step
  <2>1. Histories(Scans, base, step, n) # {}
    BY <1>1, <1>2, <1>3, Iterates
  <2> QED
    BY <2>1 DEF Histories
<1>5. \A k \in Nat : \A a \in Scans :
          step[k][a] = IF k \in 1 .. n THEN ScanCell(a, s + (k - 1)) ELSE a
  BY Zenon
<1> HIDE DEF step
<1>6. \A k \in 1 .. n : g[k] = ScanCell(g[k - 1], s + (k - 1))
  <2> SUFFICES ASSUME NEW k \in 1 .. n
               PROVE  g[k] = ScanCell(g[k - 1], s + (k - 1))
    OBVIOUS
  <2>1. k \in Nat /\ k - 1 \in 0 .. n
    BY <1>1
  <2>2. g[k - 1] \in Scans
    BY <2>1
  <2>3. step[k][g[k - 1]] = ScanCell(g[k - 1], s + (k - 1))
    BY <1>5, <2>1, <2>2
  <2> QED
    BY <1>4, <2>3
<1>7. Loop(g)
  <2>1. \A k \in 0 .. n : g[k] = IF k = 0 THEN base ELSE ScanCell(g[k - 1], s + (k - 1))
    <3> SUFFICES ASSUME NEW k \in 0 .. n
                 PROVE  g[k] = IF k = 0 THEN base ELSE ScanCell(g[k - 1], s + (k - 1))
      OBVIOUS
    <3>1. CASE k = 0
      BY <1>4, <3>1
    <3>2. CASE k # 0
      BY <1>1, <1>6, <3>2
    <3> QED
      BY <3>1, <3>2
  <2> QED
    BY <2>1
<1>8. Loop(after)
  <2> HIDE DEF Loop
  <2> QED
    BY <1>7
<1>9. \A k \in 0 .. n :
          after[k] = IF k = 0 THEN base ELSE ScanCell(after[k - 1], s + (k - 1))
  <2> HIDE DEF after
  <2> QED
    BY <1>8, Zenon
<1>10. Scan(s) = after[n]
  BY Zenon DEF Scan, n, base
<1> HIDE DEF after, Loop
<1>11. \A k \in Nat : k \in {m \in Nat : m <= n => after[m] \in Scans}
  <2> DEFINE T == {m \in Nat : m <= n => after[m] \in Scans}
  <2>1. 0 \in T
    BY <1>1, <1>2, <1>9
  <2>2. ASSUME NEW m \in Nat, m \in T PROVE m + 1 \in T
    <3> SUFFICES ASSUME m + 1 <= n PROVE after[m + 1] \in Scans
      OBVIOUS
    <3>1. after[m] \in Scans /\ m + 1 \in 0 .. n /\ m + 1 # 0 /\ (m + 1) - 1 = m
          /\ s + ((m + 1) - 1) = s + m /\ m + 1 \in 1 .. n
      BY <1>1, <2>2
    <3>2. after[m + 1] = ScanCell(after[m], s + m)
      BY <1>9, <3>1
    <3>3. s + m \in Cells
      BY <1>1, <3>1
    <3> QED
      BY <3>1, <3>2, <3>3, ScanCellKeeps
  <2> HIDE DEF T
  <2>3. \A k \in Nat : k \in T
    BY <2>1, <2>2, Induct
  <2> QED
    BY <2>3 DEF T
<1>12. after[0] = base /\ \A k \in 1 .. n : after[k] = ScanCell(after[k - 1], s + (k - 1))
  <2>1. 0 \in 0 .. n /\ \A k \in 1 .. n : k \in 0 .. n /\ k # 0
    BY <1>1
  <2> QED
    BY <1>9, <2>1, Zenon
<1>13. \A k \in 0 .. n : after[k] \in Scans
  BY <1>1, <1>11
<1> QED
  BY <1>10, <1>12, <1>13, Zenon DEF n, base

LEMMA ScanKeeps ==
    ASSUME NEW s \in Cells
    PROVE  Scan(s) \in Scans
<1>1. COMMAND - s \in 0 .. COMMAND - s
  BY BufferSizes
<1> QED
  BY <1>1, ScanHistory, Zenon

\* A string of the buffer is one of characters, and so is a token.
LEMMA StringAtType ==
    ASSUME NEW cells \in [Cells -> Chars], NEW i \in Cells
    PROVE  StringAt(cells, i) \in Seq(Chars)
<1> DEFINE ends == {j \in i .. COMMAND - 1 : cells[j] = "NUL"}
           end == IF ends = {} THEN COMMAND ELSE Min(ends)
<1>1. COMMAND \in Nat /\ Cells = 0 .. COMMAND - 1 /\ i \in 0 .. COMMAND
  BY BufferSizes
<1>2. ends \subseteq i .. COMMAND - 1
  OBVIOUS
<1>3. StringAt(cells, i) = [k \in 1 .. end - i |-> cells[i + k - 1]]
  BY DEF StringAt
<1> HIDE DEF ends
<1>4. end \in i .. COMMAND
  BY <1>1, <1>2, FirstStop
<1> HIDE DEF end
<1>5. end - i \in Nat /\ \A k \in 1 .. end - i : i + k - 1 \in Cells
  BY <1>1, <1>4
<1>6. \A k \in 1 .. end - i : cells[i + k - 1] \in Chars
  BY <1>5
<1> QED
  BY <1>3, <1>5, <1>6

LEMMA TokenType ==
    ASSUME command \in [Cells -> Chars], x \in 0 .. COMMAND
    PROVE  Token \in Seq(Chars)
<1>1. COMMAND \in Nat /\ Cells = 0 .. COMMAND - 1 /\ TokenEnd \in x .. COMMAND
  BY BufferSizes, TokenEnds
<1>2. TokenEnd - x \in Nat /\ \A i \in 1 .. TokenEnd - x : x + i - 1 \in Cells
  BY <1>1
<1>3. \A i \in 1 .. TokenEnd - x : command[x + i - 1] \in Chars
  BY <1>2
<1> QED
  BY <1>2, <1>3 DEF Token

\* The name of a program that runs.
LEMMA LastOtherIs ==
    ASSUME NEW S, NEW w \in Seq(S)
    PROVE  LastOther(w) \in 0 .. Len(w)
<1> DEFINE T == {0} \cup {i \in 1 .. Len(w) : w[i] # "/"}
<1>1. Len(w) \in Nat /\ T \subseteq 0 .. Len(w) /\ T # {}
  OBVIOUS
<1> HIDE DEF T
<1>2. \E m \in T : \A y \in T : y <= m
  BY <1>1, GreatestElement
<1>3. Max(T) \in T
  BY <1>2 DEF Max
<1> QED
  BY <1>1, <1>3 DEF LastOther, T

LEMMA CalledType ==
    ASSUME NEW S, NEW w \in Seq(S)
    PROVE  Called(w) \in Seq(S)
<1>1. LastOther(w) \in 0 .. Len(w) /\ Len(w) \in Nat
  BY LastOtherIs
<1>2. SubSeq(w, 1, LastOther(w)) \in Seq(S)
  BY <1>1
<1> QED
  BY <1>2 DEF Called

\* It has a name.
LEMMA RunHasName ==
    ASSUME CInv, RunProgram
    PROVE  TokenEnd > x
<1>1. AtToken /\ ~OnlySlashes(Token)
  BY DEF RunProgram
<1>2. x \in Nat /\ TokenEnd \in Nat /\ x <= TokenEnd
  BY <1>1, TokenInLine, ParserFacts
<1>3. \E i \in 1 .. Len(Token) : TRUE
  BY <1>1 DEF OnlySlashes
<1>4. Len(Token) = TokenEnd - x
  BY <1>2 DEF Token
<1> QED
  BY <1>2, <1>3, <1>4

LEMMA RunProgramKeeps ==
    ASSUME CInv, RunProgram
    PROVE  CInv'
<1> DEFINE scan == Scan(NextWord)
           starts == IF scan.al THEN Append(scan.starts, scan.ap) ELSE scan.starts
           cut == [i \in Cells |-> IF i \in scan.cuts THEN "NUL" ELSE command[i]]
           strings == [n \in 1 .. Len(starts) |-> StringAt(cut, starts[n])]
<1>1. /\ AtToken /\ NextWord \in Cells /\ x' = NextWord /\ mode' = "program"
      /\ command' = cut /\ argv' = <<Called(Token)>> \o strings
      /\ UNCHANGED <<length, last, nonblock, depth, submitted>>
  BY DEF RunProgram
<1>2. /\ submitted # <<>> /\ mode = "factor"
      /\ TokenEnd \in Nat /\ x <= TokenEnd /\ TokenEnd <= NextWord
      /\ NextWord \in 0 .. COMMAND
      /\ Paren \/ (NextWord <= length /\ TokenEnd <= length)
  BY <1>1, TokenInLine
<1>3. /\ x \in Nat /\ x < COMMAND /\ COMMAND \in Nat /\ depth \in Nat /\ depth <= x
      /\ length \in Cells /\ length \in Nat /\ Len(submitted) = length
      /\ command[length] = "NUL" /\ (Paren \/ depth = 0)
      /\ \A j \in 0 .. length - 1 : command[j] \in {submitted[j + 1], "NUL"}
  BY <1>2, ParserFacts
<1>4. command \in [Cells -> Chars] /\ "NUL" \in Chars /\ Cells = 0 .. COMMAND - 1
  BY BufferSizes DEF CInv, TypeOK, Chars
<1>5. scan \in Scans
  BY <1>1, ScanKeeps
<1> HIDE DEF scan
<1>6. cut \in [Cells -> Chars] /\ \A i \in Cells : cut[i] \in {command[i], "NUL"}
  BY <1>4
<1> HIDE DEF cut
<1>7. starts \in Seq(Cells) /\ Len(starts) + 1 <= MAX_ARGS
  <2>1. /\ scan.starts \in Seq(Cells) /\ scan.ap \in Cells
        /\ scan.argc = Len(scan.starts) + 1
        /\ IF scan.al THEN scan.argc < MAX_ARGS ELSE scan.argc <= MAX_ARGS
    BY <1>5 DEF Scans
  <2>2. MAX_ARGS \in Nat /\ Len(scan.starts) \in Nat
    BY <2>1, BufferSizes
  <2>3. CASE scan.al
    BY <2>1, <2>2, <2>3
  <2>4. CASE ~scan.al
    BY <2>1, <2>2, <2>4
  <2> QED
    BY <2>3, <2>4
<1> HIDE DEF starts
<1>8. argv' \in Seq(Seq(Chars)) /\ Len(argv') <= MAX_ARGS
  <2>1. Len(starts) \in Nat /\ \A n \in 1 .. Len(starts) : starts[n] \in Cells
    BY <1>7
  <2>2. \A n \in 1 .. Len(starts) : StringAt(cut, starts[n]) \in Seq(Chars)
    BY <1>6, <2>1, StringAtType
  <2>3. strings \in Seq(Seq(Chars)) /\ Len(strings) = Len(starts)
    BY <2>1, <2>2
  <2> HIDE DEF strings
  <2>4. Called(Token) \in Seq(Chars)
    <3>1. x \in 0 .. COMMAND
      BY <1>3
    <3> QED
      BY <1>4, <3>1, TokenType, CalledType
  <2> DEFINE S == Seq(Chars)
             t == Called(Token)
  <2> HIDE DEF S, t
  <2>5. <<t>> \o strings \in Seq(S) /\ Len(<<t>> \o strings) = 1 + Len(starts)
    BY <2>1, <2>3, <2>4 DEF S, t
  <2> QED
    BY <1>1, <1>7, <2>1, <2>5 DEF S, t
<1>9. TypeOK'
  BY <1>1, <1>2, <1>6, <1>8 DEF CInv, TypeOK, Parsing
<1>10. Paren' <=> Paren
  BY <1>1 DEF Paren
<1>11. /\ OwnText' /\ LostOnlyByTheLine' /\ (depth <= x)' /\ Editing' /\ LineDone'
       /\ FactorBegins'
  BY <1>1, <1>2, <1>3, <1>10 DEF OwnText, LostOnlyByTheLine, Editing, LineDone, FactorBegins, Paren
<1>12. LineKept'
  <2>1. Len(submitted) = length /\ length \in Cells \ {0}
    BY <1>2 DEF CInv, LineKept, Parsing
  <2>2. command'[length] = "NUL"
    <3>1. cut[length] = "NUL"
      BY <1>3, <1>6
    <3> QED
      BY <1>1, <3>1
  <2>3. \A i \in 0 .. length - 1 : command'[i] \in {submitted[i + 1], "NUL"}
    <3> SUFFICES ASSUME NEW i \in 0 .. length - 1
                 PROVE  command'[i] \in {submitted[i + 1], "NUL"}
      OBVIOUS
    <3>1. i \in Cells
      BY <1>3, <1>4
    <3> QED
      BY <1>1, <1>3, <1>6, <3>1
  <2> QED
    BY <1>1, <1>3, <1>10, <2>1, <2>2, <2>3 DEF LineKept
<1> QED
  BY <1>9, <1>11, <1>12 DEF CInv

\* A line without operators has nothing behind its program that is parsed on.
LEMMA ProgramReturnKeeps ==
    ASSUME CInv, NEW flag \in BOOLEAN, ProgramReturn(flag)
    PROVE  CInv'
<1>1. /\ mode = "program" /\ nonblock' = flag /\ mode' = "after" /\ argv' = <<>>
      /\ submitted' = (IF Plain(submitted) THEN <<>> ELSE submitted)
      /\ UNCHANGED <<command, length, last, x, depth>>
  BY DEF ProgramReturn, editor, parser
<1>2. submitted # <<>> /\ submitted \in Seq(Letters)
  BY <1>1 DEF CInv, TypeOK, LineDone, Parsing
<1>3. /\ Len(submitted) = length /\ length \in Cells \ {0}
      /\ command[length] = "NUL"
      /\ \A i \in 0 .. length - 1 : command[i] \in {submitted[i + 1], "NUL"}
      /\ Paren \/ depth = 0
  BY <1>1, <1>2 DEF CInv, LineKept, Parsing
<1>4. Paren \/ x <= length
  BY <1>1 DEF CInv, OwnText, Parsing, Paren
<1>5. <<>> \in Seq(Letters) /\ <<>> \in Seq(Seq(Chars)) /\ Len(<<>>) <= MAX_ARGS
  BY BufferSizes
<1>6. TypeOK'
  BY <1>1, <1>2, <1>5 DEF CInv, TypeOK, Parsing
<1>7. LostOnlyByTheLine' /\ (depth <= x)' /\ Editing'
  BY <1>1 DEF CInv, LostOnlyByTheLine, Editing
<1>8. CASE Plain(submitted)
  <2>1. ~Paren
    BY <1>8 DEF Plain, Special, Paren
  <2>2. x \in Cells /\ COMMAND \in Nat /\ Cells = 0 .. COMMAND - 1
    BY <1>1, BufferSizes DEF CInv, TypeOK, Parsing
  <2>3. command[x] \notin {"*", "+"}
    <3>1. CASE x = length
      BY <1>3, <3>1
    <3>2. CASE x # length
      <4>1. x \in 0 .. length - 1 /\ x + 1 \in 1 .. Len(submitted)
        BY <1>3, <1>4, <2>1, <2>2, <3>2
      <4>2. submitted[x + 1] \notin {"*", "+"}
        BY <1>8, <4>1 DEF Plain, Special
      <4> QED
        BY <1>3, <4>1, <4>2
    <3> QED
      BY <3>1, <3>2
  <2>4. submitted' = <<>> /\ x <= length /\ depth = 0
    BY <1>1, <1>3, <1>4, <1>8, <2>1
  <2> QED
    BY <1>1, <1>6, <1>7, <2>3, <2>4 DEF CInv, OwnText, LineKept, LineDone, FactorBegins
<1>9. CASE ~Plain(submitted)
  <2>1. submitted' = submitted
    BY <1>1, <1>9
  <2> QED
    BY <1>1, <1>2, <1>3, <1>4, <1>6, <1>7, <2>1
       DEF CInv, OwnText, LineKept, LineDone, FactorBegins, Paren
<1> QED
  BY <1>8, <1>9
-----------------------------------------------------------------------------
LEMMA CInit == Init => CInv
<1> SUFFICES ASSUME Init PROVE CInv
  OBVIOUS
<1>1. /\ command = [i \in Cells |-> "NUL"] /\ length = 0 /\ last = "NUL"
      /\ nonblock = FALSE /\ mode = "edit" /\ x = 0 /\ depth = 0 /\ argv = <<>>
      /\ submitted = <<>>
  BY DEF Init
<1>2. "NUL" \in Chars /\ 0 \in 0 .. COMMAND /\ Len(<<>>) <= MAX_ARGS
      /\ <<>> \in Seq(Letters) /\ <<>> \in Seq(Seq(Chars))
  BY BufferSizes DEF Chars
<1>3. TypeOK
  BY <1>1, <1>2 DEF TypeOK, Parsing
<1> QED
  BY <1>1, <1>3 DEF CInv, OwnText, LostOnlyByTheLine, Editing, LineKept, LineDone, FactorBegins, Parsing

LEMMA CNext == CInv /\ [Next]_vars => CInv'
<1> SUFFICES ASSUME CInv, [Next]_vars PROVE CInv'
  OBVIOUS
<1>1. ASSUME NEW c \in Keys, Press(c) PROVE CInv'
  BY <1>1, HandleKeeps DEF Press
<1>2. CASE ReadNothing
  <2>1. mode = "edit" /\ Handle(last) /\ last \in Keys \cup {"NUL"}
    BY <1>2 DEF ReadNothing, CInv, TypeOK
  <2> QED
    BY <2>1, HandleKeeps
<1>3. CASE Parse
  BY <1>3, NumberKeeps, OpenParenKeeps, DispatchKeeps, LoadKeeps, QuitKeeps, RunProgramKeeps,
     OperatorKeeps, CloseParenKeeps, ParseDoneKeeps DEF Parse
<1>4. ASSUME NEW flag \in BOOLEAN, ProgramReturn(flag) PROVE CInv'
  BY <1>4, ProgramReturnKeeps
<1>5. CASE UNCHANGED vars
  <2>1. UNCHANGED <<command, length, last, nonblock, mode, x, depth, argv, submitted>>
    BY <1>5 DEF vars
  <2>2. TypeOK'
    BY <2>1 DEF CInv, TypeOK
  <2> QED
    BY <2>1, <2>2 DEF CInv, OwnText, LostOnlyByTheLine, Editing, LineKept, LineDone, FactorBegins, Paren
<1> QED
  BY <1>1, <1>2, <1>3, <1>4, <1>5 DEF Next, Stopped

LEMMA LineInvariant == Spec => []CInv
BY CInit, CNext, PTL DEF Spec

\* The types, and with them the argument vector of exec_run(): it never has more
\* entries than there is room for, however many words follow a program's name.
THEOREM CommandLineTypes == Spec => []TypeOK
<1>1. CInv => TypeOK
  BY DEF CInv
<1> QED
  BY <1>1, LineInvariant, PTL

\* The parser of supermain() stays inside the line that was typed unless a
\* parenthesis was opened: what earlier, longer lines left in the buffer behind
\* it is not read as a command.
THEOREM ParserKeepsToLine == Spec => []OwnText
<1>1. CInv => OwnText
  BY DEF CInv
<1> QED
  BY <1>1, LineInvariant, PTL

\* The buffers of supermain() are left only by a line that fills the buffer, by a
\* word that fills parseString, or behind a parenthesis.
THEOREM LostByTheLine == Spec => []LostOnlyByTheLine
<1>1. CInv => LostOnlyByTheLine
  BY DEF CInv
<1> QED
  BY <1>1, LineInvariant, PTL
-----------------------------------------------------------------------------
\* The words of a line.

\* A word goes as far as the next blank or the end of the line.
LEMMA WordGoesOn ==
    ASSUME NEW s, Len(s) \in Nat, NEW i \in 1 .. Len(s), s[i] \notin Promise!Blank
    PROVE  \E e \in i .. Len(s) :
               /\ Promise!WordAt(s, i) = SubSeq(s, i, e)
               /\ \A k \in i .. e : s[k] \notin Promise!Blank
               /\ e < Len(s) => s[e + 1] \in Promise!Blank
<1> DEFINE T == {j \in i .. Len(s) : \A k \in i .. j : s[k] \notin Promise!Blank}
<1>1. T \subseteq 0 .. Len(s) /\ i \in T
  OBVIOUS
<1>2. PICK e \in T : \A y \in T : y <= e
  <2> HIDE DEF T
  <2> QED
    BY <1>1, GreatestElement
<1>3. Promise!Max(T) = e
  <2>1. e \in Int /\ \A y \in T : e >= y /\ y \in Int
    BY <1>1, <1>2
  <2> HIDE DEF T
  <2>2. \A z \in T : (\A y \in T : z >= y) => z = e
    BY <1>2, <2>1
  <2> QED
    BY <1>2, <2>1, <2>2 DEF Promise!Max
<1>4. Promise!WordAt(s, i) = SubSeq(s, i, e)
  BY <1>3, Zenon DEF Promise!WordAt
<1>5. ASSUME e < Len(s), s[e + 1] \notin Promise!Blank PROVE FALSE
  <2>1. e + 1 \in i .. Len(s)
    BY <1>5
  <2>2. \A k \in i .. e + 1 : k \in i .. e \/ k = e + 1
    BY <2>1
  <2>3. e + 1 \in T
    BY <1>5, <2>1, <2>2
  <2> QED
    BY <1>2, <2>3
<1> QED
  BY <1>2, <1>4, <1>5

\* u holds, for each i, the words that begin at i at the latest.
UpTo(s, u) ==
    /\ \A i \in 0 .. Len(s) :
           u[i] \in Seq({Promise!WordAt(s, j) : j \in 1 .. Len(s)})
    /\ u[0] = <<>>
    /\ \A i \in 1 .. Len(s) :
           u[i] = IF i \in Promise!WordStarts(s)
                  THEN Append(u[i - 1], Promise!WordAt(s, i)) ELSE u[i - 1]

LEMMA WordsUpTo ==
    ASSUME NEW s, Len(s) \in Nat
    PROVE  \E u : UpTo(s, u) /\ Promise!Words(s) = u[Len(s)]
<1> DEFINE n == Len(s)
           W(i) == Promise!WordAt(s, i)
           A == Seq({W(j) : j \in 1 .. n})
           Then(w, i) == IF i \in Promise!WordStarts(s) THEN Append(w, W(i)) ELSE w
           step == [k \in Nat |-> [w \in A |-> IF k \in 1 .. n THEN Then(w, k) ELSE w]]
           Loop(f) == f = [i \in 0 .. n |->
                              IF i = 0 THEN <<>>
                              ELSE IF i \in Promise!WordStarts(s) THEN Append(f[i - 1], W(i))
                              ELSE f[i - 1]]
           u == CHOOSE f : Loop(f)
<1>1. n \in Nat /\ <<>> \in A
  OBVIOUS
<1>2. \A k \in 1 .. n : \A w \in A : Then(w, k) \in A
  <2> SUFFICES ASSUME NEW k \in 1 .. n, NEW w \in A PROVE Then(w, k) \in A
    OBVIOUS
  <2>1. W(k) \in {W(j) : j \in 1 .. n}
    OBVIOUS
  <2> DEFINE S == {W(j) : j \in 1 .. n}
             word == W(k)
  <2> HIDE DEF S, word
  <2>2. Append(w, word) \in Seq(S)
    BY <2>1 DEF S, word
  <2> QED
    BY <2>2 DEF S, word
<1> HIDE DEF A
<1>3. \A k \in Nat : step[k] \in [A -> A]
  <2> SUFFICES ASSUME NEW k \in Nat
               PROVE  [w \in A |-> IF k \in 1 .. n THEN Then(w, k) ELSE w] \in [A -> A]
    BY Zenon
  <2>1. \A w \in A : (IF k \in 1 .. n THEN Then(w, k) ELSE w) \in A
    BY <1>2
  <2> QED
    BY <2>1
<1>4. PICK g \in [0 .. n -> A] :
          g[0] = <<>> /\ \A k \in 1 .. n : g[k] = step[k][g[k - 1]]
  <2> HIDE DEF step
  <2>1. Histories(A, <<>>, step, n) # {}
    BY <1>1, <1>3, Iterates
  <2> QED
    BY <2>1 DEF Histories
<1>5. \A k \in Nat : \A w \in A : step[k][w] = IF k \in 1 .. n THEN Then(w, k) ELSE w
  BY Zenon
<1> HIDE DEF step
<1>6. \A k \in 1 .. n : g[k] = Then(g[k - 1], k)
  <2> SUFFICES ASSUME NEW k \in 1 .. n PROVE g[k] = Then(g[k - 1], k)
    OBVIOUS
  <2>1. k \in Nat /\ k - 1 \in 0 .. n
    BY <1>1
  <2>2. g[k - 1] \in A
    BY <2>1
  <2> HIDE DEF Then
  <2>3. step[k][g[k - 1]] = Then(g[k - 1], k)
    BY <1>5, <2>1, <2>2
  <2> QED
    BY <1>4, <2>3
<1>7. Loop(g)
  <2>1. \A i \in 0 .. n :
            g[i] = IF i = 0 THEN <<>>
                   ELSE IF i \in Promise!WordStarts(s) THEN Append(g[i - 1], W(i))
                   ELSE g[i - 1]
    <3> SUFFICES ASSUME NEW i \in 0 .. n
                 PROVE  g[i] = IF i = 0 THEN <<>>
                               ELSE IF i \in Promise!WordStarts(s) THEN Append(g[i - 1], W(i))
                               ELSE g[i - 1]
      OBVIOUS
    <3>1. CASE i = 0
      BY <1>4, <3>1
    <3>2. CASE i # 0
      <4>1. i \in 1 .. n
        BY <1>1, <3>2
      <4>2. g[i] = Then(g[i - 1], i)
        BY <1>6, <4>1, Zenon
      <4> QED
        BY <3>2, <4>2, Zenon
    <3> QED
      BY <3>1, <3>2, Zenon
  <2> HIDE DEF W
  <2> QED
    BY <2>1
<1>8. Loop(u)
  <2> HIDE DEF Loop
  <2> QED
    BY <1>7
<1>9. Promise!Words(s) = u[n]
  BY Zenon DEF Promise!Words
<1>10. \A i \in 0 .. n :
           u[i] = IF i = 0 THEN <<>>
                  ELSE IF i \in Promise!WordStarts(s) THEN Append(u[i - 1], W(i)) ELSE u[i - 1]
  <2> HIDE DEF u, W
  <2> QED
    BY <1>8, Zenon
<1> HIDE DEF u, Loop
<1>11. u[0] = <<>> /\ \A i \in 1 .. n : u[i] = Then(u[i - 1], i)
  <2>1. 0 \in 0 .. n
    BY <1>1
  <2>2. u[0] = <<>>
    BY <1>10, <2>1, Zenon
  <2>3. ASSUME NEW i \in 1 .. n PROVE u[i] = Then(u[i - 1], i)
    <3>1. i \in 0 .. n /\ i # 0
      BY <1>1
    <3> QED
      BY <1>10, <3>1, Zenon
  <2> QED
    BY <2>2, <2>3
<1>12. \A k \in Nat : k \in {m \in Nat : m <= n => u[m] \in A}
  <2> DEFINE T == {m \in Nat : m <= n => u[m] \in A}
  <2>1. 0 \in T
    BY <1>1, <1>11
  <2>2. ASSUME NEW m \in Nat, m \in T PROVE m + 1 \in T
    <3> SUFFICES ASSUME m + 1 <= n PROVE u[m + 1] \in A
      OBVIOUS
    <3>1. u[m] \in A /\ m + 1 \in 1 .. n /\ (m + 1) - 1 = m
      BY <1>1, <2>2
    <3> HIDE DEF Then
    <3>2. u[m + 1] = Then(u[m], m + 1)
      BY <1>11, <3>1
    <3> QED
      BY <1>2, <3>1, <3>2
  <2> HIDE DEF T
  <2>3. \A k \in Nat : k \in T
    BY <2>1, <2>2, Induct
  <2> QED
    BY <2>3 DEF T
<1>13. \A i \in 0 .. n : u[i] \in Seq({Promise!WordAt(s, j) : j \in 1 .. n})
  <2> SUFFICES ASSUME NEW i \in 0 .. n PROVE u[i] \in A
    BY Zenon DEF A
  <2>1. i \in Nat /\ i <= n
    BY <1>1
  <2> QED
    BY <1>12, <2>1
<1>14. \A i \in 1 .. n :
           u[i] = IF i \in Promise!WordStarts(s)
                  THEN Append(u[i - 1], Promise!WordAt(s, i)) ELSE u[i - 1]
  BY <1>11, Zenon
<1> HIDE DEF Then, W
<1>15. UpTo(s, u)
  BY <1>11, <1>13, <1>14, Zenon DEF UpTo
<1> QED
  BY <1>9, <1>15

\* Later words come behind the earlier ones.
LEMMA WordsGrow ==
    ASSUME NEW s, Len(s) \in Nat, NEW u, UpTo(s, u), NEW p \in 0 .. Len(s)
    PROVE  \A i \in p .. Len(s) :
               /\ Len(u[p]) <= Len(u[i])
               /\ \A n \in 1 .. Len(u[p]) : u[i][n] = u[p][n]
<1> DEFINE S == {Promise!WordAt(s, j) : j \in 1 .. Len(s)}
           Grown(w) == Len(u[p]) <= Len(w) /\ \A n \in 1 .. Len(u[p]) : w[n] = u[p][n]
           T == {m \in Nat : p + m <= Len(s) => Grown(u[p + m])}
<1>1. \A i \in 0 .. Len(s) : u[i] \in Seq(S)
  BY Zenon DEF UpTo
<1>2. \A i \in 1 .. Len(s) :
          \/ u[i] = u[i - 1]
          \/ u[i] = Append(u[i - 1], Promise!WordAt(s, i)) /\ Promise!WordAt(s, i) \in S
  <2> SUFFICES ASSUME NEW i \in 1 .. Len(s)
               PROVE  \/ u[i] = u[i - 1]
                      \/ /\ u[i] = Append(u[i - 1], Promise!WordAt(s, i))
                         /\ Promise!WordAt(s, i) \in S
    BY Zenon
  <2>1. Promise!WordAt(s, i) \in S
    BY Zenon
  <2> QED
    BY <2>1, Zenon DEF UpTo
<1> HIDE DEF S
<1>3. 0 \in T
  <2>1. p + 0 = p /\ Len(u[p]) \in Nat
    BY <1>1
  <2> QED
    BY <2>1
<1>4. ASSUME NEW m \in Nat, m \in T PROVE m + 1 \in T
  <2> SUFFICES ASSUME p + (m + 1) <= Len(s) PROVE Grown(u[p + (m + 1)])
    OBVIOUS
  <2> DEFINE i == p + (m + 1)
             v == u[i - 1]
             word == Promise!WordAt(s, i)
  <2>1. i \in 1 .. Len(s) /\ i - 1 \in 0 .. Len(s) /\ i - 1 = p + m /\ p + m <= Len(s)
    OBVIOUS
  <2>2. Grown(v) /\ v \in Seq(S) /\ u[p] \in Seq(S)
    BY <1>1, <1>4, <2>1
  <2>3. u[i] = v \/ (u[i] = Append(v, word) /\ word \in S)
    BY <1>2, <2>1, Zenon
  <2> HIDE DEF i, v, word
  <2>4. Grown(u[i])
    <3>1. CASE u[i] = v
      BY <2>2, <3>1
    <3>2. CASE u[i] = Append(v, word) /\ word \in S
      <4>1. Len(Append(v, word)) = Len(v) + 1
            /\ \A n \in 1 .. Len(v) : Append(v, word)[n] = v[n]
        BY <2>2, <3>2
      <4>2. Len(v) \in Nat /\ Len(u[p]) \in Nat
        BY <2>2
      <4> QED
        BY <2>2, <3>2, <4>1, <4>2
    <3> QED
      BY <2>3, <3>1, <3>2
  <2> QED
    BY <2>4 DEF i
<1>5. \A m \in Nat : m \in T
  <2> HIDE DEF T
  <2> QED
    BY <1>3, <1>4, Induct
<1>6. ASSUME NEW i \in p .. Len(s) PROVE Grown(u[i])
  <2>1. i - p \in Nat /\ p + (i - p) = i /\ i <= Len(s)
    OBVIOUS
  <2>2. i - p \in T
    BY <1>5, <2>1
  <2> QED
    BY <2>1, <2>2
<1> QED
  BY <1>6

\* So the first words of a line are known where they are enough, or all.
LEMMA FirstWordsAre ==
    ASSUME NEW s, Len(s) \in Nat, NEW u, UpTo(s, u), Promise!Words(s) = u[Len(s)],
           NEW p \in 0 .. Len(s),
           \/ p = Len(s) /\ Len(u[p]) <= MAX_ARGS
           \/ Len(u[p]) = MAX_ARGS
    PROVE  Promise!FirstWords(s) = u[p]
<1> DEFINE S == {Promise!WordAt(s, j) : j \in 1 .. Len(s)}
           w == u[Len(s)]
           v == u[p]
<1>1. w \in Seq(S) /\ v \in Seq(S)
  <2>1. \A i \in 0 .. Len(s) : u[i] \in Seq(S)
    BY Zenon DEF UpTo
  <2> HIDE DEF S
  <2> QED
    BY <2>1
<1> HIDE DEF S
<1>2. Len(v) <= Len(w) /\ \A n \in 1 .. Len(v) : w[n] = v[n]
  BY WordsGrow
<1>3. (v = w /\ Len(v) <= MAX_ARGS) \/ Len(v) = MAX_ARGS
  OBVIOUS
<1>4. Promise!FirstWords(s) = SubSeq(w, 1, Promise!Min({Len(w), MAX_ARGS}))
  BY Zenon DEF Promise!FirstWords
<1> HIDE DEF v, w
<1>5. Len(v) \in Nat /\ Len(w) \in Nat /\ MAX_ARGS \in Nat
  BY <1>1, BufferSizes
<1>6. Promise!Min({Len(w), MAX_ARGS}) = Len(v)
  <2>1. Len(v) \in {Len(w), MAX_ARGS} /\ \A y \in {Len(w), MAX_ARGS} : Len(v) <= y
    BY <1>2, <1>3, <1>5
  <2>2. \A y \in {Len(w), MAX_ARGS} :
            (\A z \in {Len(w), MAX_ARGS} : y <= z) => y = Len(v)
    BY <1>5, <2>1
  <2> QED
    BY <2>1, <2>2, Zenon DEF Promise!Min
<1>7. SubSeq(w, 1, Len(v)) = v
  <2>1. SubSeq(w, 1, Len(v)) \in Seq(S) /\ Len(SubSeq(w, 1, Len(v))) = Len(v)
        /\ \A n \in 1 .. Len(v) : SubSeq(w, 1, Len(v))[n] = w[n]
    BY <1>1, <1>2, <1>5
  <2>2. \A n \in 1 .. Len(v) : SubSeq(w, 1, Len(v))[n] = v[n]
    BY <1>2, <2>1
  <2> QED
    BY <1>1, <2>1, <2>2, SeqEqual
<1> QED
  BY <1>4, <1>6, <1>7 DEF v
-----------------------------------------------------------------------------
\* The line at hand, and the program it runs.

\* There are arguments while a program runs.
Arguments == mode = "program" <=> argv # <<>>

\* A line without operators has one factor, at its beginning, and until that has
\* been parsed the buffer holds the line as it was typed.
OneFactor ==
    mode = "factor" /\ Plain(submitted) =>
        x = 0 /\ \A i \in 0 .. length - 1 : command[i] = submitted[i + 1]

SInv == CInv /\ Arguments /\ OneFactor

LEMMA HandleStarts ==
    ASSUME SInv, mode = "edit", NEW c \in Keys \cup {"NUL"}, Handle(c)
    PROVE  Arguments' /\ OneFactor'
<1>1. /\ submitted' = (IF mode' = "factor" THEN Typed ELSE <<>>)
      /\ UNCHANGED <<x, argv>>
  BY DEF Handle
<1>2. CInv /\ argv = <<>>
  BY DEF SInv, Arguments
<1>3. /\ mode' \in {"edit", "quit", "lost", "factor"}
      /\ mode' = "factor" =>
             /\ length \in Cells \ {0} /\ length' = length
             /\ command' = [command EXCEPT ![length] = "NUL"]
  BY <1>2, KeyEffects
<1>4. /\ x = 0 /\ command \in [Cells -> Chars]
      /\ Cells = 0 .. COMMAND - 1 /\ COMMAND \in Nat
      /\ \A i \in 0 .. length - 1 : Typed[i + 1] = command[i]
  BY <1>2, BufferSizes, LineAtPrompt DEF CInv, TypeOK, Editing
<1>5. ASSUME mode' = "factor" PROVE x' = 0 /\ \A i \in 0 .. length' - 1 : command'[i] = submitted'[i + 1]
  BY <1>1, <1>3, <1>4, <1>5
<1> QED
  BY <1>1, <1>2, <1>3, <1>5 DEF Arguments, OneFactor

\* An operator, or a parenthesis, that the parser comes to was typed.
LEMMA OperatorTyped ==
    ASSUME SInv, OpenParen \/ Operator
    PROVE  ~Plain(submitted)
<1> SUFFICES ASSUME Plain(submitted) PROVE FALSE
  OBVIOUS
<1>1. CInv
  BY DEF SInv
<1>2. /\ command[x] \in Special /\ "NUL" \notin Special
      /\ mode \in {"factor", "after"} /\ submitted # <<>>
  BY <1>1, LineAtHand DEF OpenParen, Operator, Special
<1>3. /\ x \in Nat /\ length \in Nat /\ command[length] = "NUL" /\ Len(submitted) = length
      /\ Paren \/ x <= length
      /\ \A j \in 0 .. length - 1 : command[j] \in {submitted[j + 1], "NUL"}
  BY <1>1, <1>2, ParserFacts
<1>4. ~Paren
  BY DEF Paren, Plain, Special
<1>5. x \in 0 .. length - 1 /\ x + 1 \in 1 .. Len(submitted)
  BY <1>2, <1>3, <1>4
<1>6. command[x] = submitted[x + 1]
  BY <1>2, <1>3, <1>5
<1> QED
  BY <1>2, <1>5, <1>6 DEF Plain

LEMMA ParseStarts ==
    ASSUME SInv, Parse
    PROVE  Arguments' /\ OneFactor'
<1>1. CInv /\ Arguments
  BY DEF SInv
<1>2. CASE OpenParen \/ Operator
  <2>1. mode' # "program" /\ mode # "program" /\ argv' = argv /\ submitted' = submitted
    BY <1>2 DEF OpenParen, Operator, Goto
  <2>2. ~Plain(submitted')
    BY <1>2, <2>1, OperatorTyped
  <2> QED
    BY <1>1, <2>1, <2>2 DEF Arguments, OneFactor
<1>3. CASE Number \/ Dispatch \/ Load \/ Quit \/ CloseParen \/ ParseDone
  <2>1. mode' \notin {"factor", "program"} /\ mode # "program" /\ argv' = argv
    BY <1>3 DEF Number, Dispatch, Load, Quit, CloseParen, ParseDone, Goto, AtToken
  <2> QED
    BY <1>1, <2>1 DEF Arguments, OneFactor
<1>4. CASE RunProgram
  <2> DEFINE scan == Scan(NextWord)
             starts == IF scan.al THEN Append(scan.starts, scan.ap) ELSE scan.starts
             cut == [i \in Cells |-> IF i \in scan.cuts THEN "NUL" ELSE command[i]]
             strings == [n \in 1 .. Len(starts) |-> StringAt(cut, starts[n])]
  <2>1. mode' = "program" /\ argv' = <<Called(Token)>> \o strings
    BY <1>4 DEF RunProgram
  <2>2. CInv'
    BY <1>1, <1>4, RunProgramKeeps
  <2>3. argv' # <<>>
    <3>1. Len(starts) \in Nat
      <4>1. scan \in Scans
        BY <1>4, ScanKeeps DEF RunProgram
      <4> HIDE DEF scan
      <4> QED
        BY <4>1 DEF Scans
    <3> HIDE DEF starts
    <3> DEFINE len == Len(starts)
               F(n) == StringAt(cut, starts[n])
               t == Called(Token)
    <3> HIDE DEF len, F
    <3>2. strings = [n \in 1 .. len |-> F(n)]
      BY Zenon DEF len, F
    <3>3. strings \in Seq({F(n) : n \in 1 .. len}) 
      BY <3>1, <3>2 DEF len
    <3> HIDE DEF strings, t
    <3>4. <<t>> \o strings # <<>>
      <4> DEFINE A == {F(n) : n \in 1 .. len} \cup {t}
      <4>1. strings \in Seq(A) /\ <<t>> \in Seq(A)
        BY <3>3
      <4> HIDE DEF A
      <4>2. Len(<<t>> \o strings) = 1 + Len(strings) /\ Len(strings) \in Nat
        BY <4>1
      <4> QED
        BY <4>2
    <3> QED
      BY <2>1, <3>4 DEF t
  <2> QED
    BY <2>1, <2>3 DEF Arguments, OneFactor
<1> QED
  BY <1>2, <1>3, <1>4 DEF Parse

LEMMA SNext == SInv /\ [Next]_vars => SInv'
<1> SUFFICES ASSUME SInv, [Next]_vars PROVE SInv'
  OBVIOUS
<1>1. CInv /\ CInv'
  BY CNext DEF SInv
<1> SUFFICES Arguments' /\ OneFactor'
  BY <1>1 DEF SInv
<1>2. ASSUME NEW c \in Keys, Press(c) PROVE Arguments' /\ OneFactor'
  BY <1>2, HandleStarts DEF Press
<1>3. CASE ReadNothing
  <2>1. mode = "edit" /\ Handle(last) /\ last \in Keys \cup {"NUL"}
    BY <1>1, <1>3 DEF ReadNothing, CInv, TypeOK
  <2> QED
    BY <2>1, HandleStarts
<1>4. CASE Parse
  BY <1>4, ParseStarts
<1>5. ASSUME NEW flag \in BOOLEAN, ProgramReturn(flag) PROVE Arguments' /\ OneFactor'
  BY <1>5 DEF ProgramReturn, Arguments, OneFactor
<1>6. CASE UNCHANGED vars
  BY <1>6 DEF vars, SInv, Arguments, OneFactor
<1> QED
  BY <1>2, <1>3, <1>4, <1>5, <1>6 DEF Next, Stopped

LEMMA ShellInvariant == Spec => []SInv
<1>1. Init => SInv
  BY CInit DEF Init, SInv, Arguments, OneFactor
<1> QED
  BY <1>1, SNext, PTL DEF Spec
-----------------------------------------------------------------------------
\* exec_run() finds the words.

\* The buffer holds the line, and behind it a NUL.
HoldsLine ==
    /\ Len(submitted) = length /\ length \in Cells /\ command[length] = "NUL"
    /\ \A i \in 0 .. length - 1 : /\ command[i] = submitted[i + 1]
                                  /\ command[i] \notin {"NUL", "LF", "CR"}

Begun(a) == IF a.al THEN Append(a.starts, a.ap) ELSE a.starts

\* The loop has read the cells from s to p - 1: it has begun the words that begin
\* there, and cuts them at the blanks behind them.
HasRead(u, s, p, a) ==
    /\ Len(u[p]) = 1 + Len(Begun(a))
    /\ u[p][1] = Promise!WordAt(submitted, 1)
    /\ \A n \in 1 .. Len(Begun(a)) :
           /\ Begun(a)[n] \in s .. p - 1
           /\ Begun(a)[n] + 1 \in Promise!WordStarts(submitted)
           /\ u[p][n + 1] = Promise!WordAt(submitted, Begun(a)[n] + 1)
    /\ a.al <=> p > s /\ ~iswhitespace(command[p - 1])
    /\ a.cuts = {i \in s + 1 .. p - 1 : /\ iswhitespace(command[i])
                                         /\ ~iswhitespace(command[i - 1])}

\* What the loop's variables become at a cell.
LEMMA ArgumentEffects ==
    ASSUME NEW a \in Scans, NEW i \in Cells
    PROVE  LET b == Argument(a, i)
           IN  /\ b.on = a.on
               /\ b.al = ~iswhitespace(command[i])
               /\ Begun(b) = IF ~iswhitespace(command[i]) /\ ~a.al
                             THEN Append(Begun(a), i) ELSE Begun(a)
               /\ b.cuts = IF iswhitespace(command[i]) /\ a.al
                           THEN a.cuts \cup {i} ELSE a.cuts
<1>1. a \in [on : BOOLEAN, argc : Nat, al : BOOLEAN, ap : Cells,
             starts : Seq(Cells), cuts : SUBSET Cells]
  BY DEF Scans
<1>2. CASE ~iswhitespace(command[i])
  <2> DEFINE b == [a EXCEPT !.al = TRUE, !.ap = IF a.al THEN @ ELSE i]
  <2>1. Argument(a, i) = b
    BY <1>2 DEF Argument
  <2>2. /\ b.on = a.on /\ b.al = TRUE /\ b.starts = a.starts /\ b.cuts = a.cuts
        /\ b.ap = IF a.al THEN a.ap ELSE i
    BY <1>1
  <2> HIDE DEF b
  <2>3. Begun(b) = IF ~a.al THEN Append(Begun(a), i) ELSE Begun(a)
    BY <1>1, <2>2 DEF Begun
  <2> QED
    BY <1>2, <2>1, <2>2, <2>3
<1>3. CASE iswhitespace(command[i]) /\ ~a.al
  <2>1. Argument(a, i) = a
    BY <1>3 DEF Argument
  <2> QED
    BY <1>1, <1>3, <2>1
<1>4. CASE iswhitespace(command[i]) /\ a.al
  <2> DEFINE starts == Append(a.starts, a.ap)
             n == a.argc + 1
             cuts == a.cuts \cup {i}
             b == [a EXCEPT !.starts = starts, !.argc = n, !.al = FALSE, !.cuts = cuts]
  <2>1. Argument(a, i) = b
    BY <1>4 DEF Argument
  <2>2. Begun(a) = starts
    BY <1>4 DEF Begun
  <2> HIDE DEF starts, n, cuts
  <2>3. b.on = a.on /\ b.al = FALSE /\ b.starts = starts /\ b.cuts = cuts
    BY <1>1
  <2> HIDE DEF b
  <2>4. Begun(b) = Begun(a)
    BY <2>2, <2>3 DEF Begun
  <2> QED
    BY <1>4, <2>1, <2>3, <2>4 DEF cuts
<1> QED
  BY <1>1, <1>2, <1>3, <1>4

LEMMA StartsAt ==
    ASSUME HoldsLine, NEW p \in 1 .. length - 1
    PROVE  p + 1 \in Promise!WordStarts(submitted)
               <=> ~iswhitespace(command[p]) /\ iswhitespace(command[p - 1])
<1>1. /\ length \in Nat /\ Len(submitted) = length
      /\ p \in 0 .. length - 1 /\ p - 1 \in 0 .. length - 1 /\ (p - 1) + 1 = p
      /\ (p + 1) - 1 = p /\ p + 1 # 1 /\ p + 1 \in 1 .. length
  BY BufferSizes DEF HoldsLine
<1>2. command[p] = submitted[p + 1] /\ command[p - 1] = submitted[p]
  BY <1>1 DEF HoldsLine
<1>3. p + 1 \in Promise!WordStarts(submitted)
          <=> submitted[p + 1] \notin Promise!Blank /\ submitted[p] \in Promise!Blank
  BY <1>1, Zenon DEF Promise!WordStarts
<1> QED
  BY <1>2, <1>3, Zenon DEF Promise!Blank, iswhitespace

LEMMA ReadsOn ==
    ASSUME HoldsLine, NEW u, UpTo(submitted, u), NEW s \in 1 .. length,
           NEW p \in s .. length - 1, iswhitespace(command[s - 1]),
           NEW a \in Scans, HasRead(u, s, p, a)
    PROVE  HasRead(u, s, p + 1, Argument(a, p))
<1> DEFINE b == Argument(a, p)
           nonblank == ~iswhitespace(command[p])
           before == ~iswhitespace(command[p - 1])
           word == Promise!WordAt(submitted, p + 1)
           S == {Promise!WordAt(submitted, j) : j \in 1 .. Len(submitted)}
           g == Begun(a)
           v == u[p]
           w == u[p + 1]
<1>1. /\ length \in Nat /\ s \in Nat /\ p \in Nat /\ s >= 1 /\ p >= s /\ p < length
      /\ p \in Cells /\ p \in 1 .. length - 1 /\ p \in 0 .. length /\ p + 1 \in 1 .. length
      /\ (p + 1) - 1 = p /\ Len(submitted) = length /\ p + 1 \in 0 .. length
  BY BufferSizes DEF HoldsLine
<1>2. /\ b.al = nonblank
      /\ Begun(b) = IF nonblank /\ ~a.al THEN Append(g, p) ELSE g
      /\ b.cuts = IF ~nonblank /\ a.al THEN a.cuts \cup {p} ELSE a.cuts
  BY <1>1, ArgumentEffects
<1>3. /\ a.al <=> p > s /\ before
      /\ a.cuts = {i \in s + 1 .. p - 1 : /\ iswhitespace(command[i])
                                           /\ ~iswhitespace(command[i - 1])}
      /\ Len(v) = 1 + Len(g) /\ v[1] = Promise!WordAt(submitted, 1)
      /\ \A n \in 1 .. Len(g) :
             /\ g[n] \in s .. p - 1
             /\ g[n] + 1 \in Promise!WordStarts(submitted)
             /\ v[n + 1] = Promise!WordAt(submitted, g[n] + 1)
  BY Zenon DEF HasRead
<1>4. p = s => ~before
  OBVIOUS
<1>5. a.al <=> before
  BY <1>1, <1>3, <1>4
<1>6. p + 1 \in Promise!WordStarts(submitted) <=> nonblank /\ ~a.al
  BY <1>1, <1>5, StartsAt, Zenon
<1>7. w = IF nonblank /\ ~a.al THEN Append(v, word) ELSE v
  <2>1. u[p + 1] = IF p + 1 \in Promise!WordStarts(submitted)
                   THEN Append(u[(p + 1) - 1], Promise!WordAt(submitted, p + 1))
                   ELSE u[(p + 1) - 1]
    BY <1>1, Zenon DEF UpTo
  <2> QED
    BY <1>1, <1>6, <2>1, Zenon
<1>8. v \in Seq(S) /\ word \in S
  <2>1. v \in Seq(S)
    BY <1>1, Zenon DEF UpTo
  <2>2. word \in S
    BY <1>1, Zenon
  <2> QED
    BY <2>1, <2>2
<1>9. g \in Seq(Cells)
  <2>1. a.starts \in Seq(Cells) /\ a.ap \in Cells
    BY DEF Scans
  <2> QED
    BY <2>1 DEF Begun
<1>10. b.al <=> p + 1 > s /\ ~iswhitespace(command[(p + 1) - 1])
  <2>1. p + 1 > s /\ (p + 1) - 1 = p
    BY <1>1
  <2> QED
    BY <1>2, <2>1, Zenon
<1> DEFINE Cut(q) == {i \in s + 1 .. q : /\ iswhitespace(command[i])
                                         /\ ~iswhitespace(command[i - 1])}
<1>11. b.cuts = Cut((p + 1) - 1)
  <2>1. a.cuts = Cut(p - 1)
    BY <1>3, Zenon
  <2>2. \A i : i \in s + 1 .. p <=> i \in s + 1 .. p - 1 \/ (i = p /\ p > s)
    BY <1>1
  <2>3. Cut(p) = IF p > s /\ ~nonblank /\ before THEN Cut(p - 1) \cup {p} ELSE Cut(p - 1)
    BY <2>2
  <2>4. b.cuts = Cut(p)
    BY <1>2, <1>3, <2>1, <2>3
  <2> QED
    BY <1>1, <2>4
<1> HIDE DEF b, word, S, g, v, w, Cut
<1>12. CASE nonblank /\ ~a.al
  <2>1. Begun(b) = Append(g, p) /\ w = Append(v, word)
    BY <1>2, <1>7, <1>12
  <2>2. /\ Len(Append(g, p)) = Len(g) + 1 /\ Append(g, p)[Len(g) + 1] = p
        /\ \A n \in 1 .. Len(g) : Append(g, p)[n] = g[n]
        /\ Len(g) \in Nat
    BY <1>1, <1>9
  <2>3. /\ Len(Append(v, word)) = Len(v) + 1 /\ Append(v, word)[Len(v) + 1] = word
        /\ \A n \in 1 .. Len(v) : Append(v, word)[n] = v[n]
    BY <1>8
  <2>4. Len(w) = 1 + Len(Begun(b)) /\ w[1] = Promise!WordAt(submitted, 1)
    <3>1. 1 \in 1 .. Len(v)
      BY <1>3, <2>2
    <3> QED
      BY <1>3, <2>1, <2>2, <2>3, <3>1
  <2>5. ASSUME NEW n \in 1 .. Len(Begun(b))
        PROVE  /\ Begun(b)[n] \in s .. p
               /\ Begun(b)[n] + 1 \in Promise!WordStarts(submitted)
               /\ w[n + 1] = Promise!WordAt(submitted, Begun(b)[n] + 1)
    <3>1. CASE n \in 1 .. Len(g)
      <4>1. n + 1 \in 1 .. Len(v)
        BY <1>3, <2>2, <3>1
      <4>2. Begun(b)[n] = g[n] /\ w[n + 1] = v[n + 1]
        BY <2>1, <2>2, <2>3, <3>1, <4>1
      <4>3. /\ g[n] \in s .. p - 1
            /\ g[n] + 1 \in Promise!WordStarts(submitted)
            /\ v[n + 1] = Promise!WordAt(submitted, g[n] + 1)
        BY <1>3, <3>1
      <4>4. g[n] \in s .. p
        BY <1>1, <4>3
      <4> QED
        BY <4>2, <4>3, <4>4
    <3>2. CASE n \notin 1 .. Len(g)
      <4>1. n = Len(g) + 1 /\ n + 1 = Len(v) + 1
        BY <1>3, <2>1, <2>2, <3>2
      <4>2. Begun(b)[n] = p /\ w[n + 1] = word
        BY <2>1, <2>2, <2>3, <4>1
      <4>3. p \in s .. p
        BY <1>1
      <4> QED
        BY <1>6, <1>12, <4>2, <4>3 DEF word
    <3> QED
      BY <3>1, <3>2
  <2> QED
    BY <1>1, <1>10, <1>11, <2>4, <2>5, Zenon DEF HasRead, Cut, w, b
<1>13. CASE ~(nonblank /\ ~a.al)
  <2>1. Begun(b) = g /\ w = v
    BY <1>2, <1>7, <1>13
  <2>2. ASSUME NEW n \in 1 .. Len(Begun(b))
        PROVE  /\ Begun(b)[n] \in s .. p
               /\ Begun(b)[n] + 1 \in Promise!WordStarts(submitted)
               /\ w[n + 1] = Promise!WordAt(submitted, Begun(b)[n] + 1)
    <3>1. /\ g[n] \in s .. p - 1
          /\ g[n] + 1 \in Promise!WordStarts(submitted)
          /\ v[n + 1] = Promise!WordAt(submitted, g[n] + 1)
      BY <1>3, <2>1
    <3>2. g[n] \in s .. p
      BY <1>1, <3>1
    <3> QED
      BY <2>1, <3>1, <3>2
  <2>3. Len(w) = 1 + Len(Begun(b)) /\ w[1] = Promise!WordAt(submitted, 1)
    BY <1>3, <2>1
  <2> QED
    BY <1>1, <1>10, <1>11, <2>2, <2>3, Zenon DEF HasRead, Cut, w, b
<1> QED
  BY <1>12, <1>13 DEF b

\* The loop stops at the end of the line, or when the vector is full.
HasFinished(u, s, a) ==
    \E q \in s .. length : /\ HasRead(u, s, q, a)
                           /\ q = length \/ (a.argc = MAX_ARGS /\ ~a.al)
Reads(u, s, p, a) ==
    IF a.on THEN p <= length /\ HasRead(u, s, p, a) ELSE HasFinished(u, s, a)

LEMMA StopsReading ==
    ASSUME NEW a \in Scans, NEW u, NEW s, NEW q, HasRead(u, s, q, a)
    PROVE  LET b == [a EXCEPT !.on = FALSE]
           IN  HasRead(u, s, q, b) /\ b.argc = a.argc /\ b.al = a.al /\ b.on = FALSE
<1> DEFINE b == [a EXCEPT !.on = FALSE]
<1>1. /\ b.argc = a.argc /\ b.al = a.al /\ b.starts = a.starts /\ b.ap = a.ap
      /\ b.cuts = a.cuts /\ b.on = FALSE
  BY DEF Scans
<1> HIDE DEF b
<1>2. Begun(b) = Begun(a)
  BY <1>1, Zenon DEF Begun
<1>3. HasRead(u, s, q, b)
  BY <1>1, <1>2, Zenon DEF HasRead
<1> QED
  BY <1>1, <1>3 DEF b

LEMMA ReadsCell ==
    ASSUME HoldsLine, NEW u, UpTo(submitted, u), NEW s \in 1 .. length,
           s < length => iswhitespace(command[s - 1]),
           NEW p \in Cells, p >= s, NEW a \in Scans, Reads(u, s, p, a)
    PROVE  Reads(u, s, p + 1, ScanCell(a, p))
<1> DEFINE b == [a EXCEPT !.on = FALSE]
<1>1. /\ length \in Nat /\ length \in Cells /\ s \in Nat /\ p \in Nat /\ s <= length
      /\ MAX_ARGS \in Nat
  BY BufferSizes DEF HoldsLine
<1>2. \A q : HasRead(u, s, q, a) => HasRead(u, s, q, b)
  BY StopsReading
<1>3. b.argc = a.argc /\ b.al = a.al /\ b.on = FALSE
  BY DEF Scans
<1>4. CASE ~a.on
  <2>1. ScanCell(a, p) = b
    BY <1>4, Zenon DEF ScanCell
  <2>2. PICK q \in s .. length :
            HasRead(u, s, q, a) /\ (q = length \/ (a.argc = MAX_ARGS /\ ~a.al))
    BY <1>4, Zenon DEF Reads, HasFinished
  <2> HIDE DEF b
  <2>3. HasFinished(u, s, b)
    BY <1>2, <1>3, <2>2, Zenon DEF HasFinished
  <2> QED
    BY <1>3, <2>1, <2>3, Zenon DEF Reads
<1>5. CASE a.on /\ (p = length \/ ~(a.argc < MAX_ARGS))
  <2>1. p <= length /\ HasRead(u, s, p, a)
    BY <1>5, Zenon DEF Reads
  <2>2. p = length => EndsArguments(command[p])
    BY DEF HoldsLine, EndsArguments
  <2>3. ScanCell(a, p) = b
    BY <1>5, <2>2, Zenon DEF ScanCell
  <2>4. p = length \/ (a.argc = MAX_ARGS /\ ~a.al)
    <3>1. a.argc \in Nat /\ IF a.al THEN a.argc < MAX_ARGS ELSE a.argc <= MAX_ARGS
      BY DEF Scans
    <3> QED
      BY <1>1, <1>5, <3>1
  <2>5. p \in s .. length
    BY <1>1, <2>1
  <2> HIDE DEF b
  <2>6. HasFinished(u, s, b)
    BY <1>2, <1>3, <2>1, <2>4, <2>5, Zenon DEF HasFinished
  <2> QED
    BY <1>3, <2>3, <2>6, Zenon DEF Reads
<1>6. CASE a.on /\ p # length /\ a.argc < MAX_ARGS
  <2>1. p <= length /\ HasRead(u, s, p, a)
    BY <1>6, Zenon DEF Reads
  <2>2. p \in s .. length - 1 /\ p \in 0 .. length - 1 /\ s < length /\ p + 1 <= length
    BY <1>1, <1>6, <2>1
  <2>3. ~EndsArguments(command[p])
    BY <2>2 DEF HoldsLine, EndsArguments
  <2>4. ScanCell(a, p) = Argument(a, p)
    BY <1>6, <2>3, Zenon DEF ScanCell
  <2>5. HasRead(u, s, p + 1, Argument(a, p))
    BY <2>1, <2>2, ReadsOn
  <2>6. Argument(a, p).on = a.on
    BY ArgumentEffects
  <2> QED
    BY <1>6, <2>2, <2>4, <2>5, <2>6, Zenon DEF Reads
<1> QED
  BY <1>4, <1>5, <1>6

\* The first word is the name of the program; the loop starts behind it.
LEMMA ScanReads ==
    ASSUME HoldsLine, NEW u, UpTo(submitted, u), NEW s \in 1 .. length,
           s < length => iswhitespace(command[s - 1]),
           u[s] = <<Promise!WordAt(submitted, 1)>>
    PROVE  HasFinished(u, s, Scan(s))
<1> DEFINE base == [on |-> TRUE, argc |-> 1, al |-> FALSE, ap |-> s,
                    starts |-> <<>>, cuts |-> {}]
           n == COMMAND - s
<1>1. /\ COMMAND \in Nat /\ Cells = 0 .. COMMAND - 1 /\ length \in Nat /\ length < COMMAND
      /\ s \in Nat /\ s \in Cells /\ n \in Nat /\ s <= length
  BY BufferSizes DEF HoldsLine
<1>2. PICK after : /\ Scan(s) = after[n] /\ after[0] = base
                   /\ \A k \in 1 .. n : after[k] = ScanCell(after[k - 1], s + (k - 1))
                   /\ \A k \in 0 .. n : after[k] \in Scans
  BY <1>1, ScanHistory, Zenon
<1>3. Reads(u, s, s, base)
  <2>1. base.on /\ ~base.al /\ base.cuts = {} /\ Begun(base) = <<>>
    BY DEF Begun
  <2> HIDE DEF base
  <2>2. Len(u[s]) = 1 /\ u[s][1] = Promise!WordAt(submitted, 1)
    <3> DEFINE w == Promise!WordAt(submitted, 1)
    <3> HIDE DEF w
    <3>1. u[s] = <<w>>
      BY DEF w
    <3> QED
      BY <3>1 DEF w
  <2>3. {i \in s + 1 .. s - 1 : /\ iswhitespace(command[i])
                                /\ ~iswhitespace(command[i - 1])} = {}
    BY <1>1
  <2>4. Len(<<>>) = 0 /\ 1 .. 0 = {} /\ 1 = 1 + 0 /\ ~(s > s)
    BY <1>1
  <2>5. HasRead(u, s, s, base)
    BY <2>1, <2>2, <2>3, <2>4, Zenon DEF HasRead
  <2> QED
    BY <1>1, <2>1, <2>5 DEF Reads
<1> HIDE DEF base, n
<1> DEFINE T == {k \in Nat : k <= n => Reads(u, s, s + k, after[k])}
<1>4. 0 \in T
  BY <1>1, <1>2, <1>3
<1>5. ASSUME NEW k \in Nat, k \in T PROVE k + 1 \in T
  <2> SUFFICES ASSUME k + 1 <= n PROVE Reads(u, s, s + (k + 1), after[k + 1])
    OBVIOUS
  <2>1. /\ k + 1 \in 1 .. n /\ k \in 0 .. n /\ (k + 1) - 1 = k /\ s + k \in Cells
        /\ s + k >= s /\ s + (k + 1) = (s + k) + 1 /\ k <= n
    BY <1>1 DEF n
  <2>2. Reads(u, s, s + k, after[k]) /\ after[k] \in Scans
    BY <1>2, <1>5, <2>1
  <2>3. after[k + 1] = ScanCell(after[k], s + k)
    BY <1>2, <2>1
  <2>4. Reads(u, s, (s + k) + 1, ScanCell(after[k], s + k))
    BY <2>1, <2>2, ReadsCell
  <2> QED
    BY <2>1, <2>3, <2>4
<1>6. \A k \in Nat : k \in T
  <2> HIDE DEF T
  <2> QED
    BY <1>4, <1>5, Induct
<1>7. Reads(u, s, s + n, after[n])
  <2>1. n \in T /\ n <= n
    BY <1>1, <1>6
  <2> QED
    BY <2>1
<1>8. ~(s + n <= length)
  BY <1>1 DEF n
<1> QED
  BY <1>2, <1>7, <1>8, Zenon DEF Reads
-----------------------------------------------------------------------------
\* What the program is given.

\* The blanks that become NUL end the words.
LEMMA StringIsWord ==
    ASSUME HoldsLine, NEW s \in 1 .. length, NEW q \in s .. length,
           q = length \/ (q > s => iswhitespace(command[q - 1])),
           NEW cuts, cuts = {j \in s + 1 .. q - 1 : /\ iswhitespace(command[j])
                                                    /\ ~iswhitespace(command[j - 1])},
           NEW i \in s .. q - 1, i + 1 \in Promise!WordStarts(submitted)
    PROVE  StringAt([j \in Cells |-> IF j \in cuts THEN "NUL" ELSE command[j]], i)
               = Promise!WordAt(submitted, i + 1)
<1> DEFINE cut == [j \in Cells |-> IF j \in cuts THEN "NUL" ELSE command[j]]
<1>1. /\ length \in Nat /\ Len(submitted) = length /\ s \in Nat /\ q \in Nat /\ i \in Nat
      /\ s >= 1 /\ q <= length /\ i >= s /\ i < q /\ i + 1 \in 1 .. length
      /\ COMMAND \in Nat /\ Cells = 0 .. COMMAND - 1 /\ length < COMMAND
  BY BufferSizes DEF HoldsLine
<1>2. /\ command[length] = "NUL"
      /\ \A j \in 0 .. length - 1 : command[j] = submitted[j + 1] /\ command[j] # "NUL"
  BY DEF HoldsLine
<1>3. submitted[i + 1] \notin Promise!Blank
  BY Zenon DEF Promise!WordStarts
<1>4. PICK e \in i + 1 .. length :
          /\ Promise!WordAt(submitted, i + 1) = SubSeq(submitted, i + 1, e)
          /\ \A k \in i + 1 .. e : submitted[k] \notin Promise!Blank
          /\ e < length => submitted[e + 1] \in Promise!Blank
  BY <1>1, <1>3, WordGoesOn
<1>5. \A j \in 0 .. length - 1 : iswhitespace(command[j]) <=> submitted[j + 1] \in Promise!Blank
  <2> SUFFICES ASSUME NEW j \in 0 .. length - 1
               PROVE  iswhitespace(command[j]) <=> submitted[j + 1] \in Promise!Blank
    OBVIOUS
  <2>1. command[j] = submitted[j + 1]
    BY <1>2
  <2> QED
    BY <2>1, Zenon DEF iswhitespace, Promise!Blank
<1>6. \A j \in i .. e - 1 :
          ~iswhitespace(command[j]) /\ command[j] = submitted[j + 1] /\ command[j] # "NUL"
  <2> SUFFICES ASSUME NEW j \in i .. e - 1
               PROVE  ~iswhitespace(command[j]) /\ command[j] = submitted[j + 1]
                      /\ command[j] # "NUL"
    OBVIOUS
  <2>1. j \in 0 .. length - 1 /\ j + 1 \in i + 1 .. e
    BY <1>1
  <2> QED
    BY <1>2, <1>4, <1>5, <2>1
<1>7. e = length \/ (iswhitespace(command[e]) /\ e \in 0 .. length - 1)
  <2>1. e < length => e \in 0 .. length - 1
    BY <1>1
  <2> QED
    BY <1>1, <1>4, <1>5, <2>1
<1>8. e = length \/ e <= q - 1
  <2> SUFFICES ASSUME e # length, q <= e PROVE FALSE
    BY <1>1
  <2>1. q - 1 \in i .. e - 1 /\ q > s /\ q # length
    BY <1>1
  <2> QED
    BY <1>6, <2>1
<1>9. e \in Cells /\ cut[e] = "NUL"
  <2>1. e \in Cells
    BY <1>1
  <2>2. CASE e = length
    <3>1. e \notin cuts
      BY <1>1, <2>2
    <3> QED
      BY <1>2, <2>1, <2>2, <3>1
  <2>3. CASE e # length
    <3>1. e - 1 \in i .. e - 1 /\ e \in s + 1 .. q - 1
      BY <1>1, <1>8, <2>3
    <3>2. e \in cuts
      BY <1>6, <1>7, <2>3, <3>1
    <3> QED
      BY <2>1, <3>2
  <2> QED
    BY <2>2, <2>3
<1>10. \A j \in i .. e - 1 : cut[j] = submitted[j + 1] /\ cut[j] # "NUL"
  <2> SUFFICES ASSUME NEW j \in i .. e - 1
               PROVE  cut[j] = submitted[j + 1] /\ cut[j] # "NUL"
    OBVIOUS
  <2>1. j \in Cells
    BY <1>1
  <2>2. j \notin cuts
    BY <1>6
  <2> QED
    BY <1>6, <2>1, <2>2
<1> HIDE DEF cut
<1> DEFINE ends == {j \in i .. COMMAND - 1 : cut[j] = "NUL"}
<1>11. ends # {} /\ Min(ends) = e
  <2>1. e \in ends /\ ends \subseteq Int
    BY <1>1, <1>9
  <2>2. \A y \in ends : e <= y
    <3> SUFFICES ASSUME NEW y \in ends, y < e PROVE FALSE
      BY <1>1
    <3>1. y \in i .. e - 1
      BY <1>1
    <3> QED
      BY <1>10, <3>1
  <2> HIDE DEF ends
  <2>3. \A z \in ends : (\A y \in ends : z <= y) => z = e
    BY <2>1, <2>2
  <2>4. Min(ends) = e
    BY <2>1, <2>2, <2>3, Zenon DEF Min
  <2> QED
    BY <2>1, <2>4
<1>12. StringAt(cut, i) = [k \in 1 .. e - i |-> cut[i + k - 1]]
  <2>1. (IF ends = {} THEN COMMAND ELSE Min(ends)) = e
    BY <1>11, Zenon
  <2>2. StringAt(cut, i) =
            [k \in 1 .. (IF ends = {} THEN COMMAND ELSE Min(ends)) - i |-> cut[i + k - 1]]
    BY Zenon DEF StringAt
  <2> HIDE DEF ends
  <2> QED
    BY <2>1, <2>2
<1>13. SubSeq(submitted, i + 1, e) = [k \in 1 .. e - i |-> submitted[i + k]]
  <2>1. 1 + e - (i + 1) = e - i /\ \A k \in 1 .. e - i : k + (i + 1) - 1 = i + k
    BY <1>1
  <2>2. SubSeq(submitted, i + 1, e) =
            [k \in 1 .. 1 + e - (i + 1) |-> submitted[k + (i + 1) - 1]]
    BY <1>1
  <2> QED
    BY <2>1, <2>2
<1>14. \A k \in 1 .. e - i : cut[i + k - 1] = submitted[i + k]
  <2> SUFFICES ASSUME NEW k \in 1 .. e - i PROVE cut[i + k - 1] = submitted[i + k]
    OBVIOUS
  <2>1. i + k - 1 \in i .. e - 1 /\ (i + k - 1) + 1 = i + k
    BY <1>1
  <2> QED
    BY <1>10, <2>1
<1> QED
  BY <1>4, <1>12, <1>13, <1>14 DEF cut

\* What is known when a program of a line without operators is run.
LEMMA RunsLine ==
    ASSUME SInv, RunProgram, Plain(submitted)
    PROVE  /\ HoldsLine /\ x = 0 /\ TokenEnd \in 1 .. length
           /\ NextWord \in TokenEnd .. length
           /\ \A j \in 0 .. TokenEnd - 1 : ~iswhitespace(command[j])
           /\ TokenEnd < length => iswhitespace(command[TokenEnd])
           /\ \A j \in TokenEnd .. NextWord - 1 : iswhitespace(command[j])
           /\ NextWord < length => ~iswhitespace(command[NextWord])
<1>1. CInv /\ AtToken /\ TokenEnd > x
  BY RunHasName DEF SInv, RunProgram
<1>2. submitted # <<>> /\ mode = "factor" /\ TokenEnd \in Nat /\ NextWord \in 0 .. COMMAND
      /\ TokenEnd <= NextWord /\ (Paren \/ (NextWord <= length /\ TokenEnd <= length))
  BY <1>1, TokenInLine
<1>3. x = 0 /\ \A i \in 0 .. length - 1 : command[i] = submitted[i + 1]
  BY <1>2 DEF SInv, OneFactor
<1>4. /\ length \in Cells /\ length \in Nat /\ length < COMMAND /\ COMMAND \in Nat
      /\ command[length] = "NUL" /\ Len(submitted) = length
  BY <1>1, <1>2, ParserFacts
<1>5. ~Paren
  BY DEF Paren, Plain, Special
<1>6. TokenEnd \in 1 .. length /\ NextWord \in TokenEnd .. length
  BY <1>1, <1>2, <1>3, <1>4, <1>5
<1>7. submitted \in Seq(Letters)
  BY <1>1 DEF CInv, TypeOK
<1>8. \A i \in 0 .. length - 1 : command[i] \notin {"NUL", "LF", "CR"}
  <2> SUFFICES ASSUME NEW i \in 0 .. length - 1
               PROVE  command[i] \notin {"NUL", "LF", "CR"}
    OBVIOUS
  <2>1. i + 1 \in 1 .. Len(submitted) /\ command[i] = submitted[i + 1]
    BY <1>3, <1>4
  <2>2. submitted[i + 1] \in Letters
    BY <1>7, <2>1, ElementOfSeq
  <2>3. submitted[i + 1] # "LF"
    BY <2>1 DEF Plain, Special
  <2> QED
    BY <2>1, <2>2, <2>3, BufferSizes DEF Letters, Control
<1>9. HoldsLine
  BY <1>3, <1>4, <1>8 DEF HoldsLine
<1>10. \A i \in 0 .. length - 1 : /\ isWhitespace(command[i]) <=> iswhitespace(command[i])
                                  /\ ~isTerminator(command[i])
  BY <1>8 DEF isWhitespace, iswhitespace, isTerminator
<1>11. /\ \A j \in x .. TokenEnd - 1 :
              ~isWhitespace(command[j]) /\ ~isTerminator(command[j])
       /\ TokenEnd < COMMAND =>
              isWhitespace(command[TokenEnd]) \/ isTerminator(command[TokenEnd])
       /\ \A j \in TokenEnd .. NextWord - 1 : j < COMMAND => isWhitespace(command[j])
       /\ NextWord < COMMAND => ~isWhitespace(command[NextWord])
  <2>1. x \in 0 .. COMMAND
    BY <1>3, <1>4
  <2> QED
    BY <2>1, TokenEnds
<1> DEFINE t == TokenEnd
           w == NextWord
<1> HIDE DEF t, w
<1>12. t \in 1 .. length /\ w \in t .. length
  BY <1>6 DEF t, w
<1>13. ASSUME NEW j \in 0 .. t - 1 PROVE ~iswhitespace(command[j])
  <2>1. j \in 0 .. length - 1
    BY <1>4, <1>12
  <2>2. ~isWhitespace(command[j])
    BY <1>3, <1>11 DEF t
  <2> QED
    BY <1>10, <2>1, <2>2
<1>14. ASSUME t < length PROVE iswhitespace(command[t])
  <2>1. t \in 0 .. length - 1 /\ t < COMMAND
    BY <1>4, <1>12, <1>14
  <2>2. isWhitespace(command[t]) \/ isTerminator(command[t])
    BY <1>11, <2>1 DEF t
  <2> QED
    BY <1>10, <2>1, <2>2
<1>15. ASSUME NEW j \in t .. w - 1 PROVE iswhitespace(command[j])
  <2>1. j \in 0 .. length - 1 /\ j < COMMAND
    BY <1>4, <1>12
  <2>2. isWhitespace(command[j])
    BY <1>11, <2>1 DEF t, w
  <2> QED
    BY <1>10, <2>1, <2>2
<1>16. ASSUME w < length PROVE ~iswhitespace(command[w])
  <2>1. w \in 0 .. length - 1 /\ w < COMMAND
    BY <1>4, <1>12, <1>16
  <2>2. ~isWhitespace(command[w])
    BY <1>11, <2>1 DEF w
  <2> QED
    BY <1>10, <2>1, <2>2
<1> QED
  BY <1>3, <1>9, <1>12, <1>13, <1>14, <1>15, <1>16 DEF t, w

\* parseToken() takes the first word.
LEMMA TokenIsWord ==
    ASSUME SInv, RunProgram, Plain(submitted)
    PROVE  /\ Token = Promise!WordAt(submitted, 1)
           /\ 1 \in Promise!WordStarts(submitted)
<1> DEFINE t == TokenEnd
<1>1. /\ HoldsLine /\ x = 0 /\ t \in 1 .. length
      /\ \A j \in 0 .. t - 1 : ~iswhitespace(command[j])
      /\ t < length => iswhitespace(command[t])
  BY RunsLine
<1> HIDE DEF t
<1>2. /\ length \in Nat /\ Len(submitted) = length /\ length >= 1 /\ t \in Nat
      /\ \A i \in 0 .. length - 1 : command[i] = submitted[i + 1]
  BY <1>1, BufferSizes DEF HoldsLine
<1>3. \A i \in 0 .. length - 1 : iswhitespace(command[i]) <=> submitted[i + 1] \in Promise!Blank
  <2> SUFFICES ASSUME NEW i \in 0 .. length - 1
               PROVE  iswhitespace(command[i]) <=> submitted[i + 1] \in Promise!Blank
    OBVIOUS
  <2>1. command[i] = submitted[i + 1]
    BY <1>2
  <2> QED
    BY <2>1, Zenon DEF iswhitespace, Promise!Blank
<1>4. submitted[1] \notin Promise!Blank
  <2>1. 0 \in 0 .. t - 1 /\ 0 \in 0 .. length - 1 /\ 0 + 1 = 1
    BY <1>1, <1>2
  <2> QED
    BY <1>1, <1>3, <2>1
<1>5. 1 \in Promise!WordStarts(submitted)
  <2>1. 1 \in 1 .. Len(submitted)
    BY <1>2
  <2> QED
    BY <1>4, <2>1, Zenon DEF Promise!WordStarts
<1>6. PICK e \in 1 .. length :
          /\ Promise!WordAt(submitted, 1) = SubSeq(submitted, 1, e)
          /\ \A k \in 1 .. e : submitted[k] \notin Promise!Blank
          /\ e < length => submitted[e + 1] \in Promise!Blank
  <2>1. 1 \in 1 .. Len(submitted) /\ Len(submitted) \in Nat
    BY <1>2
  <2> QED
    BY <1>2, <1>4, <2>1, WordGoesOn
<1>7. ~(e < t)
  <2> SUFFICES ASSUME e < t PROVE FALSE
    OBVIOUS
  <2>1. e \in 0 .. t - 1 /\ e \in 0 .. length - 1 /\ e < length
    BY <1>1, <1>2
  <2> QED
    BY <1>1, <1>3, <1>6, <2>1
<1>8. ~(t < e)
  <2> SUFFICES ASSUME t < e PROVE FALSE
    OBVIOUS
  <2>1. t + 1 \in 1 .. e /\ t \in 0 .. length - 1 /\ t < length
    BY <1>1, <1>2
  <2> QED
    BY <1>1, <1>3, <1>6, <2>1
<1>9. e = t
  BY <1>2, <1>7, <1>8
<1>10. Token = [i \in 1 .. t |-> command[i - 1]]
  <2>1. t - x = t /\ \A i \in 1 .. t : x + i - 1 = i - 1
    BY <1>1, <1>2
  <2>2. Token = [i \in 1 .. t - x |-> command[x + i - 1]]
    BY Zenon DEF Token, t
  <2> QED
    BY <2>1, <2>2
<1>11. SubSeq(submitted, 1, t) = [i \in 1 .. t |-> submitted[i]]
  <2>1. 1 + t - 1 = t /\ \A i \in 1 .. t : i + 1 - 1 = i
    BY <1>2
  <2>2. SubSeq(submitted, 1, t) = [i \in 1 .. 1 + t - 1 |-> submitted[i + 1 - 1]]
    BY <1>2
  <2> QED
    BY <2>1, <2>2
<1>12. \A i \in 1 .. t : command[i - 1] = submitted[i]
  <2> SUFFICES ASSUME NEW i \in 1 .. t PROVE command[i - 1] = submitted[i]
    OBVIOUS
  <2>1. i - 1 \in 0 .. length - 1 /\ (i - 1) + 1 = i
    BY <1>1, <1>2
  <2> QED
    BY <1>2, <2>1
<1> QED
  BY <1>5, <1>6, <1>9, <1>10, <1>11, <1>12

\* It is the only word that begins in front of the place where the loop starts.
LEMMA FirstWordAlone ==
    ASSUME SInv, RunProgram, Plain(submitted), NEW u, UpTo(submitted, u)
    PROVE  u[NextWord] = <<Promise!WordAt(submitted, 1)>>
<1> DEFINE t == TokenEnd
           s == NextWord
           word == Promise!WordAt(submitted, 1)
           S == {Promise!WordAt(submitted, j) : j \in 1 .. Len(submitted)}
<1>1. /\ HoldsLine /\ t \in 1 .. length /\ s \in t .. length
      /\ \A j \in 0 .. t - 1 : ~iswhitespace(command[j])
      /\ \A j \in t .. s - 1 : iswhitespace(command[j])
  BY RunsLine
<1>2. 1 \in Promise!WordStarts(submitted)
  BY TokenIsWord
<1> HIDE DEF t, s
<1>3. /\ length \in Nat /\ Len(submitted) = length /\ length >= 1 /\ t \in Nat /\ s \in Nat
      /\ t >= 1 /\ s >= t /\ s <= length /\ 1 \in 1 .. Len(submitted)
  BY <1>1, BufferSizes DEF HoldsLine
<1>4. u[1] = <<word>>
  <2>1. u[1 - 1] = <<>>
    <3>1. u[0] = <<>>
      BY Zenon DEF UpTo
    <3>2. 1 - 1 = 0
      OBVIOUS
    <3> QED
      BY <3>1, <3>2, Zenon
  <2>2. u[1] = Append(u[1 - 1], Promise!WordAt(submitted, 1))
    BY <1>2, <1>3, Zenon DEF UpTo
  <2> HIDE DEF word
  <2>3. Append(<<>>, word) = <<word>>
    OBVIOUS
  <2> QED
    BY <2>1, <2>2, <2>3, Zenon DEF word
<1>5. ASSUME NEW p \in 1 .. s - 1 PROVE u[p + 1] = u[p]
  <2>1. /\ p \in 1 .. length - 1 /\ p \in Nat /\ p + 1 \in 1 .. Len(submitted)
        /\ (p + 1) - 1 = p
    BY <1>3
  <2>2. ~(~iswhitespace(command[p]) /\ iswhitespace(command[p - 1]))
    <3>1. CASE p < t
      <4>1. p - 1 \in 0 .. t - 1
        BY <1>3, <2>1, <3>1
      <4> QED
        BY <1>1, <4>1
    <3>2. CASE p >= t
      <4>1. p \in t .. s - 1
        BY <1>3, <2>1, <3>2
      <4> QED
        BY <1>1, <4>1
    <3> QED
      BY <1>3, <2>1, <3>1, <3>2
  <2>3. p + 1 \notin Promise!WordStarts(submitted)
    BY <1>1, <2>1, <2>2, StartsAt
  <2>4. u[p + 1] = u[(p + 1) - 1]
    BY <2>1, <2>3, Zenon DEF UpTo
  <2> QED
    BY <2>1, <2>4
<1> DEFINE T == {m \in Nat : m + 1 <= s => u[m + 1] = <<word>>}
<1> HIDE DEF word
<1>6. 0 \in T
  BY <1>4
<1>7. ASSUME NEW m \in Nat, m \in T PROVE m + 1 \in T
  <2> SUFFICES ASSUME (m + 1) + 1 <= s PROVE u[(m + 1) + 1] = <<word>>
    OBVIOUS
  <2>1. m + 1 \in 1 .. s - 1 /\ m + 1 <= s
    BY <1>3
  <2>2. u[m + 1] = <<word>>
    BY <1>7, <2>1
  <2> QED
    BY <1>5, <2>1, <2>2
<1>8. \A m \in Nat : m \in T
  <2> HIDE DEF T
  <2> QED
    BY <1>6, <1>7, Induct
<1>9. u[s] = <<word>>
  <2>1. s - 1 \in Nat /\ (s - 1) + 1 = s
    BY <1>3
  <2>2. s - 1 \in T
    BY <1>8, <2>1
  <2> QED
    BY <2>1, <2>2
<1> QED
  BY <1>9 DEF s, word

LEMMA HeadReplaced ==
    ASSUME NEW S, NEW a \in S, NEW t \in Seq(S), NEW c
    PROVE  [<<a>> \o t EXCEPT ![1] = c] = <<c>> \o t
<1> DEFINE A == S \cup {c}
           v == <<a>> \o t
           w == <<c>> \o t
           e == [v EXCEPT ![1] = c]
<1>1. a \in A /\ c \in A /\ t \in Seq(A) /\ Len(t) \in Nat
  OBVIOUS
<1> HIDE DEF A
<1>2. /\ v \in Seq(A) /\ Len(v) = 1 + Len(t) /\ \A n \in 1 .. Len(t) : v[n + 1] = t[n]
      /\ w \in Seq(A) /\ Len(w) = 1 + Len(t) /\ \A n \in 1 .. Len(t) : w[n + 1] = t[n]
      /\ w[1] = c
  BY <1>1
<1> HIDE DEF v, w
<1>3. e \in Seq(A) /\ Len(e) = Len(v) /\ e[1] = c /\ \A k \in 2 .. Len(v) : e[k] = v[k]
  BY <1>1, <1>2
<1> HIDE DEF e
<1>4. ASSUME NEW k \in 1 .. Len(w) PROVE e[k] = w[k]
  <2>1. CASE k = 1
    BY <1>2, <1>3, <2>1
  <2>2. CASE k # 1
    <3> DEFINE n == k - 1
    <3>1. n \in 1 .. Len(t) /\ n + 1 = k /\ k \in 2 .. Len(v)
      BY <1>1, <1>2, <2>2
    <3> HIDE DEF n
    <3>2. v[n + 1] = t[n] /\ w[n + 1] = t[n] /\ e[k] = v[k]
      BY <1>2, <1>3, <3>1
    <3> QED
      BY <3>1, <3>2
  <2> QED
    BY <2>1, <2>2
<1>5. e = w
  BY <1>2, <1>3, <1>4, SeqEqual
<1> QED
  BY <1>5 DEF e, v, w

\* The program that a line without operators runs gets the first words of it, the
\* first as the path it is found by.
LEMMA ProgramGetsWords ==
    ASSUME SInv, RunProgram, Plain(submitted)
    PROVE  argv' = [Promise!FirstWords(submitted) EXCEPT ![1] = Promise!Called(@)]
<1> DEFINE s == NextWord
           scan == Scan(s)
           starts == Begun(scan)
           cut == [i \in Cells |-> IF i \in scan.cuts THEN "NUL" ELSE command[i]]
           strings == [n \in 1 .. Len(starts) |-> StringAt(cut, starts[n])]
           S == {Promise!WordAt(submitted, j) : j \in 1 .. Len(submitted)}
           word == Promise!WordAt(submitted, 1)
<1>1. argv' = <<Called(Token)>> \o strings
  BY Zenon DEF RunProgram, Begun
<1>2. Token = word
  BY TokenIsWord
<1>3. /\ HoldsLine /\ TokenEnd \in 1 .. length /\ s \in TokenEnd .. length
      /\ \A j \in TokenEnd .. s - 1 : iswhitespace(command[j])
      /\ TokenEnd < length => iswhitespace(command[TokenEnd])
      /\ s < length => ~iswhitespace(command[s])
  BY RunsLine
<1>4. /\ length \in Nat /\ Len(submitted) = length /\ s \in 1 .. length /\ s \in Nat
      /\ s \in Cells /\ MAX_ARGS \in Nat /\ 1 \in 1 .. Len(submitted)
  BY <1>3, BufferSizes DEF HoldsLine
<1>5. s < length => iswhitespace(command[s - 1])
  <2> SUFFICES ASSUME s < length PROVE iswhitespace(command[s - 1])
    OBVIOUS
  <2> DEFINE t == TokenEnd
  <2> HIDE DEF t, s
  <2>1. t \in 1 .. length /\ s \in t .. length
    BY <1>3 DEF t
  <2>2. t # s
    <3>1. t = s => iswhitespace(command[t]) /\ ~iswhitespace(command[t])
      BY <1>3 DEF t
    <3> QED
      BY <3>1
  <2>3. s - 1 \in t .. s - 1
    BY <1>4, <2>1, <2>2
  <2> QED
    BY <1>3, <2>3 DEF t
<1>6. PICK u : UpTo(submitted, u) /\ Promise!Words(submitted) = u[Len(submitted)]
  BY <1>4, WordsUpTo
<1>7. u[s] = <<word>>
  BY <1>6, FirstWordAlone
<1>8. scan \in Scans
  BY <1>4, ScanKeeps
<1> HIDE DEF s
<1>9. HasFinished(u, s, scan)
  BY <1>3, <1>4, <1>5, <1>6, <1>7, ScanReads
<1> HIDE DEF scan
<1>10. PICK q \in s .. length :
           HasRead(u, s, q, scan) /\ (q = length \/ (scan.argc = MAX_ARGS /\ ~scan.al))
  BY <1>9, Zenon DEF HasFinished
<1>11. /\ Len(u[q]) = 1 + Len(starts) /\ u[q][1] = word
       /\ \A n \in 1 .. Len(starts) :
              /\ starts[n] \in s .. q - 1
              /\ starts[n] + 1 \in Promise!WordStarts(submitted)
              /\ u[q][n + 1] = Promise!WordAt(submitted, starts[n] + 1)
       /\ scan.al <=> q > s /\ ~iswhitespace(command[q - 1])
       /\ scan.cuts = {i \in s + 1 .. q - 1 : /\ iswhitespace(command[i])
                                               /\ ~iswhitespace(command[i - 1])}
  BY <1>10, Zenon DEF HasRead
<1>12. /\ starts \in Seq(Cells) /\ Len(starts) \in Nat
       /\ Len(starts) = (IF scan.al THEN scan.argc ELSE scan.argc - 1)
       /\ scan.argc \in Nat /\ scan.argc <= MAX_ARGS
       /\ scan.al => scan.argc < MAX_ARGS
  <2>1. /\ scan.starts \in Seq(Cells) /\ scan.ap \in Cells /\ scan.argc \in Nat
        /\ scan.argc = Len(scan.starts) + 1
        /\ IF scan.al THEN scan.argc < MAX_ARGS ELSE scan.argc <= MAX_ARGS
    BY <1>8 DEF Scans
  <2>2. CASE scan.al
    <3>1. starts = Append(scan.starts, scan.ap)
      BY <2>2 DEF Begun
    <3> QED
      BY <1>4, <2>1, <2>2, <3>1
  <2>3. CASE ~scan.al
    <3>1. starts = scan.starts
      BY <2>3 DEF Begun
    <3> QED
      BY <1>4, <2>1, <2>3, <3>1
  <2> QED
    BY <2>2, <2>3
<1>13. \A n \in 1 .. Len(starts) :
           StringAt(cut, starts[n]) = Promise!WordAt(submitted, starts[n] + 1)
  <2> SUFFICES ASSUME NEW n \in 1 .. Len(starts)
               PROVE  StringAt(cut, starts[n]) = Promise!WordAt(submitted, starts[n] + 1)
    OBVIOUS
  <2> DEFINE i == starts[n]
             cuts == scan.cuts
  <2>1. i \in s .. q - 1 /\ i + 1 \in Promise!WordStarts(submitted)
    BY <1>11
  <2>2. q = length \/ (q > s => iswhitespace(command[q - 1]))
    BY <1>10, <1>11
  <2>3. cuts = {j \in s + 1 .. q - 1 : /\ iswhitespace(command[j])
                                       /\ ~iswhitespace(command[j - 1])}
    BY <1>11, Zenon
  <2> HIDE DEF i, starts, cuts
  <2>4. StringAt([j \in Cells |-> IF j \in cuts THEN "NUL" ELSE command[j]], i)
            = Promise!WordAt(submitted, i + 1)
    <3>1. HoldsLine /\ s \in 1 .. length
      BY <1>3, <1>4
    <3> QED
      BY <2>1, <2>2, <2>3, <3>1, StringIsWord
  <2> QED
    BY <2>4, Zenon DEF i, cuts
<1> HIDE DEF cut, starts
<1> DEFINE len == Len(starts)
           W(n) == Promise!WordAt(submitted, starts[n] + 1)
           v == u[q]
<1>14. q \in 0 .. Len(submitted)
  BY <1>4
<1>15. v \in Seq(S)
  BY <1>6, <1>14, Zenon DEF UpTo
<1>16. word \in S
  BY <1>4, Zenon
<1> HIDE DEF len, W, v, S, word
<1>17. strings = [n \in 1 .. len |-> W(n)]
  BY <1>13, Zenon DEF len, W
<1>18. len \in Nat /\ Len(v) = 1 + len /\ v[1] = word /\ \A n \in 1 .. len : v[n + 1] = W(n)
  <2>1. Len(v) = 1 + len /\ v[1] = word
    BY <1>11, Zenon DEF len, v
  <2>2. ASSUME NEW n \in 1 .. len PROVE v[n + 1] = W(n)
    <3>1. n \in 1 .. Len(starts)
      BY Zenon DEF len
    <3>2. u[q][n + 1] = Promise!WordAt(submitted, starts[n] + 1)
      BY <1>11, <3>1, Zenon
    <3> QED
      BY <3>2, Zenon DEF W, v
  <2>3. len \in Nat
    BY <1>12, Zenon DEF len
  <2> QED
    BY <2>1, <2>2, <2>3
<1> HIDE DEF strings
<1>19. <<word>> \o strings = v /\ strings \in Seq(S)
  <2>1. \A n \in 1 .. len : W(n) \in S
    <3> SUFFICES ASSUME NEW n \in 1 .. len PROVE v[n + 1] \in S
      BY <1>18
    <3>1. n + 1 \in 1 .. Len(v)
      BY <1>18
    <3> QED
      BY <1>15, <3>1, ElementOfSeq
  <2>2. strings \in Seq(S) /\ Len(strings) = len /\ \A n \in 1 .. len : strings[n] = W(n)
    BY <1>17, <1>18, <2>1
  <2> DEFINE r == <<word>> \o strings
  <2>3. <<word>> \in Seq(S) /\ Len(<<word>>) = 1 /\ <<word>>[1] = word
    BY <1>16
  <2>4. /\ r \in Seq(S) /\ Len(r) = 1 + len /\ r[1] = word
        /\ \A n \in 1 .. len : r[n + 1] = strings[n]
    BY <1>16, <1>18, <2>2, <2>3
  <2> HIDE DEF r
  <2>5. ASSUME NEW k \in 1 .. Len(r) PROVE r[k] = v[k]
    <3>1. CASE k = 1
      BY <1>18, <2>4, <3>1
    <3>2. CASE k # 1
      <4> DEFINE n == k - 1
      <4>1. n \in 1 .. len /\ n + 1 = k
        BY <1>18, <2>4, <3>2
      <4> HIDE DEF n
      <4>2. r[n + 1] = strings[n] /\ strings[n] = W(n) /\ v[n + 1] = W(n)
        BY <1>18, <2>2, <2>4, <4>1
      <4> QED
        BY <4>1, <4>2
    <3> QED
      BY <3>1, <3>2
  <2>6. r = v
    BY <1>15, <1>18, <2>4, <2>5, SeqEqual
  <2> QED
    BY <2>2, <2>6 DEF r
<1>20. Promise!FirstWords(submitted) = u[q]
  <2>1. \/ q = Len(submitted) /\ Len(u[q]) <= MAX_ARGS
        \/ Len(u[q]) = MAX_ARGS
    <3>1. Len(v) = 1 + len
      BY <1>18
    <3>2. /\ len = (IF scan.al THEN scan.argc ELSE scan.argc - 1) /\ len \in Nat
          /\ scan.argc \in Nat /\ scan.argc <= MAX_ARGS
          /\ scan.al => scan.argc < MAX_ARGS
      BY <1>12 DEF len
    <3>3. q = length \/ (scan.argc = MAX_ARGS /\ ~scan.al)
      BY <1>10
    <3> HIDE DEF v
    <3>4. Len(v) <= MAX_ARGS
      BY <1>4, <3>1, <3>2
    <3>5. q = length \/ Len(v) = MAX_ARGS
      BY <1>4, <3>1, <3>2, <3>3
    <3> QED
      BY <1>4, <3>4, <3>5, Zenon DEF v
  <2> QED
    BY <1>4, <1>6, <1>14, <2>1, FirstWordsAre
<1> DEFINE c == Called(Token)
<1>21. c = Promise!Called(v[1])
  <2>1. v[1] = Token
    BY <1>2, <1>18, Zenon
  <2> DEFINE T == {0} \cup {i \in 1 .. Len(Token) : Token[i] # "/"}
  <2>2. LastOther(Token) = Promise!Max(T)
    <3>1. LastOther(Token) = Max(T)
      BY Zenon DEF LastOther
    <3> HIDE DEF T
    <3>2. Max(T) = Promise!Max(T)
      BY DEF Max, Promise!Max
    <3> QED
      BY <3>1, <3>2
  <2>3. Promise!Called(Token)
            = IF Token[1] = "/" THEN SubSeq(Token, 1, Promise!Max(T)) ELSE Token
    BY Zenon DEF Promise!Called
  <2>4. Called(Token) = Promise!Called(Token)
    BY <2>2, <2>3, Zenon DEF Called
  <2> QED
    BY <2>1, <2>4, Zenon
<1> HIDE DEF c
<1>22. argv' = <<c>> \o strings
  BY <1>1, Zenon DEF c
<1>23. argv' = [v EXCEPT ![1] = c]
  BY <1>16, <1>19, <1>22, HeadReplaced
<1>24. argv' = [v EXCEPT ![1] = Promise!Called(@)]
  BY <1>21, <1>23, Zenon
<1> QED
  BY <1>20, <1>24, Zenon DEF v
-----------------------------------------------------------------------------
\* Every step is one that the command line promises, or none.

Line == IF mode = "edit" THEN Typed ELSE submitted

\* What is typed, or erased, or given up, while no program runs.
LEMMA EditSteps ==
    ASSUME argv = <<>>, argv' = argv,
           \/ Line' = Line
           \/ \E c \in Letters : Line' = Append(Line, c)
           \/ Line # <<>> /\ Line' = Front(Line)
           \/ Line' = <<>>
    PROVE  [Promise!Next]_(Promise!shell)
<1>1. CASE Line' = Line
  BY <1>1 DEF Line, Promise!shell
<1>2. CASE \E c \in Letters : Line' = Append(Line, c)
  BY <1>2, Zenon DEF Line, Promise!Next, Promise!Type
<1>3. CASE Line # <<>> /\ Line' = Front(Line)
  BY <1>3, Zenon DEF Line, Promise!Next, Promise!Erase, Front, Promise!Front
<1>4. CASE Line' = <<>>
  BY <1>4, Zenon DEF Line, Promise!Next, Promise!Clear
<1> QED
  BY <1>1, <1>2, <1>3, <1>4

\* The line editor's own steps.
LEMMA HandleRefines ==
    ASSUME SInv, mode = "edit", NEW c \in Keys \cup {"NUL"}, Handle(c)
    PROVE  [Promise!Next]_(Promise!shell)
<1>1. CInv /\ argv = <<>> /\ argv' = argv /\ Line = Typed
  BY DEF SInv, Arguments, Handle, Line
<1>2. submitted' = IF mode' = "factor" THEN Typed ELSE <<>>
  BY DEF Handle
<1>3. /\ Typed \in Seq(Letters) /\ Len(Typed) = length
      /\ \A i \in 0 .. length - 1 : Typed[i + 1] = command[i]
  BY <1>1, LineAtPrompt
<1>4. /\ length \in Nat /\ length \in 0 .. COMMAND /\ COMMAND \in Nat
      /\ Cells = 0 .. COMMAND - 1 /\ command \in [Cells -> Chars]
  BY <1>1, BufferSizes DEF CInv, TypeOK
<1>5. Typed' = [i \in 1 .. length' |-> command'[i - 1]]
  BY DEF Typed
<1>6. ASSUME UNCHANGED <<command, length, mode>> PROVE Line' = Line
  BY <1>6 DEF Line, Typed
<1>7. mode' \notin {"edit", "factor"} => Line' = <<>>
  BY <1>2 DEF Line
<1>8. CASE c = "CR"
  <2>1. Enter
    BY <1>8 DEF Handle
  <2>2. CASE length \in Cells \ {0}
    <3>1. mode' = "factor"
      BY <2>1, <2>2 DEF Enter
    <3>2. Line' = Line
      BY <1>1, <1>2, <3>1 DEF Line
    <3> QED
      BY <1>1, <3>2, EditSteps
  <2>3. CASE length = 0
    <3>1. UNCHANGED <<command, length, mode>>
      BY <2>1, <2>3 DEF Enter
    <3> QED
      BY <1>1, <1>6, <3>1, EditSteps
  <2>4. CASE length \notin Cells /\ length # 0
    <3>1. mode' = "lost"
      BY <2>1, <2>4 DEF Enter
    <3> QED
      BY <1>1, <1>7, <3>1, EditSteps
  <2> QED
    BY <2>2, <2>3, <2>4
<1>9. CASE c = "BS"
  <2>1. EraseLast
    BY <1>9 DEF Handle
  <2>2. CASE length = 0
    <3>1. UNCHANGED <<command, length, mode>>
      BY <2>1, <2>2 DEF EraseLast
    <3> QED
      BY <1>1, <1>6, <3>1, EditSteps
  <2>3. CASE length # 0
    <3>1. /\ command' = [command EXCEPT ![length - 1] = "NUL"] /\ length' = length - 1
          /\ mode' = "edit"
      BY <2>1, <2>3 DEF EraseLast
    <3>2. Line' = Typed'
      BY <3>1 DEF Line
    <3>3. Typed' = [i \in 1 .. length - 1 |-> Typed[i]]
      <4>1. \A i \in 1 .. length - 1 : command'[i - 1] = Typed[i]
        <5> SUFFICES ASSUME NEW i \in 1 .. length - 1 PROVE command'[i - 1] = Typed[i]
          OBVIOUS
        <5>1. i - 1 \in 0 .. length - 1 /\ i - 1 # length - 1 /\ (i - 1) + 1 = i
              /\ i - 1 \in Cells
          BY <1>4
        <5> QED
          BY <1>3, <1>4, <3>1, <5>1
      <4> QED
        BY <1>5, <3>1, <4>1
    <3>4. Front(Typed) = [i \in 1 .. length - 1 |-> Typed[i]]
      <4> DEFINE t == Typed
      <4> HIDE DEF t
      <4>1. t \in Seq(Letters) /\ Len(t) = length
        BY <1>3 DEF t
      <4>2. SubSeq(t, 1, Len(t) - 1) = [i \in 1 .. length - 1 |-> t[i]]
        <5>1. 1 + (length - 1) - 1 = length - 1 /\ \A i \in 1 .. length - 1 : i + 1 - 1 = i
          BY <1>4
        <5>2. SubSeq(t, 1, length - 1) =
                  [i \in 1 .. 1 + (length - 1) - 1 |-> t[i + 1 - 1]]
          BY <1>4
        <5> QED
          BY <4>1, <5>1, <5>2
      <4> QED
        BY <4>2, Zenon DEF Front, t
    <3>5. Line # <<>>
      <4> DEFINE t == Typed
      <4> HIDE DEF t
      <4>1. t # <<>>
        BY <1>3, <2>3 DEF t
      <4> QED
        BY <1>1, <4>1 DEF t
    <3>6. Line' = Front(Line)
      BY <1>1, <3>2, <3>3, <3>4
    <3> QED
      BY <1>1, <3>5, <3>6, EditSteps
  <2> QED
    BY <2>2, <2>3
<1>10. CASE c = "ETX"
  <2>1. length' = 0 /\ mode' = "edit"
    BY <1>10 DEF Handle
  <2>2. Typed' = <<>>
    BY <1>5, <2>1
  <2>3. Line' = <<>>
    BY <2>1, <2>2 DEF Line
  <2> QED
    BY <1>1, <2>3, EditSteps
<1>11. CASE c = "EOT"
  <2>1. mode' = "quit"
    BY <1>11 DEF Handle
  <2> QED
    BY <1>1, <1>7, <2>1, EditSteps
<1>12. CASE c \in {"FF", "ESC", "NUL"}
  <2>1. UNCHANGED <<command, length, mode>>
    BY <1>12 DEF Handle
  <2> QED
    BY <1>1, <1>6, <2>1, EditSteps
<1>13. CASE c \notin {"CR", "BS", "ETX", "EOT", "FF", "ESC", "NUL"}
  <2>1. Store(c)
    BY <1>13 DEF Handle
  <2>2. c \in Letters
    BY <1>13 DEF Letters, Control
  <2>3. CASE length \in Cells
    <3>1. /\ command' = [command EXCEPT ![length] = c] /\ length' = length + 1
          /\ mode' = "edit"
      BY <2>1, <2>3 DEF Store
    <3>2. Line' = Typed'
      BY <3>1 DEF Line
    <3> DEFINE t == Typed
    <3> HIDE DEF t
    <3>3. /\ t \in Seq(Letters) /\ Len(t) = length
          /\ \A i \in 0 .. length - 1 : t[i + 1] = command[i]
      BY <1>3 DEF t
    <3>4. Typed' = Append(t, c)
      <4>1. \A i \in 1 .. length + 1 :
                command'[i - 1] = IF i \in 1 .. length THEN t[i] ELSE c
        <5> SUFFICES ASSUME NEW i \in 1 .. length + 1
                     PROVE  command'[i - 1] = IF i \in 1 .. length THEN t[i] ELSE c
          OBVIOUS
        <5>1. CASE i \in 1 .. length
          <6>1. i - 1 \in 0 .. length - 1 /\ i - 1 # length /\ (i - 1) + 1 = i /\ i - 1 \in Cells
            BY <1>4, <5>1
          <6> QED
            BY <1>4, <3>1, <3>3, <5>1, <6>1
        <5>2. CASE i \notin 1 .. length
          <6>1. i - 1 = length
            BY <1>4, <5>2
          <6> QED
            BY <1>4, <2>3, <3>1, <5>2, <6>1
        <5> QED
          BY <5>1, <5>2
      <4>2. Append(t, c) = [i \in 1 .. Len(t) + 1 |-> IF i \in 1 .. Len(t) THEN t[i] ELSE c]
        <5> DEFINE a == Append(t, c)
        <5>1. /\ a \in Seq(Letters) /\ Len(a) = Len(t) + 1 /\ a[Len(t) + 1] = c
              /\ \A i \in 1 .. Len(t) : a[i] = t[i]
          BY <2>2, <3>3
        <5> HIDE DEF a
        <5>2. a = [i \in 1 .. Len(t) + 1 |-> a[i]]
          BY <5>1
        <5>3. Len(t) \in Nat
          BY <3>3
        <5>4. \A i \in 1 .. Len(t) + 1 : a[i] = IF i \in 1 .. Len(t) THEN t[i] ELSE c
          BY <5>1, <5>3
        <5> QED
          BY <5>2, <5>4 DEF a
      <4> QED
        BY <1>5, <3>1, <3>3, <4>1, <4>2
    <3>5. Line' = Append(Line, c)
      BY <1>1, <3>2, <3>4 DEF t
    <3> QED
      BY <1>1, <2>2, <3>5, EditSteps
  <2>4. CASE length \notin Cells
    <3>1. mode' = "lost"
      BY <2>1, <2>4 DEF Store
    <3> QED
      BY <1>1, <1>7, <3>1, EditSteps
  <2> QED
    BY <2>3, <2>4
<1> QED
  BY <1>8, <1>9, <1>10, <1>11, <1>12, <1>13

\* The parser leaves the line as it is until it is done; a program of a line
\* without operators gets its words.
LEMMA ParseRefines ==
    ASSUME SInv, Parse
    PROVE  [Promise!Next]_(Promise!shell)
<1>1. Arguments
  BY DEF SInv
<1>2. CASE Number \/ OpenParen \/ Dispatch \/ Load \/ Quit \/ Operator \/ CloseParen
  <2>1. /\ mode \in {"factor", "after"} /\ mode' \in {"factor", "after", "lost", "quit"}
        /\ submitted' = submitted /\ argv' = argv
    BY <1>2 DEF Number, OpenParen, Dispatch, Load, Quit, Operator, CloseParen, Goto, AtToken
  <2>2. Line' = Line /\ argv = <<>>
    BY <1>1, <2>1 DEF Line, Arguments
  <2> QED
    BY <2>1, <2>2, EditSteps
<1>3. CASE ParseDone
  <2>1. mode = "after" /\ mode' = "edit" /\ length' = 0 /\ argv' = argv
    BY <1>3 DEF ParseDone
  <2>2. Typed' = <<>>
    <3>1. Typed' = [i \in 1 .. length' |-> command'[i - 1]]
      BY DEF Typed
    <3> QED
      BY <2>1, <3>1
  <2>3. Line' = <<>> /\ argv = <<>>
    BY <1>1, <2>1, <2>2 DEF Line, Arguments
  <2> QED
    BY <2>1, <2>3, EditSteps
<1>4. CASE RunProgram
  <2>1. mode = "factor" /\ mode' = "program" /\ submitted' = submitted
    BY <1>4 DEF RunProgram, AtToken
  <2>2. argv = <<>> /\ argv' # <<>>
    <3>1. Arguments'
      BY <1>4, ParseStarts DEF Parse
    <3> QED
      BY <1>1, <2>1, <3>1 DEF Arguments
  <2>3. Line = submitted /\ Line' = Line
    BY <2>1 DEF Line
  <2>4. Promise!Plain(submitted) => Plain(submitted)
    BY DEF Promise!Plain, Plain, Special, Promise!Special
  <2>5. Promise!Plain(Line)
            => argv' = [Promise!FirstWords(Line) EXCEPT ![1] = Promise!Called(@)]
    BY <1>4, <2>3, <2>4, ProgramGetsWords
  <2>6. Promise!Run
    BY <2>2, <2>3, <2>5, Zenon DEF Promise!Run, Line
  <2> QED
    BY <2>6, Zenon DEF Promise!Next
<1> QED
  BY <1>2, <1>3, <1>4 DEF Parse

LEMMA ReturnRefines ==
    ASSUME SInv, NEW flag \in BOOLEAN, ProgramReturn(flag)
    PROVE  [Promise!Next]_(Promise!shell)
<1>1. /\ mode = "program" /\ mode' = "after" /\ argv' = <<>>
      /\ submitted' = IF Plain(submitted) THEN <<>> ELSE submitted
  BY DEF ProgramReturn
<1>2. argv # <<>>
  BY <1>1 DEF SInv, Arguments
<1>3. Line = submitted /\ Line' = submitted'
  BY <1>1 DEF Line
<1>4. Promise!Plain(Line) <=> Plain(submitted)
  BY <1>3 DEF Promise!Plain, Plain, Special, Promise!Special
<1>5. IF Promise!Plain(Line) THEN Line' = <<>> ELSE Line' = Line
  BY <1>1, <1>3, <1>4
<1>6. Promise!Return
  BY <1>1, <1>2, <1>5, Zenon DEF Promise!Return, Line
<1> QED
  BY <1>6, Zenon DEF Promise!Next

\* What was typed is what runs: every step of supermain() and exec_run() is one
\* that the shell's specification allows, so that a program of a line without
\* operators gets the words of that line, the first MAX_ARGS of them, and none
\* of the characters that earlier lines left in the buffer.
THEOREM ShellImplemented == Spec => ImplementsShell
<1>1. Init => Promise!Init
  <2> SUFFICES ASSUME Init PROVE Promise!Init
    OBVIOUS
  <2>1. mode = "edit" /\ length = 0 /\ argv = <<>>
    BY DEF Init
  <2>2. Typed = <<>>
    BY <2>1 DEF Typed
  <2> QED
    BY <2>1, <2>2, Zenon DEF Promise!Init
<1>2. SInv /\ [Next]_vars => [Promise!Next]_(Promise!shell)
  <2> SUFFICES ASSUME SInv, [Next]_vars PROVE [Promise!Next]_(Promise!shell)
    OBVIOUS
  <2>1. ASSUME NEW c \in Keys, Press(c) PROVE [Promise!Next]_(Promise!shell)
    BY <2>1, HandleRefines DEF Press
  <2>2. CASE ReadNothing
    <3>1. mode = "edit" /\ Handle(last) /\ last \in Keys \cup {"NUL"}
      BY <2>2 DEF ReadNothing, SInv, CInv, TypeOK
    <3> QED
      BY <3>1, HandleRefines
  <2>3. CASE Parse
    BY <2>3, ParseRefines
  <2>4. ASSUME NEW flag \in BOOLEAN, ProgramReturn(flag)
        PROVE  [Promise!Next]_(Promise!shell)
    BY <2>4, ReturnRefines
  <2>5. CASE UNCHANGED vars
    BY <2>5 DEF vars, Promise!shell, Typed
  <2> QED
    BY <2>1, <2>2, <2>3, <2>4, <2>5 DEF Next, Stopped
<1> QED
  BY <1>1, <1>2, ShellInvariant, PTL DEF Spec, ImplementsShell, Promise!Spec
=============================================================================
