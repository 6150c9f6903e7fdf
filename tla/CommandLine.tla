----------------------------- MODULE CommandLine ----------------------------
(***************************************************************************)
(* supermain(): the line editor, the recursive parser that finds commands   *)
(* in the line, and exec_run(), which cuts what follows a program's name    *)
(* into arguments.  All three work on one static buffer: what is behind the *)
(* end of a line is left from earlier lines.                                *)
(*                                                                          *)
(* Characters and keys are strings.  Numbers are parsed and added, but      *)
(* nothing uses the result, so values are left out; the recursion is kept   *)
(* as the number of parentheses that are open.  A program does not write    *)
(* its arguments.  A read or a write outside the buffers ends the model:    *)
(* mode "lost".                                                             *)
(***************************************************************************)
EXTENDS Integers, SequencesExt, FiniteSetsExt

CONSTANTS COMMAND,       \* size of the command buffer (2048)
          MAX_STRING,    \* size of parseString (80)
          MAX_ARGS,      \* size of the argument vector (16)
          Keys           \* what the keyboard sends

Control == {"CR", "FF", "ESC", "BS", "ETX", "EOT"}
Letters == Keys \ Control
Chars == Letters \cup {"NUL"}
Cells == 0 .. COMMAND - 1

ASSUME LineAssumption ==
    /\ COMMAND \in Nat \ {0} /\ MAX_STRING \in Nat \ {0} /\ MAX_ARGS \in Nat \ {0}
    /\ "NUL" \notin Keys

VARIABLES command,       \* the buffer
          length,
          last,          \* buf[0]: the last key read
          nonblock,      \* O_NONBLOCK of descriptor 0
          mode,          \* what runs
          x,             \* the parser's position
          depth,         \* parentheses open
          argv,          \* the running program's arguments
          submitted      \* history: the line the parser works on

editor == <<command, length, last>>
parser == <<x, depth>>
vars == <<command, length, last, nonblock, mode, x, depth, argv, submitted>>

Init ==
    /\ command = [i \in Cells |-> "NUL"]
    /\ length = 0
    /\ last = "NUL"
    /\ nonblock = FALSE
    /\ mode = "edit"
    /\ x = 0 /\ depth = 0
    /\ argv = <<>>
    /\ submitted = <<>>

-----------------------------------------------------------------------------
\* The line editor.

Typed == [i \in 1 .. length |-> command[i - 1]]

Store(c) ==
    IF length \in Cells
    THEN /\ command' = [command EXCEPT ![length] = c]
         /\ length' = length + 1
         /\ UNCHANGED mode
    ELSE mode' = "lost" /\ UNCHANGED <<command, length>>

EraseLast ==
    /\ IF length = 0 THEN UNCHANGED <<command, length>>
       ELSE /\ command' = [command EXCEPT ![length - 1] = "NUL"]
            /\ length' = length - 1
    /\ UNCHANGED mode

\* Slip: the line is parsed without a terminator.
Enter_Open ==
    /\ mode' = IF length = 0 THEN "edit" ELSE "factor"
    /\ UNCHANGED <<command, length>>
Enter ==
    /\ IF length \in Cells \ {0}
       THEN /\ command' = [command EXCEPT ![length] = "NUL"]
            /\ mode' = "factor"
       ELSE /\ mode' = IF length = 0 THEN "edit" ELSE "lost"
            /\ UNCHANGED command
    /\ UNCHANGED length

\* ETX forgets the line but not its characters; FF asks for a new prompt.
Handle(c) ==
    /\ CASE c = "CR" -> Enter
         [] c = "BS" -> EraseLast
         [] c = "ETX" -> length' = 0 /\ UNCHANGED <<command, mode>>
         [] c = "EOT" -> mode' = "quit" /\ UNCHANGED <<command, length>>
         [] c \in {"FF", "ESC", "NUL"} -> UNCHANGED <<command, length, mode>>
         [] OTHER -> Store(c)
    /\ submitted' = IF mode' = "factor" THEN Typed ELSE <<>>
    /\ last' = c
    /\ UNCHANGED <<nonblock, x, depth, argv>>

Press(c) == mode = "edit" /\ Handle(c)

\* With O_NONBLOCK a read that finds no key returns -1, which supermain() does
\* not look at: buf[0] still holds the key before.
ReadNothing == mode = "edit" /\ nonblock /\ Handle(last)

-----------------------------------------------------------------------------
\* The parser.

isWhitespace(c) == c \in {" ", "TAB", "CR", "LF"}
isTerminator(c) == c = "NUL"
IsDigit(c) == c \in {"0", "1", "2", "3", "4", "5", "6", "7", "8", "9"}

\* The first cell from i on that is not in the set, COMMAND when there is none.
SkipSet(i, P(_)) ==
    LET stops == {j \in i .. COMMAND - 1 : ~P(command[j])}
    IN  IF stops = {} THEN COMMAND ELSE Min(stops)

Goto(i, next) == x' = i /\ mode' = IF i \in Cells THEN next ELSE "lost"

Number ==
    /\ mode = "factor" /\ IsDigit(command[x])
    /\ Goto(SkipSet(x, IsDigit), "after")
    /\ UNCHANGED <<editor, nonblock, depth, argv, submitted>>

OpenParen ==
    /\ mode = "factor" /\ command[x] = "("
    /\ Goto(x + 1, "factor")
    /\ depth' = depth + 1
    /\ UNCHANGED <<editor, nonblock, argv, submitted>>

\* parseToken(): the token, and the place behind it and the blanks after it.  A
\* token of MAX_STRING characters gets its NUL behind the end of parseString.
TokenEnd == SkipSet(x, LAMBDA c : ~isWhitespace(c) /\ ~isTerminator(c))
Token == [i \in 1 .. TokenEnd - x |-> command[x + i - 1]]
NextWord == IF TokenEnd \in Cells THEN SkipSet(TokenEnd, isWhitespace) ELSE COMMAND
TokenFits == TokenEnd - x < MAX_STRING

AtToken == mode = "factor" /\ ~IsDigit(command[x]) /\ command[x] # "("

\* A string of the buffer.
StringAt(cells, i) ==
    LET ends == {j \in i .. COMMAND - 1 : cells[j] = "NUL"}
    IN  [k \in 1 .. (IF ends = {} THEN COMMAND ELSE Min(ends)) - i |-> cells[i + k - 1]]

\* ext2_path_to_inode() cuts the slashes at the end of its path where it stands:
\* of parseString, when that begins with "/", and of what follows the name of a
\* command that takes a path.  Where a longer path is nothing but slashes, it
\* goes on at what is before the path: a blank in the buffer, but no character
\* of parseString.
OnlySlashes(w) == \A i \in 1 .. Len(w) : w[i] = "/"
LastOther(w) == Max({0} \cup {i \in 1 .. Len(w) : w[i] # "/"})
Called_AsTyped(w) == w    \* slip: the name is the token
Called(w) ==
    IF w[1] = "/" THEN SubSeq(w, 1, LastOther(w)) ELSE w
TooShort == TokenEnd - x > 1 /\ OnlySlashes(Token)
PathCut(i) ==
    LET path == StringAt(command, i)
    IN  [j \in Cells |->
            IF /\ Len(path) > 1
               /\ j - i \in LastOther(path) .. Len(path) - 1
            THEN "NUL" ELSE command[j]]

\* An empty token, a command that takes no path, a name that is not found or one
\* that is no program: the parser goes on behind the token.
Dispatch ==
    /\ AtToken
    /\ Goto(IF TokenFits /\ ~TooShort THEN NextWord ELSE COMMAND, "after")
    /\ UNCHANGED <<editor, nonblock, depth, argv, submitted>>

\* "load" is the shell's own command that takes a path.
Load ==
    /\ AtToken /\ TokenFits /\ TokenEnd > x /\ command[x] # "/"
    /\ NextWord \in Cells
    /\ command' = PathCut(NextWord)
    /\ Goto(NextWord, "after")
    /\ UNCHANGED <<length, last, nonblock, depth, argv, submitted>>

\* "quit", "exit" or "q".
Quit ==
    /\ AtToken /\ TokenFits /\ TokenEnd > x
    /\ mode' = "quit"
    /\ UNCHANGED <<editor, nonblock, parser, argv, submitted>>

-----------------------------------------------------------------------------
\* exec_run(): the loop over what follows the name, from cell s on.  ap is the
\* start of the word at hand, al whether there is one, cuts the blanks that
\* become NUL, on whether the loop still runs.
iswhitespace(c) == c \in {" ", "TAB"}
EndsArguments(c) == c \in {"NUL", "LF", "CR"}

Argument(a, i) ==
    IF ~iswhitespace(command[i])
    THEN [a EXCEPT !.al = TRUE, !.ap = IF a.al THEN @ ELSE i]
    ELSE IF ~a.al THEN a
    ELSE [a EXCEPT !.starts = Append(@, a.ap), !.argc = @ + 1, !.al = FALSE,
                   !.cuts = @ \cup {i}]
ScanCell_NoLimit(a, i) ==    \* slip: the size of the vector is forgotten
    IF a.on /\ ~EndsArguments(command[i])
    THEN Argument(a, i) ELSE [a EXCEPT !.on = FALSE]
ScanCell(a, i) ==
    IF a.on /\ ~EndsArguments(command[i]) /\ a.argc < MAX_ARGS
    THEN Argument(a, i) ELSE [a EXCEPT !.on = FALSE]
Scan(s) ==
    LET after[k \in 0 .. COMMAND - s] ==    \* its variables k cells on
            IF k = 0 THEN [on |-> TRUE, argc |-> 1, al |-> FALSE, ap |-> s,
                           starts |-> <<>>, cuts |-> {}]
            ELSE ScanCell(after[k - 1], s + (k - 1))
    IN  after[COMMAND - s]

RunProgram ==
    /\ AtToken /\ TokenFits /\ ~OnlySlashes(Token) /\ NextWord \in Cells
    /\ LET scan == Scan(NextWord)
           starts == IF scan.al THEN Append(scan.starts, scan.ap) ELSE scan.starts
           cut == [i \in Cells |-> IF i \in scan.cuts THEN "NUL" ELSE command[i]]
       IN  /\ command' = cut
           /\ argv' = <<Called(Token)>> \o [n \in 1 .. Len(starts) |-> StringAt(cut, starts[n])]
    /\ x' = NextWord
    /\ mode' = "program"
    /\ UNCHANGED <<length, last, nonblock, depth, submitted>>

Special == {"(", "+", "*", "LF"}
Plain(line) == \A i \in 1 .. Len(line) : line[i] \notin Special

\* exec_run() puts nothing back: the flags of descriptor 0 are the program's.
ProgramReturn(flag) ==
    /\ mode = "program"
    /\ nonblock' = flag
    /\ mode' = "after"
    /\ argv' = <<>>
    /\ submitted' = IF Plain(submitted) THEN <<>> ELSE submitted
    /\ UNCHANGED <<editor, parser>>

\* Behind a factor: parseProduct() and parseSum() go on at an operator; within
\* parentheses the next character is skipped, whatever it is.
Operator_Stuck ==    \* slip: the operator is not consumed
    /\ mode = "after" /\ command[x] \in {"*", "+"}
    /\ Goto(x, "after")
    /\ UNCHANGED <<editor, nonblock, depth, argv, submitted>>
Operator ==
    /\ mode = "after" /\ command[x] \in {"*", "+"}
    /\ Goto(x + 1, "factor")
    /\ UNCHANGED <<editor, nonblock, depth, argv, submitted>>
CloseParen_Always ==    \* slip: a character is skipped outside parentheses too
    /\ mode = "after" /\ command[x] \notin {"*", "+"}
    /\ Goto(x + 1, "after")
    /\ UNCHANGED <<editor, nonblock, depth, argv, submitted>>
CloseParen ==
    /\ mode = "after" /\ command[x] \notin {"*", "+"} /\ depth > 0
    /\ Goto(x + 1, "after")
    /\ depth' = depth - 1
    /\ UNCHANGED <<editor, nonblock, argv, submitted>>
ParseDone ==
    /\ mode = "after" /\ command[x] \notin {"*", "+"} /\ depth = 0
    /\ mode' = "edit"
    /\ length' = 0 /\ x' = 0
    /\ submitted' = <<>>
    /\ UNCHANGED <<command, last, nonblock, depth, argv>>

Parse ==
    \/ Number \/ OpenParen \/ Dispatch \/ Load \/ Quit \/ RunProgram
    \/ Operator \/ CloseParen \/ ParseDone

Stopped == mode \in {"quit", "lost"} /\ UNCHANGED vars

Next ==
    \/ \E c \in Keys : Press(c)
    \/ ReadNothing
    \/ Parse
    \/ \E flag \in BOOLEAN : ProgramReturn(flag)
    \/ Stopped

\* The processor goes on with a line it has; users and programs may pause.
Spec == Init /\ [][Next]_vars /\ WF_vars(Parse)

-----------------------------------------------------------------------------
\* Properties

Parsing == {"factor", "after", "program"}

\* The types; the vector of arguments never has more entries than exec_run() has
\* room for.
TypeOK ==
    /\ command \in [Cells -> Chars]
    /\ length \in 0 .. COMMAND
    /\ last \in Keys \cup {"NUL"}
    /\ nonblock \in BOOLEAN
    /\ mode \in Parsing \cup {"edit", "quit", "lost"}
    /\ x \in 0 .. COMMAND /\ (mode \in Parsing => x \in Cells)
    /\ depth \in 0 .. COMMAND
    /\ argv \in Seq(Seq(Chars)) /\ Len(argv) <= MAX_ARGS
    /\ submitted \in Seq(Letters)

\* The parser stays inside the line that was typed, although the buffer holds
\* the characters of longer lines behind it, unless a parenthesis was opened.
OwnText ==
    mode \in Parsing => x <= length \/ \E i \in 1 .. Len(submitted) : submitted[i] = "("

\* Nothing outside the buffers is touched unless a line fills the buffer, a word
\* fills parseString, a name begins with two slashes (it may hold nothing else), or
\* a parenthesis sends the parser behind the line.
LostOnlyByTheLine ==
    mode = "lost" =>
        \/ length = COMMAND
        \/ \E i \in 1 .. Len(submitted) :
               \/ submitted[i] = "("
               \/ /\ i < Len(submitted)
                  /\ submitted[i] = "/" /\ submitted[i + 1] = "/"
                  /\ i = 1 \/ submitted[i - 1] \in {"+", "*"}
               \/ /\ i + MAX_STRING - 1 <= Len(submitted)
                  /\ \A j \in i .. i + MAX_STRING - 1 : ~isWhitespace(submitted[j])

\* Every line is parsed to its end, whatever is behind it in the buffer.
ParseEnds == (mode \in {"factor", "after"}) ~> (mode \notin {"factor", "after"})

\* What was typed is what runs.
Promise == INSTANCE Shell WITH
    line <- IF mode = "edit" THEN Typed ELSE submitted
ImplementsShell == Promise!Spec
=============================================================================
