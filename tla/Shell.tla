-------------------------------- MODULE Shell -------------------------------
(***************************************************************************)
(* What the command line promises: the line is what was typed, as edited;   *)
(* when it holds none of the characters the parser has other uses for, the  *)
(* program that runs is called by the first and gets the others, none twice. *)
(***************************************************************************)
EXTENDS Naturals, SequencesExt, FiniteSetsExt

CONSTANTS Letters,       \* characters the keyboard sends, but for the controls
          MAX_ARGS       \* size of the argument vector (16)

VARIABLES line,          \* what has been typed
          argv           \* the arguments of the running program, <<>> for none

shell == <<line, argv>>

Blank == {" ", "TAB"}
Special == {"(", "+", "*", "LF"}

\* The words of a line: its longest stretches without blanks, in order.
WordStarts(s) ==
    {i \in 1 .. Len(s) : s[i] \notin Blank /\ (i = 1 \/ s[i - 1] \in Blank)}
WordAt(s, i) ==
    SubSeq(s, i, Max({j \in i .. Len(s) : \A k \in i .. j : s[k] \notin Blank}))
Words(s) ==
    LET upTo[i \in 0 .. Len(s)] ==     \* the words that begin at i at the latest
            IF i = 0 THEN <<>>
            ELSE IF i \in WordStarts(s) THEN Append(upTo[i - 1], WordAt(s, i))
            ELSE upTo[i - 1]
    IN  upTo[Len(s)]
FirstWords(s) ==
    SubSeq(Words(s), 1, Min({Len(Words(s)), MAX_ARGS}))

\* A program typed with a path is called by it without the slashes at its end.
Called(w) ==
    IF w[1] = "/" THEN SubSeq(w, 1, Max({0} \cup {i \in 1 .. Len(w) : w[i] # "/"})) ELSE w

Plain(s) == \A i \in 1 .. Len(s) : s[i] \notin Special

Init == line = <<>> /\ argv = <<>>

Type ==
    /\ argv = <<>>
    /\ \E c \in Letters : line' = Append(line, c)
    /\ UNCHANGED argv
Erase ==
    /\ argv = <<>> /\ line # <<>>
    /\ line' = Front(line)
    /\ UNCHANGED argv
Clear ==
    /\ argv = <<>>
    /\ line' = <<>>
    /\ UNCHANGED argv
\* A program of a plain line is the last thing the line does.
Run ==
    /\ argv = <<>> /\ argv' # <<>>
    /\ Plain(line) => argv' = [FirstWords(line) EXCEPT ![1] = Called(@)]
    /\ UNCHANGED line
Return ==
    /\ argv # <<>> /\ argv' = <<>>
    /\ IF Plain(line) THEN line' = <<>> ELSE UNCHANGED line

Next == Type \/ Erase \/ Clear \/ Run \/ Return

Spec == Init /\ [][Next]_shell
=============================================================================
