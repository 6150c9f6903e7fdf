------------------------------ MODULE MCLibrary -----------------------------
(***************************************************************************)
(* The library with the strings the BDOS boots with; integers of 8 bits     *)
(* (long long: 12), the last directory of PATH read over its end, checksums *)
(* of up to three chunks.                                                   *)
(***************************************************************************)
EXTENDS Library

P == <<"P", "A", "T", "H">>
Dir1 == <<"/", "u", "s", "r", "/", "b", "i", "n">>
Dir2 == <<"/", "b", "i", "n">>
MCBootStrings ==
    << P \o <<"=">> \o Dir1 \o <<":">> \o Dir2,
       <<"T", "E", "R", "M", "=", "a", "n", "s", "i">> >>
MCPathDirs == <<Dir1, Dir2>>
MCNames ==
    {P, <<"P", "A", "T">>, P \o <<"S">>, P \o <<"=">>, <<"A", "T", "H">>, <<>>, <<"=">>,
     <<"T", "E", "R", "M">>, <<"T", "E">>, <<"H", "O", "M", "E">>}

\* MAX_PATH is 16: the last two fit behind /bin only, and behind neither.
MCCommands ==
    {<<"l", "s">>, <<"a", "s", "m">>, <<"l", "s", "/">>,
     <<"l", "o", "n", "g", "l", "s", "x">>,
     <<"l", "o", "n", "g", "e", "s", "t", "n", "a", "m", "e">>}

\* tab, space, +, -, 0, 2, 5, 9, F, X, f, x, a letter that is no digit, and a
\* character that is not ASCII.
MCChars == {32, 45, 48, 50, 53, 70, 120, 122, 233}
MCNumerals ==
    UNION {[1 .. n -> MCChars] : n \in 0 .. 4} \cup
    {<<9, 43>> \o s : s \in [1 .. 2 -> {48, 57, 88}]} \cup
    {<<48, 120>> \o s : s \in [1 .. 3 -> {48, 49, 102}]} \cup
    {<<45>> \o s : s \in [1 .. 3 -> {50, 53, 54}]}

Opt(b, c) == IF b THEN <<c>> ELSE <<>>
NumberPrint(zero, left, width, size, spec, v) ==
    [kind |-> "number", spec |-> spec, args |-> <<v>>,
     format |-> <<"%">> \o Opt(zero, "0") \o Opt(left, "-")
                \o (IF width = 0 THEN <<>> ELSE <<Digits[width + 1]>>) \o size \o <<spec>>,
     d |-> [width |-> width,
            flags |-> (IF zero THEN {"zeropad"} ELSE {}) \cup (IF left THEN {"left"} ELSE {})
                      \cup (CASE size = <<"l">> -> {"long"}
                              [] size \in {<<"l", "l">>, <<"j">>} -> {"longlong"}
                              [] size = <<"h">> -> {"short"}
                              [] size = <<"h", "h">> -> {"char"} [] OTHER -> {})]]
Values1 == {-128, -100, -12, -1, 0, 9, 10, 15, 100, 127, 128, 255}
NumberPrints ==
    {NumberPrint(z, l, w, s, c, v) :
        z \in BOOLEAN, l \in BOOLEAN, w \in {0, 2, 3, 4},
        s \in {<<>>, <<"l">>, <<"h">>, <<"h", "h">>}, c \in {"d", "u", "x", "X"}, v \in Values1}
    \cup {NumberPrint(z, FALSE, w, <<>>, c, v) :
             z \in BOOLEAN, w \in {0, 3, 8}, c \in {"i", "o", "b"}, v \in Values1}
    \cup {NumberPrint(z, FALSE, 6, s, c, v) :
             z \in BOOLEAN, s \in {<<"l", "l">>, <<"j">>},
             c \in {"d", "u", "x"}, v \in {-2048, -1000, -1, 0, 2047, 4095}}

StringPrints ==
    {[kind |-> "string", spec |-> "s", args |-> <<SubSeq(P, 1, n)>>,
      format |-> <<"%">> \o Opt(left, "-") \o <<"3">>
                 \o (IF prec THEN <<".", "2">> ELSE <<>>) \o <<"s">>,
      d |-> [width |-> 3, prec |-> 2,
             flags |-> (IF left THEN {"left"} ELSE {}) \cup (IF prec THEN {"precision"} ELSE {})]] :
        left \in BOOLEAN, prec \in BOOLEAN, n \in 0 .. 4}

\* %.02f, as the mount shows the share of blocks that are used.  The doubles have
\* 11 bits: 1/1024s near 0, 1/2 and 1, whose products with 100 and 1000 are rounded,
\* carry over all of the decimals, or are the half behind nines (973 with one
\* decimal, 1019 with two), and larger numbers.
Doubles ==
    {[num |-> v, den |-> 1024] : v \in 0 .. 64 \cup 448 .. 576 \cup 960 .. 1024 \cup {2043, 2047}}
    \cup {[num |-> v, den |-> 16] : v \in {159, 160, 1592, 1599, 1600}}
DecimalPrints ==
    {[kind |-> "decimal", spec |-> "f", args |-> <<v>>,
      format |-> <<"%", ".", "0", Digits[p + 1], "f">>, d |-> [prec |-> p]] :
        p \in 0 .. 3, v \in Doubles}

Literal(format, args, wanted) ==
    [kind |-> "text", spec |-> "", args |-> args, format |-> format, wanted |-> wanted]
TextPrints ==
    <<Literal(<<"a", "%", "%">>, <<>>, <<"a", "%">>),
     Literal(<<"%", "3", "c", "%", "-", "2", "c", "|">>, <<"x", "y">>, <<" ", " ", "x", "y", " ", "|">>),
     Literal(<<"%", "*", "d", ",", "%", "*", "d", ";">>, <<3, 7, -3, 8>>,
             <<" ", " ", "7", ",", "8", " ", " ", ";">>),
     Literal(<<"%", ".", "*", "s", "%", ".", "3", "d">>, <<1, P, 7>>, <<"P", "0", "0", "7">>),
     Literal(<<"%", "+", "d", "%", " ", "d">>, <<5, 6>>, <<"+", "5", " ", "6">>),
     Literal(<<"%", "#", "x", " ", "%", "#", "o", " ", "%", "#", "X">>, <<31, 9, 0>>,
             <<"0", "x", "1", "f", " ", "0", "1", "1", " ", "0">>),
     Literal(<<"%", "p">>, <<171>>, <<"0", "0", "A", "B">>),
     Literal(<<"%", "z", "u", "%", "t", "d", "%", "q">>, <<3, -4>>, <<"3", "-", "4", "q">>)>>
MCPrints ==
    <<NumberPrints, StringPrints, DecimalPrints>>
        \o [k \in 1 .. Len(TextPrints) |-> {TextPrints[k]}]

ThisMachine ==
    [magic |-> TRUE, class |-> "CLASS32", data |-> "MSB", version |-> "CURRENT",
     machine |-> "68K", shoff |-> 1, shnum |-> 3, shentsize |-> 1, shstrndx |-> 2]
MCHeaders ==
    {[ThisMachine EXCEPT !.shoff = o, !.shnum = n, !.shstrndx = x] :
        o \in {1, 2}, n \in {2, 3}, x \in {0, 1, 2}}
    \cup {[ThisMachine EXCEPT !.magic = FALSE], [ThisMachine EXCEPT !.data = "LSB"],
          [ThisMachine EXCEPT !.machine = "SPARC"], [ThisMachine EXCEPT !.class = "CLASS64"],
          [ThisMachine EXCEPT !.version = "NONE"], [ThisMachine EXCEPT !.shnum = 5],
          [ThisMachine EXCEPT !.shentsize = 2, !.shnum = 2]}
MCSections ==
    {NoSection,
     [type |-> "STRTAB", addr |-> 0, offset |-> 1, size |-> 1],
     [type |-> "STRTAB", addr |-> 0, offset |-> 1, size |-> 3],
     [type |-> "PROGBITS", addr |-> 0, offset |-> 3, size |-> 1],
     [type |-> "PROGBITS", addr |-> 2, offset |-> 3, size |-> 2],
     [type |-> "PROGBITS", addr |-> 4, offset |-> 4, size |-> 1],
     [type |-> "NOBITS", addr |-> 3, offset |-> 5, size |-> 2]}
\* In a file of six units: beyond the block map, and where kread() refuses.
MCBeyond ==
    {[type |-> "PROGBITS", addr |-> 1, offset |-> 5, size |-> 1],
     [type |-> "PROGBITS", addr |-> 2, offset |-> 6, size |-> 0]}
Units(s, n) ==
    [k \in 0 .. n - 1 |-> IF k \in 1 .. Len(s) THEN s[k] ELSE NoSection]
MCFiles ==
    {Units(s, Len(s) + 1) : s \in UNION {[1 .. n -> MCSections] : n \in 2 .. 4}}
    \cup {Units(s, 6) : s \in [1 .. 3 -> MCSections \cup MCBeyond]}
MCAddresses == 1 .. 5
=============================================================================
