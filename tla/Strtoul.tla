------------------------------- MODULE Strtoul ------------------------------
(***************************************************************************)
(* kernel_strtoul(): the number a string begins with, and how far it goes.  *)
(* Characters are ASCII codes, as the code computes with them; a string is  *)
(* the sequence of its characters, without the NUL.                         *)
(***************************************************************************)
EXTENDS Integers, Sequences

CONSTANT ULONG_MAX       \* largest unsigned long (2^32 - 1)

ASSUME StrtoulAssumption == ULONG_MAX \in Nat

Char(s, k) == IF k \in 1 .. Len(s) THEN s[k] ELSE 0

isspace(c) == c \in {32, 12, 10, 13, 9, 11}
isascii(c) == c < 128
isdigit(c) == c \in 48 .. 57
isupper(c) == c \in 65 .. 90
isalpha(c) == c \in 97 .. 122 \/ isupper(c)

\* The value of a character as a digit; none has NotDigit.
NotDigit == 36
DigitValue(c) ==
    IF ~isascii(c) THEN NotDigit
    ELSE IF isdigit(c) THEN c - 48
    ELSE IF ~isalpha(c) THEN NotDigit
    ELSE IF isupper(c) THEN c - 55 ELSE c - 87

SkipSpace(s) ==
    CHOOSE k \in 1 .. Len(s) + 1 :
        /\ \A j \in 1 .. k - 1 : isspace(Char(s, j))
        /\ ~isspace(Char(s, k))

\* Where the digits begin, in which base, and whether a minus sign is in front.
Start(s, base) ==
    LET first == SkipSpace(s)
        neg == Char(s, first) = 45
        k == IF neg \/ Char(s, first) = 43 THEN first + 1 ELSE first
        hex == /\ base \in {0, 16}
               /\ Char(s, k) = 48 /\ Char(s, k + 1) \in {120, 88}
    IN  [at |-> IF hex THEN k + 2 ELSE k,
         neg |-> neg,
         base |-> IF hex THEN 16
                  ELSE IF base # 0 THEN base
                  ELSE IF Char(s, k) = 48 THEN 8 ELSE 10]

\* any: no digit yet (0), a number (1), or one that is too large (-1).
\* Slip: the last digit is not looked at before it is added.
Overflows_NoLimit(acc, c, base) == acc > ULONG_MAX \div base
Overflows(acc, c, base) ==
    \/ acc > ULONG_MAX \div base
    \/ acc = ULONG_MAX \div base /\ c > ULONG_MAX % base

AddDigit(s, base, r) ==
    LET c == DigitValue(Char(s, r.at))
    IN  IF c >= base THEN r
        ELSE IF r.any < 0 \/ Overflows(r.acc, c, base)
        THEN [acc |-> r.acc, any |-> -1, at |-> r.at + 1]
        ELSE [acc |-> (r.acc * base + c) % (ULONG_MAX + 1), any |-> 1, at |-> r.at + 1]

Accumulate(s, from, base) ==
    LET after[n \in 0 .. Len(s)] ==
            IF n = 0 THEN [acc |-> 0, any |-> 0, at |-> from]
            ELSE AddDigit(s, base, after[n - 1])
    IN  after[Len(s)]

\* The value, and the index of the first character that is not part of it.
kernel_strtoul(s, base) ==
    LET start == Start(s, base)
        r == Accumulate(s, start.at, start.base)
    IN  [value |-> IF r.any < 0 THEN ULONG_MAX
                   ELSE IF start.neg THEN (-r.acc) % (ULONG_MAX + 1) ELSE r.acc,
         end |-> IF r.any = 0 THEN 1 ELSE r.at]

-----------------------------------------------------------------------------
\* What a C library computes.

Positional(s, from, to, base) ==
    LET Place[k \in from - 1 .. to] ==
            IF k < from THEN 0 ELSE Place[k - 1] * base + DigitValue(s[k])
    IN  Place[to]

\* The longest run of digits that begins at k.
RunEnd(s, k, base) ==
    CHOOSE n \in k - 1 .. Len(s) :
        /\ \A j \in k .. n : DigitValue(s[j]) < base
        /\ n = Len(s) \/ DigitValue(s[n + 1]) >= base

\* The sign, the prefix and the digits, wherever the spaces end.  0x is a prefix
\* in front of a digit only; bare: the zero is the number and the x stands behind.
Number(s, base) ==
    LET spaces == CHOOSE n \in 0 .. Len(s) :
                      /\ \A j \in 1 .. n : isspace(s[j])
                      /\ n = Len(s) \/ ~isspace(s[n + 1])
        sign == IF Char(s, spaces + 1) \in {43, 45} THEN 1 ELSE 0
        k == spaces + sign + 1
        zerox == base \in {0, 16} /\ Char(s, k) = 48 /\ Char(s, k + 1) \in {88, 120}
        prefixed == zerox /\ DigitValue(Char(s, k + 2)) < 16
        b == IF base # 0 THEN base
             ELSE IF prefixed THEN 16 ELSE IF Char(s, k) = 48 THEN 8 ELSE 10
        from == IF prefixed THEN k + 2 ELSE k
        to == IF from > Len(s) THEN from - 1 ELSE RunEnd(s, from, b)
    IN  [neg |-> sign = 1 /\ s[spaces + 1] = 45,
         bare |-> zerox /\ ~prefixed,
         value |-> IF to < from THEN 0 ELSE Positional(s, from, to, b),
         end |-> IF to < from THEN 1 ELSE to + 1]

\* 0x and no hexadecimal digit behind it.
BarePrefix(s, base) == Number(s, base).bare

\* A number too large for an unsigned long is the largest, whatever its sign.
Reference(s, base) ==
    LET n == Number(s, base)
    IN  [value |-> IF n.value > ULONG_MAX THEN ULONG_MAX
                   ELSE IF n.neg THEN (-n.value) % (ULONG_MAX + 1) ELSE n.value,
         end |-> n.end]
=============================================================================
