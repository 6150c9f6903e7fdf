-------------------------------- MODULE Printf ------------------------------
(***************************************************************************)
(* kprintf.c: the formatted output of the kernel.  A format and what it     *)
(* puts out are sequences of characters; a string is a sequence, a double   *)
(* the record [num, den] of the dyadic rational that it is, and every other *)
(* argument is an integer.                                                  *)
(*                                                                          *)
(* The flags are a set: "zeropad", "left", "plus", "space", "hash",         *)
(* "uppercase", "char", "short", "long", "longlong", "precision".  A format *)
(* does not end within a directive.                                         *)
(***************************************************************************)
EXTENDS Integers, SequencesExt, FiniteSetsExt

CONSTANTS NTOA_BUFFER,   \* characters a number is converted in (32)
          FTOA_BUFFER,   \* and one of %f (32)
          UCHARS,        \* number of values of an unsigned char (2^8)
          USHORTS,       \* of an unsigned short (2^16)
          ULONGS,        \* of an unsigned int or long (2^32)
          ULLONGS,       \* of an unsigned long long (2^64)
          POINTER_WIDTH, \* digits of a pointer (8)
          MANTISSA       \* significant bits of a double (53)

Repeat(c, n) == [k \in 1 .. n |-> c]
Pad(width, len) == Repeat(" ", Max({width - len, 0}))

Digits == <<"0", "1", "2", "3", "4", "5", "6", "7", "8", "9", "a", "b", "c", "d", "e", "f">>
UpperDigits == SubSeq(Digits, 1, 10) \o <<"A", "B", "C", "D", "E", "F">>
Digit(d, flags) == IF "uppercase" \in flags THEN UpperDigits[d + 1] ELSE Digits[d + 1]

AsSignedOf(v, values) == LET u == v % values IN IF u >= values \div 2 THEN u - values ELSE u

-----------------------------------------------------------------------------
\* Numbers.  buf holds the characters in reverse.

\* Zeros up to n characters, while the buffer has room.
Zeros(buf, n, room) == buf \o Repeat("0", Max({Min({n, room}) - Len(buf), 0}))

Drop(buf) == SubSeq(buf, 1, Len(buf) - 1)
Append1(buf, c, room) == IF Len(buf) < room THEN Append(buf, c) ELSE buf

\* The prefix takes the place of digits if the number fills the field.
Hash(buf, base, prec, width, flags, room) ==
    LET full == Len(buf) > 0 /\ Len(buf) \in {prec, width}
        b1 == IF full THEN Drop(buf) ELSE buf
        b2 == IF full /\ Len(b1) > 0 /\ base = 16 THEN Drop(b1) ELSE b1
        b3 == IF base = 16
              THEN Append1(b2, IF "uppercase" \in flags THEN "X" ELSE "x", room) ELSE b2
    IN  IF "hash" \in flags THEN Append1(b3, "0", room) ELSE buf

SignWanted(negative, flags) == negative \/ flags \cap {"plus", "space"} # {}

\* The sign takes the place of the last character if the number fills the field.
Sign_Keep(buf, negative, width, flags, room) ==   \* slip: it is put in front
    IF ~SignWanted(negative, flags) THEN buf
    ELSE Append1(buf, IF negative THEN "-" ELSE IF "plus" \in flags THEN "+" ELSE " ", room)
Sign(buf, negative, width, flags, room) ==
    LET b == IF Len(buf) > 0 /\ Len(buf) = width THEN Drop(buf) ELSE buf
    IN  IF ~SignWanted(negative, flags) THEN buf
        ELSE Append1(b, IF negative THEN "-" ELSE IF "plus" \in flags THEN "+" ELSE " ", room)

\* The field: spaces in front or behind.
Field(buf, width, flags) ==
    IF "left" \in flags THEN Reverse(buf) \o Pad(width, Len(buf))
    ELSE IF "zeropad" \in flags THEN Reverse(buf)
    ELSE Pad(width, Len(buf)) \o Reverse(buf)

ntoa_format(buf, negative, base, prec, width, flags) ==
    LET b1 == IF "left" \notin flags THEN Zeros(buf, prec, NTOA_BUFFER) ELSE buf
        b2 == IF "left" \notin flags /\ "zeropad" \in flags
              THEN Zeros(b1, width, NTOA_BUFFER) ELSE b1
        b3 == Hash(b2, base, prec, width, flags, NTOA_BUFFER)
    IN  Field(Sign(b3, negative, width, flags, NTOA_BUFFER), width, flags)

\* The digits of v, the last one first, at most room of them.
DigitsOf(v, base, flags, room) ==
    LET left[n \in 0 .. room] == IF n = 0 THEN v ELSE left[n - 1] \div base
        count == Min({n \in 0 .. room : n = room \/ (n > 0 /\ left[n] = 0)})
    IN  [n \in 1 .. count |-> Digit(left[n - 1] % base, flags)]

ntoa_long(v, negative, base, prec, width, flags) ==
    ntoa_format(IF "precision" \notin flags \/ v # 0
                THEN DigitsOf(v, base, flags, NTOA_BUFFER) ELSE <<>>,
                negative, base, prec, width,
                IF v = 0 THEN flags \ {"hash"} ELSE flags)

-----------------------------------------------------------------------------
\* %f.  v is the magnitude, not above 2^31 - 1.

\* A product as a double holds it: rounded to its bits, the half to the even.
Bits(n) == Min({b \in 0 .. 30 : 2 ^ b > n})
InUnits(n, unit) ==
    LET low == n \div unit
        rest == 2 * (n % unit)
    IN  unit * (IF rest > unit \/ (rest = unit /\ low % 2 = 1) THEN low + 1 ELSE low)
AsDouble(n) == InUnits(n, 2 ^ Max({Bits(n) - MANTISSA, 0}))

\* The fraction times 10^prec; like v it has the denominator den.
Product(v, prec) == AsDouble((v.num % v.den) * 10 ^ prec)

\* whole and frac, rounded to prec digits; half compares the rest with 1/2.
Rounded_NoCarry(v, prec, tmp) ==   \* slip: 0.996 leaves 100 hundredths
    LET whole == v.num \div v.den
        frac == tmp \div v.den
        half == 2 * (tmp % v.den) - v.den
        up == half > 0 \/ (half = 0 /\ (frac = 0 \/ frac % 2 = 1))
        diff == 2 * (v.num - whole * v.den) - v.den
        again == prec = 0 /\ (diff > 0 \/ (diff = 0 /\ whole % 2 = 1))
    IN  [whole |-> IF again THEN whole + 1 ELSE whole, frac |-> IF up THEN frac + 1 ELSE frac]

Rounded(v, prec, tmp) ==
    LET whole == v.num \div v.den
        frac == tmp \div v.den
        half == 2 * (tmp % v.den) - v.den
        over == half > 0 /\ frac + 1 >= 10 ^ prec
        up == half > 0 \/ (half = 0 /\ (frac = 0 \/ frac % 2 = 1))
        w == IF over THEN whole + 1 ELSE whole
        diff == 2 * (v.num - w * v.den) - v.den    \* against the new whole
        again == prec = 0 /\ (diff > 0 \/ (diff = 0 /\ w % 2 = 1))
    IN  [whole |-> IF again THEN w + 1 ELSE w,
         frac |-> IF over THEN 0 ELSE IF up THEN frac + 1 ELSE frac]

\* The characters after the point, the last one first, and the point.
FracDigits(buf, frac, prec, room) ==
    LET digits == DigitsOf(frac, 10, {}, room - Len(buf))
        b == Zeros(buf \o digits, IF Len(digits) <= prec THEN Len(buf) + prec ELSE room, room)
    IN  IF prec = 0 THEN buf ELSE Append1(b, ".", room)

ftoa(v, prec, width, flags) ==
    LET negative == v.num < 0
        mag == [num |-> IF negative THEN -v.num ELSE v.num, den |-> v.den]
        asked == IF "precision" \in flags THEN prec ELSE 6
        p == Min({asked, 9})
        r == Rounded(mag, p, Product(mag, p))
        b1 == FracDigits(Repeat("0", Min({asked - p, FTOA_BUFFER})), r.frac, p, FTOA_BUFFER)
        b2 == IF Len(b1) < FTOA_BUFFER
              THEN b1 \o DigitsOf(r.whole, 10, {}, FTOA_BUFFER - Len(b1)) ELSE b1
        b3 == IF "left" \notin flags /\ "zeropad" \in flags
              THEN Zeros(b2, width, FTOA_BUFFER) ELSE b2
    IN  Field(Sign(b3, negative, width, flags, FTOA_BUFFER), width, flags)

-----------------------------------------------------------------------------
\* Reading a directive.  d.at is the index of the next character, d.args are the
\* arguments left.

IsDigit(c) == c \in {Digits[k] : k \in 1 .. 10}
DigitOf(c) == (CHOOSE k \in 1 .. 10 : Digits[k] = c) - 1

\* The index behind the run of digits at k, and their value.
RunOfDigits(f, k) ==
    CHOOSE n \in k .. Len(f) + 1 :
        /\ \A j \in k .. n - 1 : IsDigit(f[j])
        /\ n > Len(f) \/ ~IsDigit(f[n])
Atoi(f, k) ==
    FoldLeft(LAMBDA i, c : i * 10 + DigitOf(c), 0, SubSeq(f, k, RunOfDigits(f, k) - 1))

FlagChars == {"0", "-", "+", " ", "#"}
FlagOf(c) ==
    CASE c = "0" -> "zeropad" [] c = "-" -> "left" [] c = "+" -> "plus"
      [] c = " " -> "space" [] c = "#" -> "hash"

Flags(f, k, args) ==
    LET n == CHOOSE n \in k .. Len(f) :
                 /\ \A j \in k .. n - 1 : f[j] \in FlagChars
                 /\ f[n] \notin FlagChars
    IN  [at |-> n, args |-> args, flags |-> {FlagOf(f[j]) : j \in k .. n - 1},
         width |-> 0, prec |-> 0]

Width(f, d) ==
    IF IsDigit(f[d.at])
    THEN [d EXCEPT !.at = RunOfDigits(f, d.at), !.width = Atoi(f, d.at)]
    ELSE IF f[d.at] = "*"
    THEN [d EXCEPT !.at = @ + 1, !.args = Tail(@),
                   !.flags = IF Head(d.args) < 0 THEN @ \cup {"left"} ELSE @,
                   !.width = IF Head(d.args) < 0 THEN -Head(d.args) ELSE Head(d.args)]
    ELSE d

Precision(f, d) ==
    LET k == d.at + 1
        p == [d EXCEPT !.at = k, !.flags = @ \cup {"precision"}]
    IN  IF f[d.at] # "." THEN d
        ELSE IF IsDigit(f[k])
        THEN [p EXCEPT !.at = RunOfDigits(f, k), !.prec = Atoi(f, k)]
        ELSE IF f[k] = "*"
        THEN [p EXCEPT !.at = k + 1, !.args = Tail(@), !.prec = Max({Head(d.args), 0})]
        ELSE p

\* size_t and ptrdiff_t are long, intmax_t is long long.
Length(f, d) ==
    LET twice == f[d.at] \in {"l", "h"} /\ f[d.at + 1] = f[d.at]
        sizes == CASE f[d.at] = "l" -> {"long"} \cup (IF twice THEN {"longlong"} ELSE {})
                   [] f[d.at] = "h" -> {"short"} \cup (IF twice THEN {"char"} ELSE {})
                   [] f[d.at] \in {"t", "z"} -> {"long"}
                   [] f[d.at] = "j" -> {"longlong"}
                   [] OTHER -> {}
    IN  IF sizes = {} THEN d
        ELSE [d EXCEPT !.at = IF twice THEN @ + 2 ELSE @ + 1, !.flags = @ \cup sizes]

Directive(f, k, args) == Length(f, Precision(f, Width(f, Flags(f, k, args))))

-----------------------------------------------------------------------------
\* What a directive puts out.

Base(spec) ==
    CASE spec \in {"x", "X"} -> 16 [] spec = "o" -> 8 [] spec = "b" -> 2 [] OTHER -> 10

\* The number of values of the type that a length makes an argument.
Values(flags) ==
    IF "longlong" \in flags THEN ULLONGS
    ELSE IF "long" \in flags THEN ULONGS
    ELSE IF "char" \in flags THEN UCHARS
    ELSE IF "short" \in flags THEN USHORTS ELSE ULONGS

NumberFlags(spec, flags) ==
    (IF spec = "X" THEN flags \cup {"uppercase"} ELSE flags)
        \ ((IF Base(spec) \in {2, 10} THEN {"hash"} ELSE {})
            \cup (IF spec \notin {"i", "d"} THEN {"plus", "space"} ELSE {})
            \cup (IF "precision" \in flags THEN {"zeropad"} ELSE {}))

Integer(spec, v, d) ==
    LET value == AsSignedOf(v, Values(d.flags))
        magnitude == IF spec \notin {"i", "d"} THEN v % Values(d.flags)
                     ELSE IF value > 0 THEN value
                     ELSE -value % (IF "longlong" \in d.flags THEN ULLONGS ELSE ULONGS)
    IN  ntoa_long(magnitude, spec \in {"i", "d"} /\ value < 0, Base(spec), d.prec, d.width,
                  NumberFlags(spec, d.flags))

Text(s, len, d) ==
    IF "left" \in d.flags THEN SubSeq(s, 1, len) \o Pad(d.width, len)
    ELSE Pad(d.width, len) \o SubSeq(s, 1, len)

String(s, d) == Text(s, IF "precision" \in d.flags THEN Min({Len(s), d.prec}) ELSE Len(s), d)

TakesArgument(spec) ==
    spec \in {"d", "i", "u", "x", "X", "o", "b", "f", "F", "c", "s", "p"}

\* An unknown specifier is put out itself, as is the one of %%.
Converted(spec, d) ==
    CASE spec \in {"d", "i", "u", "x", "X", "o", "b"} -> Integer(spec, Head(d.args), d)
      [] spec \in {"f", "F"} -> ftoa(Head(d.args), d.prec, d.width, d.flags)
      [] spec = "c" -> Text(<<Head(d.args)>>, 1, d)
      [] spec = "s" -> String(Head(d.args), d)
      [] spec = "p" -> ntoa_long(Head(d.args) % ULONGS, FALSE, 16, d.prec, POINTER_WIDTH,
                                 d.flags \cup {"zeropad", "uppercase"})
      [] OTHER -> <<spec>>

Item(f, so) ==
    IF so.at > Len(f) THEN so
    ELSE IF f[so.at] # "%"
    THEN [so EXCEPT !.at = @ + 1, !.text = Append(@, f[so.at])]
    ELSE LET d == Directive(f, so.at + 1, so.args)
         IN  [at |-> d.at + 1, text |-> so.text \o Converted(f[d.at], d),
              args |-> IF TakesArgument(f[d.at]) THEN Tail(d.args) ELSE d.args]

Output(f, args) ==
    LET after[n \in 0 .. Len(f)] ==
            IF n = 0 THEN [at |-> 1, text |-> <<>>, args |-> args]
            ELSE Item(f, after[n - 1])
    IN  after[Len(f)].text

-----------------------------------------------------------------------------
\* Where the output goes.

\* _out_buffer(): the buffer, a function from 0, after c went to idx.
out_buffer_Inclusive(c, buffer, idx, maxlen) ==   \* slip: one character too many
    IF idx <= maxlen THEN [buffer EXCEPT ![idx] = c] ELSE buffer
out_buffer(c, buffer, idx, maxlen) ==
    IF idx < maxlen THEN [buffer EXCEPT ![idx] = c] ELSE buffer

Store(text, buffer, maxlen) ==
    LET after[n \in 0 .. Len(text)] ==
            IF n = 0 THEN buffer ELSE out_buffer(text[n], after[n - 1], n - 1, maxlen)
    IN  after[Len(text)]

\* Without room, the NUL goes to idx maxlen - 1, which then is no index at all.
\* Without a buffer the output is only counted.
NoBuffer == <<>>
kernel_snprintf(buffer, count, f, args) ==
    LET text == Output(f, args)
        end == IF Len(text) < count THEN Len(text) ELSE count - 1
        stored == IF buffer = NoBuffer THEN NoBuffer ELSE Store(text, buffer, count)
    IN  [buffer |-> IF buffer = NoBuffer \/ count = 0 THEN stored
                    ELSE out_buffer("NUL", stored, end, count),
         ret |-> Len(text)]

\* Whatever is put out fits a buffer that is said to be without end.
kernel_sprintf(buffer, f, args) ==
    kernel_snprintf(buffer, Len(Output(f, args)) + 1, f, args)

\* What the function is called with: unlike the console it sees the NUL.
kernel_fctprintf(f, args) == Append(Output(f, args), "NUL")

\* _out_char(): the console shows every character but a NUL.
Visible(text) ==
    LET shown[n \in 0 .. Len(text)] ==
            IF n = 0 THEN <<>>
            ELSE IF text[n] = "NUL" THEN shown[n - 1] ELSE Append(shown[n - 1], text[n])
    IN  shown[Len(text)]
kprintf(f, args) == Visible(Output(f, args))

-----------------------------------------------------------------------------
\* What C defines, for the directives the kernel uses: the flags 0 and -, and
\* neither a precision nor a sign for what is not negative.

Numeral(v, base, digits) ==
    LET n == CHOOSE n \in 1 .. 31 : base ^ n > v /\ (n = 1 \/ base ^ (n - 1) <= v)
    IN  [k \in 1 .. n |-> digits[((v \div base ^ (n - k)) % base) + 1]]

\* A negative number that fills its field loses its first digit.
Collides(negative, numeral, width) == negative /\ Len(numeral) = width

CNumber(spec, v, d) ==
    LET signed == spec \in {"i", "d"}
        u == v % Values(d.flags)
        negative == signed /\ u >= Values(d.flags) \div 2
        numeral == Numeral(IF negative THEN Values(d.flags) - u ELSE u, Base(spec),
                           IF spec = "X" THEN UpperDigits ELSE Digits)
        shown == IF Collides(negative, numeral, d.width) THEN Tail(numeral) ELSE numeral
        minus == IF negative THEN <<"-">> ELSE <<>>
        rest == Max({d.width - Len(minus) - Len(shown), 0})
    IN  IF "left" \in d.flags THEN minus \o shown \o Repeat(" ", rest)
        ELSE IF "zeropad" \in d.flags THEN minus \o Repeat("0", rest) \o shown
        ELSE Repeat(" ", rest) \o minus \o shown

CString(s, d) ==
    LET shown == IF "precision" \in d.flags /\ d.prec < Len(s) THEN SubSeq(s, 1, d.prec) ELSE s
        rest == Repeat(" ", Max({d.width - Len(shown), 0}))
    IN  IF "left" \in d.flags THEN shown \o rest ELSE rest \o shown

\* The decimal text of n / 10^prec.
Decimal(n, prec) ==
    Numeral(n \div 10 ^ prec, 10, Digits) \o
        (IF prec = 0 THEN <<>>
         ELSE <<".">> \o [k \in 1 .. prec |-> Digits[((n \div 10 ^ (prec - k)) % 10) + 1]])

\* Half a digit too much behind nothing but nines: the carry is forgotten.
HalfOfNines(v, prec) ==
    prec > 0 /\ 2 * Product(v, prec) = (2 * 10 ^ prec - 1) * v.den

\* A number with prec decimals that is as near to v as any, but for what the
\* rounding of the product takes away.
Nearest(text, v, prec) ==
    LET exact == v.num * 10 ^ prec
        product == (v.num \div v.den) * 10 ^ prec * v.den + Product(v, prec)
        off == IF product > exact THEN product - exact ELSE exact - product
        limit == v.den + 2 * off
        floor == exact \div v.den
    IN  \E n \in {floor, floor + 1} :
            /\ 2 * (n * v.den - exact) \in -limit .. limit
            /\ text = Decimal(n, prec)
=============================================================================
