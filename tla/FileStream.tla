----------------------------- MODULE FileStream -----------------------------
(***************************************************************************)
(* What read() promises of an open file: the file is a sequence of bytes,   *)
(* a read returns those from the current position on, as many as asked for  *)
(* and there, and moves the position past them.                             *)
(***************************************************************************)
EXTENDS Integers, Sequences

CONSTANTS Bytes,      \* the bytes of the longest file, in order
          Lengths,    \* the lengths a file may have
          Limit,      \* the position from which a read is an error
          Sure,       \* a read that ends here or before is answered
          Requests,   \* the counts a caller asks for
          Positions   \* the positions a caller seeks to

VARIABLES length,     \* of the file
          position,   \* of the next byte
          request,    \* the count asked for, or -1
          reply       \* what the last read returned

streamVars == <<length, position, request, reply>>

Answered(val, bytes) == [val |-> val, bytes |-> bytes]

StreamInit ==
    /\ length \in Lengths
    /\ position = 0
    /\ request = -1
    /\ reply = Answered(0, <<>>)

SeekTo(p) ==
    /\ request = -1
    /\ position' = p
    /\ UNCHANGED <<length, request, reply>>

Ask(count) ==
    /\ request = -1
    /\ request' = count
    /\ reply' = Answered(0, <<>>)
    /\ UNCHANGED <<length, position>>

Smaller(a, b) == IF a < b THEN a ELSE b

Answer ==
    LET n == Smaller(request, length - position)
    IN  /\ request >= 0
        /\ \/ position >= Limit
              /\ reply' = Answered(-1, <<>>) /\ UNCHANGED position
           \/ position < Limit /\ position >= length
              /\ reply' = Answered(0, <<>>) /\ UNCHANGED position
           \/ position < Limit /\ position < length
              /\ reply' = Answered(n, SubSeq(Bytes, position + 1, position + n))
              /\ position' = position + n
        /\ request' = -1
        /\ UNCHANGED length

StreamNext ==
    \/ \E p \in Positions : SeekTo(p)
    \/ \E count \in Requests : Ask(count)
    \/ Answer

StreamSafe == StreamInit /\ [][StreamNext]_streamVars

\* Every read that wants no byte past Sure is answered.
StreamSpec ==
    /\ StreamSafe
    /\ WF_streamVars(Smaller(position + request, length) <= Sure /\ Answer)
=============================================================================
