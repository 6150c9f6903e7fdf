------------------------------ MODULE ByteDisk ------------------------------
(***************************************************************************)
(* What the block device promises its callers: an array of bytes.  A read   *)
(* returns the bytes asked for.  A write of whole sectors stores exactly    *)
(* its bytes; any other write only promises to leave alone the sectors it   *)
(* does not touch.                                                          *)
(***************************************************************************)
EXTENDS Integers

CONSTANTS SectorSize,  \* bytes in a sector
          DiskSize,    \* bytes on the disk
          BufferSize,  \* bytes of the caller's memory in view
          Values,      \* of a byte
          FirstBytes   \* what the disk holds at first

Addresses == 0 .. DiskSize - 1
Buffers == [0 .. BufferSize - 1 -> Values]

VARIABLES bytes,       \* the disk
          start,       \* where the next request starts
          request,     \* the request in hand: what, and how many bytes
          memory       \* the caller's buffer, and what follows it

diskVars == <<bytes, start, request, memory>>

NoRequest == [op |-> "none", size |-> 0]

DiskInit ==
    /\ bytes = FirstBytes
    /\ start = 0
    /\ request = NoRequest
    /\ memory \in Buffers

SeekTo(a) ==
    /\ request = NoRequest
    /\ start' = a
    /\ UNCHANGED <<bytes, request, memory>>

Ask(op, size, data) ==
    /\ request = NoRequest
    /\ start + size <= DiskSize
    /\ request' = [op |-> op, size |-> size]
    /\ memory' = data
    /\ UNCHANGED <<bytes, start>>

Requested == {a \in Addresses : start <= a /\ a < start + request.size}
SectorsOf(as) == {a \div SectorSize : a \in as}

AnswerRead ==
    /\ request.op = "read"
    /\ memory' = [i \in 0 .. BufferSize - 1 |->
                     IF i < request.size THEN bytes[start + i] ELSE memory[i]]
    /\ request' = NoRequest
    /\ UNCHANGED <<bytes, start>>

Aligned == start % SectorSize = 0 /\ request.size % SectorSize = 0

AnswerWrite ==
    /\ request.op = "write"
    /\ bytes' \in [Addresses -> Values]
    /\ \A a \in Addresses : bytes'[a] # bytes[a] =>
           a \div SectorSize \in SectorsOf(Requested)
    /\ Aligned => \A a \in Requested : bytes'[a] = memory[a - start]
    /\ request' = NoRequest
    /\ UNCHANGED <<start, memory>>

DiskNext ==
    \/ \E a \in Addresses : SeekTo(a)
    \/ \E op \in {"read", "write"}, size \in 0 .. BufferSize, data \in Buffers :
           Ask(op, size, data)
    \/ AnswerRead
    \/ AnswerWrite

DiskSafe == DiskInit /\ [][DiskNext]_diskVars

\* Every request is answered.
DiskSpec == DiskSafe /\ WF_diskVars(AnswerRead \/ AnswerWrite)
=============================================================================
