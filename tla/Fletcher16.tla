------------------------------ MODULE Fletcher16 ----------------------------
(***************************************************************************)
(* fletcher16(): two sums of bytes modulo 255, taken in a uint32_t and      *)
(* reduced once in CHUNK bytes.  One byte is one step.                      *)
(***************************************************************************)
EXTENDS Integers

CONSTANTS CHUNK,         \* bytes between two reductions (5802)
          WORD32,        \* number of values of a uint32_t (2^32)
          Bytes,         \* the bytes data is made of
          Lengths        \* the lengths of data

Byte == 0 .. 255
MODULUS == 255

\* Twice what the larger sum can be after a chunk is twice a uint32_t at most.
ASSUME ChunkAssumption ==
    /\ CHUNK \in Nat \ {0} /\ WORD32 \in Nat \ {0}
    /\ Bytes \subseteq Byte /\ Lengths \subseteq Nat
    /\ 508 + 508 * CHUNK + 255 * (CHUNK * (CHUNK + 1)) < 2 * WORD32

VARIABLES at,            \* "idle", "summing" or "returned"
          c0, c1,        \* the sums
          i,             \* bytes added since the last reduction
          len,           \* bytes left when it was made
          sum0, sum1     \* history: the sums as Fletcher defines them

sums == <<at, c0, c1, i, len, sum0, sum1>>

FInit ==
    /\ at = "idle"
    /\ c0 = 0 /\ c1 = 0 /\ i = 0 /\ len = 0
    /\ sum0 = 0 /\ sum1 = 0

Call(n) ==
    /\ at = "idle" /\ at' = "summing"
    /\ c0' = 0 /\ c1' = 0 /\ i' = 0 /\ len' = n
    /\ sum0' = 0 /\ sum1' = 0

AddByte(b) ==
    /\ at = "summing" /\ i < CHUNK /\ i < len
    /\ c0' = (c0 + b) % WORD32
    /\ c1' = (c1 + c0') % WORD32
    /\ i' = i + 1
    /\ sum0' = (sum0 + b) % MODULUS
    /\ sum1' = (sum1 + sum0') % MODULUS
    /\ UNCHANGED <<at, len>>

Reduce_Never ==    \* slip: the sums are never reduced before the last byte
    /\ at = "summing" /\ i = CHUNK
    /\ len' = len - CHUNK
    /\ i' = 0
    /\ UNCHANGED <<at, c0, c1, sum0, sum1>>
Reduce ==
    /\ at = "summing" /\ i = CHUNK
    /\ c0' = c0 % MODULUS
    /\ c1' = c1 % MODULUS
    /\ len' = len - CHUNK
    /\ i' = 0
    /\ UNCHANGED <<at, sum0, sum1>>

Return ==
    /\ at = "summing" /\ i = len /\ i < CHUNK
    /\ at' = "returned"
    /\ c0' = c0 % MODULUS
    /\ c1' = c1 % MODULUS
    /\ UNCHANGED <<i, len, sum0, sum1>>

\* The caller has the value; the variables of the call are gone.
Forget ==
    /\ at = "returned" /\ at' = "idle"
    /\ c0' = 0 /\ c1' = 0 /\ i' = 0 /\ len' = 0
    /\ sum0' = 0 /\ sum1' = 0

FNext ==
    \/ \E n \in Lengths : Call(n)
    \/ \E b \in Bytes : AddByte(b)
    \/ Reduce \/ Return \/ Forget

FSpec == FInit /\ [][FNext]_sums

-----------------------------------------------------------------------------
\* The sums never outgrow the word they are kept in: they stay congruent to the
\* definition's although they are reduced once a chunk only.
SumsCongruent == c0 % MODULUS = sum0 /\ c1 % MODULUS = sum1

\* What is returned is Fletcher's checksum.
ChecksumExact == at = "returned" => c0 = sum0 /\ c1 = sum1
=============================================================================
