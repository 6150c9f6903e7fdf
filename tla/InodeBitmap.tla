---------------------------- MODULE InodeBitmap -----------------------------
(***************************************************************************)
(* The inode bitmap of block group 0 and the in-memory count of free inodes,*)
(* as open(O_CREAT) handles them.  A bitmap is the set of its set bits; bit *)
(* n - 1 stands for inode n.                                                *)
(***************************************************************************)
EXTENDS Integers, FiniteSetsExt

CONSTANTS BITMAP_BYTES,  \* 256: bytes read and written, and the loop's bound
          BYTE_BITS,     \* bits in a byte (8)
          COUNT_RADIX    \* values of one half of the count, see SwapCount

ASSUME BitmapAssumption ==
    /\ BITMAP_BYTES \in Nat \ {0}
    /\ BYTE_BITS \in Nat \ {0}
    /\ COUNT_RADIX \in Nat \ {0, 1}

BitmapBits == BITMAP_BYTES * BYTE_BITS
Bits == 0 .. BitmapBits - 1

\* ext2_next_free_inode() counts inodes but stops at 256, the number of BYTES,
\* so it looks at the first BITMAP_BYTES bits only; 0 is "no free inode".
NextFree(bits) ==
    LET clear == {b \in 0 .. BITMAP_BYTES - 1 : b \notin bits}
    IN  IF clear = {} THEN 0 ELSE Min(clear) + 1

\* Slip: inodes counted from 0.
BitOf_FromZero(inode) == inode % BitmapBits

\* The bit ext2_get/set_inode_bitmap_state() address for an inode number.  Byte
\* 0 minus one wraps to byte 255 in a uint8_t, so inode 0 is the last bit.
BitOf(inode) == (inode - 1) % BitmapBits

\* The count is kept in the disk's byte order, so the 68000 sees it swapped; a
\* count of two digits in base COUNT_RADIX stands for the four bytes.
Counts == 0 .. COUNT_RADIX * COUNT_RADIX - 1
SwapCount(c) == (c % COUNT_RADIX) * COUNT_RADIX + c \div COUNT_RADIX

\* s_free_inodes_count - 1 is computed on the swapped value, and swapped twice.
DecCount(c) ==
    SwapCount((SwapCount(c) - 1) % (COUNT_RADIX * COUNT_RADIX))
=============================================================================
