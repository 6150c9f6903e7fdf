----------------------------- MODULE Ext2Layout -----------------------------
(***************************************************************************)
(* How an ext2 inode maps the blocks of a file, as the BDOS computes it:    *)
(* NDIR_BLOCKS direct pointers, one indirect block and one double indirect  *)
(* block of IND_BLOCKS pointers each.  The three limits below are computed  *)
(* at three places of the code and are not equal.                           *)
(***************************************************************************)
EXTENDS Integers

CONSTANTS BLOCK_SIZE,    \* bytes in a block (1024, the only size the BDOS mounts)
          NDIR_BLOCKS,   \* EXT2_NDIR_BLOCKS (12)
          IND_BLOCKS     \* EXT2_IND_BLOCKS = BLOCK_SIZE / sizeof(uint32_t) (256)

ASSUME LayoutAssumption ==
    /\ BLOCK_SIZE \in Nat \ {0}
    /\ NDIR_BLOCKS \in Nat \ {0}
    /\ IND_BLOCKS \in Nat \ {0}

\* The largest file fcntl_open_inode() opens, and the offset from which
\* kread() refuses to read: every block two levels of pointers can name.
MaxFileSize ==
    (NDIR_BLOCKS + IND_BLOCKS + IND_BLOCKS * IND_BLOCKS) * BLOCK_SIZE

\* EXT2_NDIR_BLOCKS^2 is C's exclusive or, which flips the second lowest bit.
XorTwo(n) == IF (n \div 2) % 2 = 0 THEN n + 2 ELSE n - 2

\* The number of blocks ext2_get_inode_block() accepts: its assertion stops the
\* machine for any other.
MappableBlocks ==
    NDIR_BLOCKS + IND_BLOCKS + XorTwo(NDIR_BLOCKS) * IND_BLOCKS

\* 12 ^ 2 is 14, and a block has 256 pointers: the map ends before MaxFileSize.
ASSUME MapAssumption == XorTwo(NDIR_BLOCKS) < IND_BLOCKS

\* The route from the inode to file block i.
IsDirect(i) == i < NDIR_BLOCKS
IsDouble(i) == i >= NDIR_BLOCKS + IND_BLOCKS
IndirectIndex(i) == i - NDIR_BLOCKS
DoublePage(i)  == (i - (IND_BLOCKS + NDIR_BLOCKS)) \div IND_BLOCKS
DoubleIndex(i) == (i - (IND_BLOCKS + NDIR_BLOCKS)) % IND_BLOCKS
=============================================================================
