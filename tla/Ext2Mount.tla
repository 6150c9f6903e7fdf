------------------------------ MODULE Ext2Mount -----------------------------
(***************************************************************************)
(* ext2_probe(): what the first blocks of a drive make of a mount.  The     *)
(* fields of a superblock are the values its owner wrote; the big-endian    *)
(* 68000 reads them swapped (SwapCount), and nm_uint32() swaps them again.  *)
(***************************************************************************)
EXTENDS InodeBitmap

CONSTANTS MIN_BLOCK,     \* EXT2_MIN_BLOCK_SIZE, the one size it takes (1024)
          INODE_SIZE,    \* the one size of an inode it takes (128)
          BUFFER_BLOCKS, \* blocks in the buffer of the probe (4)
          SCAN           \* places the search for the magic number looks at (4096)

ASSUME MountConstants ==
    /\ MIN_BLOCK \in Nat \ {0}
    /\ BUFFER_BLOCKS \in Nat /\ SCAN \in Nat /\ 1 < BUFFER_BLOCKS /\ BUFFER_BLOCKS < SCAN

Superblock == [log : Counts, blocks : Counts, per_group : Counts, inode_size : Nat]
NoMagic == [log |-> 0, blocks |-> 0, per_group |-> 0, inode_size |-> 0]

nm_uint32(v) == SwapCount(v)

\* The big-endian branch shifts the other way, which is the same for 0 only.
EXT2_BLOCK_SIZE(raw_log) == MIN_BLOCK \div 2 ^ nm_uint32(raw_log)

div2(a, b) == (a \div b) + (IF a % b > 1 THEN 1 ELSE 0)

\* The count of blocks is swapped three times and the blocks of a group twice,
\* so one is right and the other is not.
BlockGroups(raw_blocks, raw_per_group) ==
    LET blocks_per_group == nm_uint32(raw_per_group)
        blocks_count == nm_uint32(nm_uint32(raw_blocks))
    IN  div2(nm_uint32(blocks_count), nm_uint32(blocks_per_group))

\* A magic number at block j: a division by zero, "FATAL" and a failed assertion
\* all stop the machine; the group descriptor must follow at block 2.
Outcome(j, raw) ==
    IF /\ raw.per_group # 0
       /\ BlockGroups(raw.blocks, raw.per_group) = 1
       /\ EXT2_BLOCK_SIZE(raw.log) = MIN_BLOCK
       /\ raw.inode_size = INODE_SIZE
       /\ j + 1 <= BUFFER_BLOCKS
       /\ j + 1 = 2
    THEN "mounted" ELSE "stopped"

\* The superblock as the processor sees it.
Raw(sb) ==
    [log |-> SwapCount(sb.log), blocks |-> SwapCount(sb.blocks),
     per_group |-> SwapCount(sb.per_group), inode_size |-> sb.inode_size]

\* The first magic number decides.  With none in the buffer the search goes on
\* over the memory behind it, where any superblock may seem to be, or none.
ProbeOutcomes(first) ==
    LET found == {j \in 0 .. BUFFER_BLOCKS - 1 : first[j] # NoMagic}
    IN  IF found # {} THEN {Outcome(Min(found), Raw(first[Min(found)]))}
        ELSE {"refused"} \cup
             {Outcome(j, NoMagic) : j \in BUFFER_BLOCKS .. SCAN - 1}

\* What the fields mean: block 0 is in no group.
TrueGroups(sb) == (sb.blocks - 1 + sb.per_group - 1) \div sb.per_group

\* A volume of one block group, with its superblock where it belongs.
Healthy(first) ==
    /\ first[0] = NoMagic
    /\ first[1] \in Superblock \ {NoMagic}
    /\ first[1].log = 0 /\ first[1].inode_size = INODE_SIZE
    /\ first[1].per_group \in 1 .. COUNT_RADIX - 1
    /\ first[1].blocks \in 2 .. COUNT_RADIX
    /\ TrueGroups(first[1]) = 1
=============================================================================
