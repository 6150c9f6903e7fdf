----------------------------- MODULE MCSession ------------------------------
(***************************************************************************)
(* A session over four drives: one with a volume of one block group, one    *)
(* with two groups, one with no file system and one whose volume            *)
(* ext2_probe() refuses by stopping.  The bytes of the drives that do not   *)
(* mount read as any inode and any bitmap might.  A program that writes a   *)
(* drive raw leaves it spoiled: the volume of the first drive with its      *)
(* directory gone and its file in ruins.                                    *)
(***************************************************************************)
EXTENDS Session, TLC

CONSTANTS mounted, second, blank, foreign,   \* drives, and what they hold
          spoiled,                           \* what a raw write leaves
          root, absent, sub, prog            \* paths

MCDrives == {mounted, second, blank, foreign}
MCContents == Drives \cup {spoiled}
MCFirstContent == [d \in Drives |-> d]
MCMountable == {mounted, second, spoiled}
Volume(blocks, log) ==
    [log |-> log, blocks |-> blocks, per_group |-> 2, inode_size |-> INODE_SIZE]
MCFirstBlocks ==
    [c \in Contents |-> [j \in 0 .. BUFFER_BLOCKS - 1 |->
        CASE j = 1 /\ c \in {mounted, spoiled} -> Volume(3, 0)
          [] j = 1 /\ c = second -> Volume(5, 0)
          [] j = 1 /\ c = foreign -> Volume(3, 1)
          [] OTHER -> NoMagic]]
MCPerGroup == [c \in Contents |-> IF c = second THEN 3 ELSE 4]
MCBoot == mounted
MCDiskNumbers == 0 .. 3
MCDriveOf == 0 :> mounted @@ 1 :> blank @@ 2 :> foreign @@ 3 :> second

\* Inode 2 is the root, 3 a directory on one of the volumes and 4 a program,
\* which on the volume with two groups is in the second.
MCInodes == {2, 3, 4}
MCBlockLists == 0 .. 4
MCSizes == 2 :> 1 @@ 3 :> 1 @@ 4 :> 4
MCOnDisk ==
    [c \in Contents |-> [i \in Inodes |->
        [mode |-> IF (i = 2 /\ c \in Mountable) \/ (i = 3 /\ c = mounted)
                  THEN "dir" ELSE "file",
         size |-> MCSizes[i], blocks |-> i]]]
Found(dir, i) == [inode |-> i, looks |-> {dir, i}, asserts |-> FALSE]
NotFound(dir) == [inode |-> 0, looks |-> {dir}, asserts |-> FALSE]
Fails(dir) == [inode |-> 0, looks |-> {dir}, asserts |-> TRUE]
MCWalk ==
    [c \in Contents |-> [i \in Inodes |-> [p \in Paths |->
        CASE c \in {mounted, second} /\ p = prog -> Found(2, 4)
          [] OnDisk[c][i].mode # "dir" \/ p = prog -> Fails(i)
          [] p = root -> Found(i, 2)
          [] c = mounted /\ i = 2 /\ p = sub -> Found(i, 3)
          [] OTHER -> NotFound(i)]]]
MCFirstBitmap == [d \in Drives |-> IF d = mounted THEN {0} ELSE {}]
MCFirstCount == [c \in Contents |-> IF c = foreign THEN 0 ELSE 2]
=============================================================================
