---------------------------- MODULE MCFileTable -----------------------------
(***************************************************************************)
(* A small volume for FileTable: the root (inode 2) holds a small file, a   *)
(* file that ends at the last block kread() can map, one that goes beyond   *)
(* it and one that open() refuses, each chosen by a run, and one directory. *)
(* What a program may make of it by writing the drive raw is spoiled: one    *)
(* name finds another file, and the others' records name no live inode.      *)
(***************************************************************************)
EXTENDS FileTable, TLC

CONSTANTS mounted,                      \* drives
          fresh, spoiled,               \* contents
          root, absent, sub, small, exact, long, big   \* paths

MCDrives == {mounted}
MCContents == {fresh, spoiled}
MCFirstContent == [d \in Drives |-> fresh]
MCMountable == Contents
MCPerGroup == [c \in Contents |-> 8]
MCBoot == mounted

\* Inode 2 is the root, 3 a directory, 4 to 7 the files.
Numbers == root :> 2 @@ sub :> 3 @@ small :> 4 @@ exact :> 5 @@ long :> 6 @@ big :> 7
Sizes == 2 :> 1 @@ 3 :> 1 @@ 4 :> 1 @@ 5 :> MappableBlocks * BLOCK_SIZE
         @@ 6 :> MaxFileSize @@ 7 :> MaxFileSize + 1
MCImage(i) == [mode |-> IF i <= 3 THEN "dir" ELSE "file",
               size |-> Sizes[i], blocks |-> i]
MCBlockLists == 0 .. 7
MCInodes == {Numbers[p] : p \in Paths \ {absent}} \cup {2}
MCOnDisk ==
    [c \in Contents |-> [i \in Inodes |->
        IF c = spoiled /\ i = 5 THEN [mode |-> "file", size |-> 1, blocks |-> 4]
        ELSE MCImage(i)]]

\* The files are in the root; the directory is empty.
Found(i) == [inode |-> i, looks |-> {2, i}, asserts |-> FALSE]
NotFound(i) == [inode |-> 0, looks |-> {i}, asserts |-> FALSE]
Fails(i) == [inode |-> 0, looks |-> {i}, asserts |-> TRUE]
MCWalk ==
    [c \in Contents |-> [i \in Inodes |-> [p \in Paths |->
        IF p = root THEN Found(2)
        ELSE IF c = spoiled THEN IF p = absent THEN Found(5) ELSE Fails(i)
        ELSE IF p = absent \/ i # 2 THEN NotFound(i) ELSE Found(Numbers[p])]]]

MCDisplacements == {1, -1}
MCWildFildes == {-1, 0, 3}

MCFirstBitmap == [d \in Drives |-> {0, 1}]
MCFirstCount == [c \in Contents |-> 6]
\* For the creates: 8 inodes, of which the code scans 4, with a gap.
MCPartBitmap == [d \in Drives |-> {0, 3}]
MCFullBitmap == {Bits}
=============================================================================
