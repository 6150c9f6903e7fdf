----------------------------- MODULE MCFileRead -----------------------------
(***************************************************************************)
(* A file whose blocks lie out of order on a disk of one-digit blocks:      *)
(* three direct, two by the indirect block, four by the double indirect.    *)
(* One of them is a hole: its number is 0, and what is read is the boot     *)
(* block.                                                                   *)
(***************************************************************************)
EXTENDS FileRead, TLC

MCIBlock == 0 :> 9 @@ 1 :> 4 @@ 2 :> 7 @@ 3 :> 20 @@ 4 :> 30
MCPointers == 20 :> (0 :> 5 @@ 1 :> 3)
              @@ 30 :> (0 :> 31 @@ 1 :> 32)
              @@ 31 :> (0 :> 0 @@ 1 :> 8)
              @@ 32 :> (0 :> 6 @@ 1 :> 10)

\* Every length and every position up to the file limit.
MCOpenable == 0 .. MaxFileSize
MCPositions == 0 .. MaxFileSize
=============================================================================
