---------------------------- MODULE MCCpmDevice -----------------------------
(***************************************************************************)
(* Three sectors of two bytes, requests of up to two sectors at every       *)
(* offset: inside a sector, across one boundary and across two.             *)
(***************************************************************************)
EXTENDS CpmDevice, TLC

MCFirstDisk == [a \in 0 .. DISK - 1 |-> IF a \in {1, 2, 4} THEN 1 ELSE 0]
MCSizes == 0 .. BUFFER - SECTOR_SIZE + 1
\* Memory that differs from the disk in every position, and from itself shifted.
MCContents ==
    {[i \in 0 .. BUFFER - 1 |-> IF i \in ones THEN 1 ELSE 0] :
        ones \in {{}, {0, 3}, {1, 2, 4}}}
=============================================================================
