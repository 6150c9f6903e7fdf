----------------------------- MODULE MCExt2Path -----------------------------
(***************************************************************************)
(* Volumes of one to three directories in blocks of eight units, of which   *)
(* a directory entry takes two; paths of up to five symbols.                *)
(***************************************************************************)
EXTENDS Ext2Path, TLC

R(inode, len, name) == [inode |-> inode, len |-> len, name |-> name]
Dots(self, up) == 0 :> R(self, 1, ".") @@ 1 :> R(up, 1, "..")

Kind(six) == 2 :> "dir" @@ 3 :> "dir" @@ 4 :> "file" @@ 5 :> "file"
             @@ 6 :> six @@ 7 :> "none"

\* / holds a/ and b; a/ holds b, another file, and a/, another directory.
Sub == Dots(3, 2) @@ 2 :> R(5, 1, "b") @@ 3 :> R(6, 5, "a")
Deep == 0 :> R(6, 1, ".") @@ 1 :> R(3, 7, "..")
Good == [kind |-> Kind("dir"), per_group |-> 8,
         dir |-> 2 :> (Dots(2, 2) @@ 2 :> R(3, 2, "a") @@ 4 :> R(4, 4, "b"))
                 @@ 3 :> Sub @@ 6 :> Deep]

\* A name was removed after a, which got its room: b is behind a long record.
Merged == [Good EXCEPT !.dir =
    2 :> (Dots(2, 2) @@ 2 :> R(3, 4, "a") @@ 6 :> R(4, 2, "b")) @@ 3 :> Sub @@ 6 :> Deep]

\* The block is full of entries, and zeroes or a second block follow it.
Full == [Good EXCEPT !.dir =
    2 :> (Dots(2, 2) @@ 2 :> R(3, 2, "a") @@ 4 :> R(4, 2, "b") @@ 6 :> R(5, 2, "c"))
    @@ 3 :> Sub @@ 6 :> Deep]
Longer == [Full EXCEPT !.dir[2] = @ @@ 8 :> R(5, 1, "d")]
Second == [Full EXCEPT !.dir[2] = @ @@ 8 :> R(5, 8, "d")]

\* A symbolic link in the way; a name whose inode has been cleared.
Link == [Good EXCEPT !.kind = Kind("other")]
Stale == [Good EXCEPT !.dir[3] = Dots(3, 2) @@ 2 :> R(7, 1, "b") @@ 3 :> R(6, 5, "a")]

\* Five inodes to a block group: a/a is in the second.
Far == [Good EXCEPT !.per_group = 5]

MCVolumes == {Good, Far, Merged, Full, Longer, Second, Link, Stale}
MCGood == {Good}

MCSymbols == {"/", "a", "b", ".."}
MCPaths ==
    {p \in UNION {[1 .. n -> MCSymbols] : n \in 0 .. 5} :
        \A i \in 1 .. Len(p) - 1 : p[i] = "/" \/ p[i + 1] = "/"}
=============================================================================
