----------------------------- MODULE PathLookup -----------------------------
(***************************************************************************)
(* What a path lookup promises: the inode POSIX says a path names, started  *)
(* at the root or at the current directory, and chdir() goes there if it is *)
(* a directory.  Of a lookup that is not Covered nothing is promised, not   *)
(* even an answer.                                                          *)
(***************************************************************************)
EXTENDS Integers, Sequences

CONSTANTS Inodes,            \* inode numbers, without 0
          ROOT_INODE,
          Paths,             \* sequences of names and slashes
          Volumes,           \* what may be mounted
          IsDir(_, _),       \* of a volume and an inode
          Child(_, _, _),    \* the inode a name has in a directory, or 0
          Covered(_, _, _)   \* of a volume, a current directory and a path

VARIABLES volume,   \* what is mounted
          active,   \* whether it is
          cwd,      \* the current directory
          request,  \* the path and what its inode is for, or NoRequest
          reply     \* the inode of the last lookup, or 0

lookupVars == <<volume, active, cwd, request, reply>>

NoRequest == [path |-> <<>>, use |-> "none"]

\* What a name leads to; a file has no children.
Within(vol, dir, name) ==
    IF dir # 0 /\ IsDir(vol, dir) THEN Child(vol, dir, name) ELSE 0
\* Where a path has led, symbol by symbol; empty elements name nothing.
Walked(vol, from, path) ==
    LET at[n \in 0 .. Len(path)] ==
            IF n = 0 THEN IF path # <<>> /\ path[1] = "/" THEN ROOT_INODE ELSE from
            ELSE IF path[n] = "/" THEN at[n - 1]
            ELSE Within(vol, at[n - 1], path[n])
    IN  at
Resolve(vol, from, path) ==
    IF path = <<>> THEN 0 ELSE Walked(vol, from, path)[Len(path)]

LookupInit ==
    /\ volume \in Volumes
    /\ active \in BOOLEAN
    /\ cwd = ROOT_INODE
    /\ request = NoRequest
    /\ reply = 0

Request(path, use) ==
    /\ request = NoRequest
    /\ request' = [path |-> path, use |-> use]
    /\ reply' = 0
    /\ UNCHANGED <<volume, active, cwd>>

Goes(inode) ==
    cwd' = IF request.use = "chdir" /\ inode # 0 /\ IsDir(volume, inode)
           THEN inode ELSE cwd

\* Nothing is found on a volume that is not mounted, but for its root, which is
\* answered without looking.
Reply ==
    /\ request # NoRequest
    /\ IF active THEN reply' = Resolve(volume, cwd, request.path)
       ELSE reply' = IF request.path = <<"/">> /\ request.use # "chdir"
                     THEN ROOT_INODE ELSE 0
    /\ Goes(reply')
    /\ request' = NoRequest
    /\ UNCHANGED <<volume, active>>

Anything ==
    /\ request # NoRequest /\ active /\ ~Covered(volume, cwd, request.path)
    /\ reply' \in Inodes \cup {0}
    /\ Goes(reply')
    /\ request' = NoRequest
    /\ UNCHANGED <<volume, active>>

LookupNext ==
    \/ \E path \in Paths, use \in {"open", "chdir"} : Request(path, use)
    \/ Reply
    \/ Anything

LookupSafe == LookupInit /\ [][LookupNext]_lookupVars

LookupSpec ==
    /\ LookupSafe
    /\ WF_lookupVars(Covered(volume, cwd, request.path) /\ Reply)
=============================================================================
