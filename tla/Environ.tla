------------------------------- MODULE Environ ------------------------------
(***************************************************************************)
(* The environment: one block of C strings, filled when the BDOS starts by  *)
(* kputenv() and read by kgetenv(), for the programs and for search_path(), *)
(* which looks for a command in the directories of PATH.                    *)
(*                                                                          *)
(* A string is the sequence of its characters, without the NUL.             *)
(***************************************************************************)
EXTENDS Integers, Sequences, FiniteSetsExt

CONSTANTS MAX_ENVIRON,   \* size of the block (1024)
          MAX_PATH       \* size of pathbuf

ASSUME EnvironAssumption == MAX_ENVIRON \in Nat /\ MAX_PATH \in Nat

VARIABLES environment,   \* the block
          off_ins        \* where the next string goes

block == <<environment, off_ins>>
NUL == "NUL"

EInit ==
    /\ environment = [k \in 0 .. MAX_ENVIRON - 1 |-> NUL]
    /\ off_ins = 0

\* What is read at k; behind the block lies whatever the linker put there.
At(k) == IF k \in DOMAIN environment THEN environment[k] ELSE NUL

\* The length of the string at k, and the string.
StrLen(k) == Min({n \in 0 .. MAX_ENVIRON : At(k + n) = NUL})
Str(k) == [n \in 1 .. StrLen(k) |-> At(k + n - 1)]

\* The room is the unsigned number MAX_ENVIRON - off_ins - 1.
NoRoom(s) ==
    /\ off_ins < MAX_ENVIRON
    /\ Len(s) > MAX_ENVIRON - off_ins - 1

Copied(s) ==
    [k \in DOMAIN environment |->
        IF k - off_ins \in 0 .. Len(s) - 1 THEN s[k - off_ins + 1] ELSE environment[k]]

kputenv(s) ==
    /\ \E k \in 1 .. Len(s) : s[k] = "="
    /\ IF NoRoom(s)
       THEN UNCHANGED block
       ELSE /\ environment' = Copied(s)
            /\ off_ins' = off_ins + Len(s) + 1

-----------------------------------------------------------------------------
\* Reading a variable: the offset of its value.

NULL == -1
ASSERTS == -2

\* kernel_strncmp(): the strings are compared up to limit characters or a NUL.
Same(s, t, limit) ==
    LET Ch(u, k) == IF k <= Len(u) THEN u[k] ELSE NUL
        end == Min({k \in 1 .. Len(s) + 1 :
                      k = limit \/ Ch(s, k) # Ch(t, k) \/ Ch(s, k) = NUL})
    IN  Ch(s, end) = Ch(t, end)

matchenv_Prefix(e, v) ==  \* slip: the = is not looked for
    IF StrLen(e) >= Len(v) + 1 /\ Same(Str(e), v, Len(v))
    THEN e + Len(v) + 1 ELSE NULL

matchenv(e, v) ==
    IF StrLen(e) >= Len(v) + 1 /\ Same(Str(e), v, Len(v)) /\ At(e + Len(v)) = "="
    THEN e + Len(v) + 1 ELSE NULL

kgetenv(name) ==
    LET from[offset \in 0 .. 2 * MAX_ENVIRON] ==
            IF offset >= MAX_ENVIRON - 1 THEN ASSERTS
            ELSE IF StrLen(offset) = 0 THEN NULL
            ELSE IF matchenv(offset, name) # NULL THEN matchenv(offset, name)
            ELSE from[offset + StrLen(offset) + 1]
    IN  from[0]

-----------------------------------------------------------------------------
\* Searching the path.

\* How many characters of the path at p2 go to the buffer: as far as a colon, or
\* as many as the whole path has.  The last directory has no colon behind it, so
\* the copy runs over its NUL into the next variable.
Segment(p2, pl) ==
    Min({n \in 0 .. pl : n = pl \/ At(p2 + n) = ":"})

UpToNul(p2, n) ==
    LET nuls == {k \in 0 .. n - 1 : At(p2 + k) = NUL}
        len == IF nuls = {} THEN n ELSE Min(nuls)
    IN  [k \in 1 .. len |-> At(p2 + k - 1)]

kernel_strncat(s, t, n) == s \o SubSeq(t, 1, Min({n, Len(t)}))

\* Of the slashes a path begins with, one is kept.
OneSlash(p) ==
    SubSeq(p, Max({1} \cup {k \in 1 .. Len(p) : \A l \in 1 .. k : p[l] = "/"}), Len(p))

\* The buffer after a directory has been joined with the command's name.
Joined(dir, s) ==
    OneSlash(kernel_strncat(kernel_strncat(dir, <<"/">>, 1), s, Len(s)))

\* ext2_path_to_inode() cuts the slashes a path ends with, in the buffer of its
\* caller: kernel_stat() those of the directory, the search those of the whole.
Chomped(p) ==
    IF Len(p) <= 1 THEN p
    ELSE SubSeq(p, 1, Max({0} \cup {k \in 1 .. Len(p) : p[k] # "/"}))
Sought(dir, s) == Chomped(Joined(Chomped(dir), s))

TryDir_GivesUp(walk, pl, s, dirs, found) ==  \* slip: the first directory there is decides
    LET n == Segment(walk.p2, pl)
        pathbuf == UpToNul(walk.p2, n)
    IN  IF walk.over \/ walk.pg >= pl THEN walk
        ELSE IF Len(s) + Len(pathbuf) + 1 >= MAX_PATH THEN [walk EXCEPT !.over = TRUE]
        ELSE IF Chomped(pathbuf) \in dirs
        THEN [walk EXCEPT !.over = TRUE,
                          !.path = IF Sought(pathbuf, s) \in found THEN Sought(pathbuf, s) ELSE @]
        ELSE [walk EXCEPT !.pg = @ + n, !.p2 = @ + n + 1]

\* One directory, whose length counts before it is cut.  dirs: the names of
\* directories; found: the paths that ext2_path_to_inode() finds.
TryDir(walk, pl, s, dirs, found) ==
    LET n == Segment(walk.p2, pl)
        pathbuf == UpToNul(walk.p2, n)
    IN  IF walk.over \/ walk.pg >= pl THEN walk
        ELSE IF Len(s) + Len(pathbuf) + 1 >= MAX_PATH THEN [walk EXCEPT !.over = TRUE]
        ELSE IF Chomped(pathbuf) \in dirs /\ Sought(pathbuf, s) \in found
        THEN [walk EXCEPT !.over = TRUE, !.path = Sought(pathbuf, s)]
        ELSE [walk EXCEPT !.pg = @ + n, !.p2 = @ + n + 1]

\* Every turn moves p2, and one behind the block is the last.
Walk(path, pl, s, dirs, found) ==
    LET after[n \in 0 .. MAX_ENVIRON] ==
            IF n = 0 THEN [pg |-> 0, p2 |-> path, over |-> FALSE, path |-> <<>>]
            ELSE TryDir(after[n - 1], pl, s, dirs, found)
    IN  after[MAX_ENVIRON].path

PATH == <<"P", "A", "T", "H">>

\* The path of the command, or none.
search_path(s, dirs, found) ==
    LET path == kgetenv(PATH)
    IN  IF path < 0 THEN <<>>
        ELSE Walk(path, StrLen(path), s, dirs, found)
=============================================================================
