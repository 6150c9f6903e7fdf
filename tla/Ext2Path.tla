------------------------------ MODULE Ext2Path ------------------------------
(***************************************************************************)
(* ext2_path_to_inode() and the directory scan ext2_get_inode_from_dirent() *)
(* under their callers: kchdir(), and the calls that only want an inode.    *)
(* One step enters a path element, one reads a directory record, one goes   *)
(* down to what the record names.                                           *)
(*                                                                          *)
(* A path is a sequence of names and slashes.  A name is one symbol: the    *)
(* 256 bytes of path_element are not modelled.  A directory is a function   *)
(* from offsets to the records that start there; offsets from BLOCK on are  *)
(* those of whatever follows its first block on the disk.                   *)
(***************************************************************************)
EXTENDS Integers, Sequences, SequencesExt, FiniteSetsExt

CONSTANTS Inodes,      \* inode numbers, without 0
          ROOT_INODE,  \* EXT2_ROOT_INODE
          Symbols,     \* names, and the slash
          Paths,       \* the paths callers pass
          Volumes,     \* [kind, dir, per_group]: the modes of inodes, directories,
                       \* and how many inodes a block group has
          BLOCK,       \* bytes in a block (1024)
          ENTRY        \* sizeof(ext2_dir_entry)

\* A directory has a record at 0, and its records lie end to end: one that is
\* not the last is followed by the next, and none starts inside another.  The root
\* is in the first block group.
IsDirectory(dir) ==
    /\ DOMAIN dir \subseteq Nat /\ 0 \in DOMAIN dir
    /\ \A o \in DOMAIN dir : dir[o].inode \in Inodes \cup {0} /\ dir[o].len \in Nat
    /\ \A o, p \in DOMAIN dir :
           o < p => o + dir[o].len \in DOMAIN dir /\ o + dir[o].len <= p

ASSUME PathAssumption ==
    /\ BLOCK \in Nat \ {0} /\ ENTRY \in Nat \ {0}
    /\ ROOT_INODE \in Inodes /\ Inodes \subseteq Nat \ {0}
    /\ Paths \subseteq Seq(Symbols)
    /\ \A p \in Paths : \A i \in 1 .. Len(p) - 1 : p[i] = "/" \/ p[i + 1] = "/"
    /\ \A v \in Volumes :
           /\ v.kind \in [Inodes -> {"none", "file", "dir", "other"}]
           /\ v.kind[ROOT_INODE] = "dir"
           /\ v.per_group \in Nat \ {0} /\ ROOT_INODE <= v.per_group
           /\ \A i \in Inodes : v.kind[i] = "dir" => IsDirectory(v.dir[i])

VARIABLES volume,    \* what is on the disk
          active,    \* ext2_rootfs.active
          cwd,       \* ext2_rootfs.cwd_inode
          pc,        \* where the lookup is
          asked,     \* the path it was called with, and what for
          path,      \* the path of this call, then what follows its element
          traverse,  \* traverse_inode
          element,   \* path_element
          offset,    \* directory_offset
          found,     \* lookup_inode
          reply      \* the inode returned to the caller

vars == <<volume, active, cwd, pc, asked, path, traverse, element, offset,
          found, reply>>

NoCall == [path |-> <<>>, use |-> "none"]

Init ==
    /\ volume \in Volumes
    /\ active \in BOOLEAN
    /\ cwd = ROOT_INODE
    /\ pc = "idle"
    /\ asked = NoCall
    /\ path = <<>>
    /\ traverse = 0
    /\ element = ""
    /\ offset = 0
    /\ found = 0
    /\ reply = 0

-----------------------------------------------------------------------------
\* Strings: "while (path[kstrlen(path) - 1] == '/')" cuts trailing slashes, of
\* a path of slashes alone down to the empty string (and then looks at the byte
\* before it).  The loop that moves path over leading slashes is not here: the
\* lookup goes on with p, which it leaves behind.
Chomp(p) ==
    IF Len(p) <= 1 THEN p
    ELSE SubSeq(p, 1, Max({0} \cup {i \in DOMAIN p : p[i] # "/"}))
IsAbsolute(p) == p # <<>> /\ p[1] = "/"
AfterSlash(p) == IF IsAbsolute(p) THEN Tail(p) ELSE p
Named(p) == p # <<>> /\ p[1] # "/"

Unread == [inode |-> 0, len |-> 0, name |-> ""]
RecordAt(dir, at) ==
    IF at \in DOMAIN volume.dir[dir] THEN volume.dir[dir][at] ELSE Unread

\* ext2_inode_lookup() on a mounted volume finds a live inode.  It does not
\* return for one of another block group than the first; nor do its callers when
\* it finds none.
FirstGroup(v, inode) == (inode - 1) \div v.per_group = 0
InodeLookup(inode) ==
    inode # 0 /\ FirstGroup(volume, inode) /\ volume.kind[inode] # "none"

Return(inode) == pc' = "answer" /\ reply' = inode
Hang == pc' = "hung" /\ UNCHANGED reply

\* The caller.  kchdir() looks at active itself.
Call(p, use) ==
    /\ pc = "idle"
    /\ asked' = [path |-> p, use |-> use]
    /\ path' = p
    /\ traverse' = cwd
    /\ IF use = "chdir" /\ ~active THEN Return(0)
       ELSE pc' = "enter" /\ reply' = 0
    /\ UNCHANGED <<volume, active, cwd, element, offset, found>>

\* ext2_path_to_inode() up to the directory it searches, for the call and for
\* its recursive calls.
EnterRoot ==
    /\ pc = "enter" /\ path = <<"/">>
    /\ Return(ROOT_INODE)
    /\ UNCHANGED <<volume, active, cwd, asked, path, traverse, element, offset, found>>

EnterUnmounted ==
    /\ pc = "enter" /\ path # <<"/">> /\ ~active
    /\ Return(0)
    /\ UNCHANGED <<volume, active, cwd, asked, path, traverse, element, offset, found>>

\* Slip: an absolute path starts where the caller is.
Start_Here(p) == traverse
Start(p) == IF IsAbsolute(p) THEN ROOT_INODE ELSE traverse

EnterElement ==
    LET p == Chomp(path)
        q == AfterSlash(p)
    IN  /\ pc = "enter" /\ path # <<"/">> /\ active
        /\ traverse' = Start(p)
        /\ element' = IF Named(q) THEN q[1] ELSE ""
        /\ path' = IF Named(q) THEN Tail(q) ELSE q
        /\ offset' = 0
        /\ IF InodeLookup(traverse') /\ volume.kind[traverse'] = "dir"
           THEN pc' = "scan" /\ UNCHANGED reply
           ELSE Hang
        /\ UNCHANGED <<volume, active, cwd, asked, found>>

\* ext2_get_inode_from_dirent(): every record it passes must name a live inode
\* of an ordinary type, and one longer than an entry can be ends the search.
\* Slip: the inode of a record is not looked at.
Sound_Unread(rec) == rec.inode # 0
Sound(rec) == InodeLookup(rec.inode) /\ volume.kind[rec.inode] # "other"

\* Slip: only an empty record ends the directory.
Scan_ToTheEnd ==
    LET rec == RecordAt(traverse, offset)
    IN  /\ pc = "scan"
        /\ IF offset > BLOCK \/ ~Sound(rec)
           THEN Hang /\ UNCHANGED <<offset, found>>
           ELSE IF rec.len # 0 /\ rec.name = element
           THEN pc' = "down" /\ found' = rec.inode /\ UNCHANGED <<offset, reply>>
           ELSE IF rec.len = 0
           THEN Return(0) /\ UNCHANGED <<offset, found>>
           ELSE offset' = offset + rec.len /\ UNCHANGED <<pc, reply, found>>
        /\ UNCHANGED <<volume, active, cwd, asked, path, traverse, element>>

Scan ==
    LET rec == RecordAt(traverse, offset)
    IN  /\ pc = "scan"
        /\ IF offset > BLOCK \/ ~Sound(rec)
           THEN Hang /\ UNCHANGED <<offset, found>>
           ELSE IF rec.len # 0 /\ rec.name = element
           THEN pc' = "down" /\ found' = rec.inode /\ UNCHANGED <<offset, reply>>
           ELSE IF rec.len = 0 \/ rec.len > ENTRY
           THEN Return(0) /\ UNCHANGED <<offset, found>>
           ELSE offset' = offset + rec.len /\ UNCHANGED <<pc, reply, found>>
        /\ UNCHANGED <<volume, active, cwd, asked, path, traverse, element>>
\* A directory in mid-path is entered, past the slash that follows its name; a
\* file in mid-path is the answer.
Down ==
    /\ pc = "down"
    /\ IF volume.kind[found] = "dir" /\ path # <<>>
       THEN /\ traverse' = found /\ path' = Tail(path) /\ pc' = "enter"
            /\ UNCHANGED reply
       ELSE Return(found) /\ UNCHANGED <<traverse, path>>
    /\ UNCHANGED <<volume, active, cwd, asked, element, offset, found>>

\* The lookup's variables are on its stack.
Forget ==
    /\ path' = <<>> /\ element' = ""
    /\ traverse' = 0 /\ offset' = 0 /\ found' = 0

\* Slip: kchdir() goes wherever it is told.
Answer_Anywhere ==
    /\ pc = "answer"
    /\ cwd' = IF asked.use = "chdir" /\ reply # 0 THEN reply ELSE cwd
    /\ pc' = "idle"
    /\ asked' = NoCall
    /\ Forget
    /\ UNCHANGED <<volume, active, reply>>

\* isdirectory() asserts that an inode is found, and is one of the two.
isdirectory(inode) ==
    IF ~active THEN "false"
    ELSE IF ~InodeLookup(inode) THEN "asserts"
    ELSE CASE volume.kind[inode] = "dir" -> "true"
           [] volume.kind[inode] = "file" -> "false"
           [] OTHER -> "asserts"

\* The caller has its inode; kchdir() goes there if it is a directory.
Answer ==
    LET test == IF asked.use = "chdir" /\ reply # 0 THEN isdirectory(reply) ELSE "none"
    IN  /\ pc = "answer"
        /\ cwd' = IF test = "true" THEN reply ELSE cwd
        /\ pc' = IF test = "asserts" THEN "hung" ELSE "idle"
        /\ asked' = NoCall
        /\ Forget
        /\ UNCHANGED <<volume, active, reply>>

Halted == pc = "hung" /\ UNCHANGED vars

Lookup == EnterRoot \/ EnterUnmounted \/ EnterElement \/ Scan \/ Down \/ Answer
Next ==
    \/ \E p \in Paths, use \in {"open", "chdir"} : Call(p, use)
    \/ Lookup
    \/ Halted

\* Nothing preempts a lookup.
Spec == Init /\ [][Next]_vars /\ WF_vars(Lookup)

-----------------------------------------------------------------------------
\* Properties

TypeOK ==
    /\ volume \in Volumes /\ active \in BOOLEAN /\ cwd \in Inodes
    /\ pc \in {"idle", "enter", "scan", "down", "answer", "hung"}
    /\ path \in Seq(Symbols) /\ element \in Symbols \cup {""}
    /\ traverse \in Inodes \cup {0} /\ found \in Inodes \cup {0}
    /\ offset \in 0 .. BLOCK + ENTRY /\ reply \in Inodes \cup {0}

IsDir(v, inode) == v.kind[inode] = "dir"

\* Child is ext2's own idea of a name: the record of the directory's block that
\* bears it, wherever in the block it is.
Children(v, dir, name) ==
    {v.dir[dir][o].inode : o \in {p \in DOMAIN v.dir[dir] :
                                     p < BLOCK /\ v.dir[dir][p].name = name}}
Child(v, dir, name) ==
    IF Children(v, dir, name) = {} THEN 0
    ELSE CHOOSE i \in Children(v, dir, name) : TRUE

\* The directories the scan was written for: the last record, and no other, is
\* longer than an entry, and every record names a file or a directory.
LastRecord(dir) == Max({o \in DOMAIN dir : o < BLOCK})
Tidy(v) ==
    \A d \in Inodes : IsDir(v, d) =>
        \A o \in DOMAIN v.dir[d] :
            LET record == v.dir[d][o]
            IN  /\ record.inode # 0 /\ v.kind[record.inode] \in {"file", "dir"}
                /\ o <= LastRecord(v.dir[d]) =>
                       (record.len > ENTRY <=> o = LastRecord(v.dir[d]))

\* The volumes ext2_inode_lookup() was written for, whose directories lead to no
\* inode of a block group but the first.  The code mounts others too.
OneGroup(v) ==
    \A d \in Inodes : IsDir(v, d) =>
        \A o \in DOMAIN v.dir[d] : FirstGroup(v, v.dir[d][o].inode)

\* What a file system keeps: a directory's names are distinct, and no record of
\* its block is empty.
Listed(v) ==
    \A d \in Inodes : IsDir(v, d) =>
        LET dir == v.dir[d]
        IN  \A o \in DOMAIN dir : o < BLOCK =>
                /\ dir[o].len # 0
                /\ \A p \in DOMAIN dir : p < BLOCK /\ dir[p].name = dir[o].name => p = o

\* The paths it was written for: no empty element but at the end, and no element
\* of a file.
Names == INSTANCE PathLookup WITH
             Covered <- LAMBDA v, from, p : TRUE,
             request <- asked
Plain(p) ==
    LET q == Chomp(p)
    IN  q # <<>> /\ \A i \in 1 .. Len(q) - 1 : ~(q[i] = "/" /\ q[i + 1] = "/")
ThroughFile(v, from, p) ==
    LET q == Chomp(p)
    IN  \E n \in 1 .. Len(q) - 1 :
            /\ q[n + 1] = "/" /\ q[n] # "/"
            /\ LET i == Names!Resolve(v, from, SubSeq(q, 1, n))
               IN  i # 0 /\ ~IsDir(v, i)
Covered(v, from, p) ==
    Tidy(v) /\ OneGroup(v) /\ Listed(v) /\ Plain(p) /\ ~ThroughFile(v, from, p)

\* Scans and recursion together find what a path names, from the directory the
\* last chdir() went to, and the lookup ends, on a volume of tidy directories and
\* one block group.
Promise ==
    INSTANCE PathLookup WITH
        request <- asked,
        reply <- IF pc \in {"idle", "hung"} THEN reply ELSE 0
ImplementsLookup == Promise!LookupSpec

\* On a volume of tidy directories and one block group no path, however odd, stops
\* the machine.
HangsOnlyOnOddVolumes == pc = "hung" => ~Tidy(volume) \/ ~OneGroup(volume)

\* Even on other volumes: what a lookup returns is a live inode, and chdir()
\* leaves the process in a live directory.
AnswersAreLive ==
    /\ reply # 0 => volume.kind[reply] # "none"
    /\ volume.kind[cwd] = "dir"
=============================================================================
