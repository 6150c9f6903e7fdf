---------------------------- MODULE Ext2PathProofs --------------------------
(***************************************************************************)
(* Path lookup on every volume, for every path: what it answers is live,    *)
(* the current directory stays a directory, only a directory that the scan  *)
(* was not written for stops the machine, and where the lookup is Covered   *)
(* it answers what the path names.                                          *)
(***************************************************************************)
EXTENDS Ext2Path, Numbers, SequenceTheorems

\* An inode the lookup goes on with, or answers.
Usable(inode) ==
    inode \in Inodes /\ FirstGroup(volume, inode) /\ volume.kind[inode] \in {"file", "dir"}
Directory(inode) ==
    inode \in Inodes /\ FirstGroup(volume, inode) /\ volume.kind[inode] = "dir"

\* Every element is looked up in a directory; a file is never entered.
Lookups ==
    /\ Directory(cwd)
    /\ reply # 0 => Usable(reply)
    /\ pc \in {"enter", "scan"} => Directory(traverse)
    /\ pc = "down" => Usable(found)

\* On a tidy volume the scan is at a record, and does not pass the last one.
ScanInside ==
    pc = "scan" /\ Tidy(volume) =>
        /\ offset \in DOMAIN volume.dir[traverse]
        /\ offset <= LastRecord(volume.dir[traverse])

PInv == TypeOK /\ Lookups /\ ScanInside /\ HangsOnlyOnOddVolumes
-----------------------------------------------------------------------------
LEMMA MaxOfSome ==
    ASSUME NEW n \in Nat, NEW T, T \subseteq 0 .. n, T # {}
    PROVE  Max(T) \in T /\ \A y \in T : y <= Max(T)
<1>1. PICK x \in T : \A y \in T : y <= x
  BY GreatestElement
<1>2. \A y \in T : x >= y
  BY <1>1
<1>3. \E z \in T : \A y \in T : z >= y
  BY <1>2
<1>4. Max(T) \in T /\ \A y \in T : Max(T) >= y
  BY <1>3 DEF Max
<1> QED
  BY <1>4

\* The last record of a directory is one of its first block's, and no other of
\* those is behind it.
LEMMA LastRecordIsLast ==
    ASSUME NEW dir, IsDirectory(dir)
    PROVE  /\ LastRecord(dir) \in DOMAIN dir /\ LastRecord(dir) \in Nat
           /\ LastRecord(dir) < BLOCK
           /\ \A o \in DOMAIN dir : o < BLOCK => o <= LastRecord(dir)
<1> DEFINE T == {o \in DOMAIN dir : o < BLOCK}
<1>1. T \subseteq 0 .. BLOCK /\ 0 \in T /\ BLOCK \in Nat /\ T \subseteq Nat
  BY PathAssumption DEF IsDirectory
<1> HIDE DEF T
<1>2. Max(T) \in T /\ \A y \in T : y <= Max(T)
  BY <1>1, MaxOfSome
<1> QED
  BY <1>1, <1>2 DEF LastRecord, T

LEMMA FirstAndRest ==
    ASSUME NEW p \in Seq(Symbols), p # <<>>
    PROVE  p[1] \in Symbols /\ Tail(p) \in Seq(Symbols)
<1>1. Tail(p) \in Seq(Symbols)
  BY HeadTailProperties
<1>2. Len(p) \in Nat \ {0}
  BY EmptySeq
<1>3. p[1] \in Symbols
  BY <1>2, ElementOfSeq
<1> QED
  BY <1>1, <1>3

LEMMA ChompIsPath ==
    ASSUME NEW p \in Seq(Symbols)
    PROVE  Chomp(p) \in Seq(Symbols) /\ AfterSlash(p) \in Seq(Symbols)
<1> DEFINE ends == {0} \cup {i \in DOMAIN p : p[i] # "/"}
<1>1. ends \subseteq 0 .. Len(p) /\ ends # {} /\ Len(p) \in Nat
  OBVIOUS
<1> HIDE DEF ends
<1>2. Max(ends) \in 0 .. Len(p)
  BY <1>1, MaxOfSome
<1> DEFINE m == Max(ends)
<1>3. \A i \in 1 .. m : p[i] \in Symbols
  BY <1>1, <1>2
<1> HIDE DEF m
<1>4. m \in Int
  BY <1>1, <1>2 DEF m
<1>5. SubSeq(p, 1, m) \in Seq(Symbols)
  BY <1>3, <1>4, SubSeqProperties
<1>6. Chomp(p) \in Seq(Symbols)
  BY <1>5 DEF Chomp, m, ends
<1>7. AfterSlash(p) \in Seq(Symbols)
  BY FirstAndRest DEF AfterSlash, IsAbsolute
<1> QED
  BY <1>6, <1>7

-----------------------------------------------------------------------------
\* Every step keeps the invariant.

LEMMA VolumeKinds ==
    ASSUME volume \in Volumes
    PROVE  /\ volume.kind \in [Inodes -> {"none", "file", "dir", "other"}]
           /\ Directory(ROOT_INODE) /\ ROOT_INODE # 0 /\ 0 \notin Inodes
           /\ \A i : Directory(i) => Usable(i) /\ IsDirectory(volume.dir[i])
<1>1. /\ volume.kind \in [Inodes -> {"none", "file", "dir", "other"}]
      /\ ROOT_INODE \in Inodes /\ ROOT_INODE # 0 /\ 0 \notin Inodes /\ ROOT_INODE \in Nat
      /\ volume.kind[ROOT_INODE] = "dir"
      /\ volume.per_group \in Nat \ {0} /\ ROOT_INODE <= volume.per_group
  BY PathAssumption
<1>2. FirstGroup(volume, ROOT_INODE)
  <2> DEFINE n == volume.per_group
             j == ROOT_INODE - 1
  <2>1. n \in Nat \ {0} /\ j \in Nat /\ 0 * n <= j /\ j < (0 + 1) * n
    BY <1>1
  <2>2. FirstGroup(volume, ROOT_INODE) <=> j \div n = 0
    BY DEF FirstGroup
  <2> HIDE DEF n, j
  <2> QED
    BY <2>1, <2>2, QuotientUnique
<1> QED
  BY <1>1, <1>2, PathAssumption DEF Directory, Usable

LEMMA PInit == Init => PInv
<1> SUFFICES ASSUME Init PROVE PInv
  OBVIOUS
<1>1. volume \in Volumes
  BY DEF Init
<1>2. <<>> \in Seq(Symbols)
  OBVIOUS
<1>3. ROOT_INODE \in Inodes /\ 0 \in 0 .. BLOCK + ENTRY
  BY PathAssumption
<1>4. TypeOK
  BY <1>2, <1>3 DEF Init, TypeOK
<1>5. Lookups
  BY <1>1, VolumeKinds DEF Init, Lookups
<1> QED
  BY <1>4, <1>5 DEF Init, PInv, ScanInside, HangsOnlyOnOddVolumes

LEMMA CallKeeps ==
    ASSUME PInv, NEW p \in Paths, NEW use \in {"open", "chdir"}, Call(p, use)
    PROVE  PInv'
<1>1. /\ pc' \in {"enter", "answer"} /\ reply' = 0 /\ traverse' = cwd /\ path' = p
      /\ UNCHANGED <<volume, active, cwd, element, offset, found>>
  BY DEF Call, Return
<1>2. TypeOK'
  BY <1>1, PathAssumption DEF PInv, TypeOK
<1>3. Lookups'
  BY <1>1 DEF PInv, Lookups, Directory, Usable
<1> QED
  BY <1>1, <1>2, <1>3 DEF PInv, ScanInside, HangsOnlyOnOddVolumes

LEMMA EnterRootKeeps ==
    ASSUME PInv, EnterRoot \/ EnterUnmounted
    PROVE  PInv'
<1>1. /\ pc' = "answer" /\ reply' \in {0, ROOT_INODE}
      /\ UNCHANGED <<volume, active, cwd, asked, path, traverse, element, offset, found>>
  BY DEF EnterRoot, EnterUnmounted, Return
<1>2. TypeOK'
  BY <1>1, PathAssumption DEF PInv, TypeOK
<1>3. Usable(ROOT_INODE)
  BY VolumeKinds DEF PInv, TypeOK
<1>4. Lookups'
  BY <1>1, <1>3 DEF PInv, Lookups, Directory, Usable
<1> QED
  BY <1>1, <1>2, <1>4 DEF PInv, ScanInside, HangsOnlyOnOddVolumes

\* The directory that is searched is the root, the caller's or the last found:
\* the assertion at the head of the scan holds.
LEMMA EnterElementKeeps ==
    ASSUME PInv, EnterElement
    PROVE  PInv'
<1> DEFINE p == Chomp(path)
           q == AfterSlash(p)
<1>1. /\ pc = "enter" /\ volume \in Volumes /\ path \in Seq(Symbols)
      /\ traverse' = Start(p) /\ offset' = 0
      /\ element' = (IF Named(q) THEN q[1] ELSE "")
      /\ path' = (IF Named(q) THEN Tail(q) ELSE q)
      /\ UNCHANGED <<volume, active, cwd, asked, found>>
  BY DEF PInv, TypeOK, EnterElement
<1>2. Directory(traverse')
  BY <1>1, VolumeKinds DEF PInv, Lookups, Start
<1>3. pc' = "scan" /\ UNCHANGED reply
  BY <1>1, <1>2, VolumeKinds DEF EnterElement, Directory, InodeLookup
<1>4. q \in Seq(Symbols)
  BY <1>1, ChompIsPath
<1> HIDE DEF p, q
<1>5. path' \in Seq(Symbols) /\ element' \in Symbols \cup {""}
  <2>1. Named(q) => q[1] \in Symbols /\ Tail(q) \in Seq(Symbols)
    BY <1>4, FirstAndRest DEF Named
  <2> QED
    BY <1>1, <1>4, <2>1
<1>6. TypeOK'
  <2>1. 0 \in 0 .. BLOCK + ENTRY
    BY PathAssumption
  <2> QED
    BY <1>1, <1>2, <1>3, <1>5, <2>1 DEF PInv, TypeOK, Directory
<1>7. Lookups'
  BY <1>1, <1>2, <1>3 DEF PInv, Lookups, Directory, Usable
<1>8. ScanInside'
  <2>1. IsDirectory(volume.dir[traverse'])
    BY <1>1, <1>2, VolumeKinds
  <2>2. 0 \in DOMAIN volume.dir[traverse'] /\ 0 <= LastRecord(volume.dir[traverse'])
    BY <2>1, LastRecordIsLast DEF IsDirectory
  <2> QED
    BY <1>1, <2>2 DEF ScanInside
<1> QED
  BY <1>3, <1>6, <1>7, <1>8 DEF PInv, HangsOnlyOnOddVolumes

\* Of a tidy directory the record at hand is sound if its inode is of the first
\* block group, and unless the record is the last the next one is where it ends, not behind the last.
LEMMA ScanInTidy ==
    ASSUME PInv, pc = "scan", Tidy(volume)
    PROVE  LET rec == RecordAt(traverse, offset)
               dir == volume.dir[traverse]
           IN  /\ offset <= BLOCK /\ (OneGroup(volume) => Sound(rec))
               /\ ~(rec.len > ENTRY) => /\ offset + rec.len \in DOMAIN dir
                                        /\ offset + rec.len <= LastRecord(dir)
<1> DEFINE dir == volume.dir[traverse]
           rec == dir[offset]
           last == LastRecord(dir)
<1>1. Directory(traverse) /\ IsDirectory(dir) /\ volume \in Volumes
  BY VolumeKinds DEF PInv, TypeOK, Lookups
<1>2. offset \in DOMAIN dir /\ offset <= last /\ offset \in Nat
  BY <1>1 DEF PInv, ScanInside, IsDirectory
<1>3. last \in DOMAIN dir /\ last \in Nat /\ last < BLOCK /\ BLOCK \in Nat
      /\ \A o \in DOMAIN dir : o < BLOCK => o <= last
  BY <1>1, LastRecordIsLast, PathAssumption
<1>4. /\ rec.inode # 0 /\ volume.kind[rec.inode] \in {"file", "dir"}
      /\ rec.len > ENTRY <=> offset = last
  BY <1>1, <1>2 DEF Tidy, IsDir, Directory
<1>5. RecordAt(traverse, offset) = rec
  BY <1>2 DEF RecordAt
<1>6. OneGroup(volume) => Sound(rec)
  BY <1>1, <1>2, <1>4 DEF OneGroup, IsDir, Directory, Sound, InodeLookup
<1>7. ASSUME ~(rec.len > ENTRY)
      PROVE  offset + rec.len \in DOMAIN dir /\ offset + rec.len <= last
  <2>1. offset < last
    BY <1>2, <1>3, <1>4, <1>7
  <2> QED
    BY <1>1, <1>2, <1>3, <2>1 DEF IsDirectory
<1> HIDE DEF dir, rec, last
<1>8. offset <= BLOCK
  BY <1>2, <1>3
<1> QED
  BY <1>5, <1>6, <1>7, <1>8 DEF dir, last
LEMMA ScanKeeps ==
    ASSUME PInv, Scan
    PROVE  PInv'
<1> DEFINE rec == RecordAt(traverse, offset)
<1>1. /\ pc = "scan" /\ TypeOK /\ Lookups
      /\ UNCHANGED <<volume, active, cwd, asked, path, traverse, element>>
  BY DEF PInv, Scan
<1>2. /\ offset > BLOCK \/ ~Sound(rec) => Hang /\ UNCHANGED <<offset, found>>
      /\ ~(offset > BLOCK \/ ~Sound(rec)) =>
           \/ /\ pc' = "down" /\ found' = rec.inode /\ UNCHANGED <<offset, reply>>
           \/ /\ Return(0) /\ UNCHANGED <<offset, found>>
           \/ /\ ~(rec.len = 0 \/ rec.len > ENTRY)
              /\ offset' = offset + rec.len /\ UNCHANGED <<pc, reply, found>>
  BY Zenon DEF Scan
<1>3. rec.inode \in Inodes \cup {0} /\ rec.len \in Nat
  <2>1. IsDirectory(volume.dir[traverse])
    BY <1>1, VolumeKinds DEF TypeOK, Lookups
  <2> QED
    BY <2>1, PathAssumption DEF IsDirectory, RecordAt, Unread
<1>4. Sound(rec) => Usable(rec.inode)
  BY <1>1, <1>3, VolumeKinds DEF TypeOK, Sound, InodeLookup, Usable
<1>5. Tidy(volume) => /\ offset <= BLOCK /\ (OneGroup(volume) => Sound(rec))
                      /\ ~(rec.len > ENTRY) =>
                            /\ offset + rec.len \in DOMAIN volume.dir[traverse]
                            /\ offset + rec.len <= LastRecord(volume.dir[traverse])
  BY <1>1, ScanInTidy
<1> HIDE DEF rec
<1>6. BLOCK \in Nat /\ ENTRY \in Nat /\ offset \in Nat
  <2>1. BLOCK \in Nat /\ ENTRY \in Nat
    BY PathAssumption
  <2>2. offset \in 0 .. BLOCK + ENTRY
    BY <1>1 DEF TypeOK
  <2> QED
    BY <2>1, <2>2
<1>7. CASE offset > BLOCK \/ ~Sound(rec)
  <2>1. pc' = "hung" /\ UNCHANGED <<reply, offset, found>>
    BY <1>2, <1>7 DEF Hang
  <2>2. ~Tidy(volume) \/ ~OneGroup(volume)
    BY <1>5, <1>6, <1>7
  <2>3. TypeOK'
    BY <1>1, <2>1 DEF TypeOK
  <2>4. Lookups'
    BY <1>1, <2>1 DEF Lookups, Directory, Usable
  <2> QED
    BY <1>1, <2>1, <2>2, <2>3, <2>4 DEF PInv, ScanInside, HangsOnlyOnOddVolumes
<1>8. CASE ~(offset > BLOCK \/ ~Sound(rec)) /\ pc' = "down" /\ found' = rec.inode
           /\ UNCHANGED <<offset, reply>>
  <2>1. Usable(rec.inode)
    BY <1>4, <1>8
  <2>2. TypeOK'
    BY <1>1, <1>3, <1>8 DEF TypeOK
  <2>3. Lookups'
    BY <1>1, <1>8, <2>1 DEF Lookups, Directory, Usable
  <2> QED
    BY <1>8, <2>2, <2>3 DEF PInv, ScanInside, HangsOnlyOnOddVolumes
<1>9. CASE Return(0) /\ UNCHANGED <<offset, found>>
  <2>1. pc' = "answer" /\ reply' = 0
    BY <1>9 DEF Return
  <2>2. TypeOK'
    BY <1>1, <1>9, <2>1 DEF TypeOK
  <2>3. Lookups'
    BY <1>1, <1>9, <2>1 DEF Lookups, Directory, Usable
  <2> QED
    BY <2>1, <2>2, <2>3 DEF PInv, ScanInside, HangsOnlyOnOddVolumes
<1>10. CASE /\ ~(offset > BLOCK) /\ ~(rec.len = 0 \/ rec.len > ENTRY)
            /\ offset' = offset + rec.len /\ UNCHANGED <<pc, reply, found>>
  <2>1. offset + rec.len \in 0 .. BLOCK + ENTRY
    BY <1>3, <1>6, <1>10
  <2>2. TypeOK'
    BY <1>1, <1>10, <2>1 DEF TypeOK
  <2>3. Lookups'
    BY <1>1, <1>10 DEF Lookups, Directory, Usable
  <2>4. ScanInside'
    BY <1>1, <1>5, <1>10 DEF ScanInside
  <2> QED
    BY <1>1, <1>10, <2>2, <2>3, <2>4 DEF PInv, HangsOnlyOnOddVolumes
<1> QED
  BY <1>2, <1>7, <1>8, <1>9, <1>10

LEMMA DownKeeps ==
    ASSUME PInv, Down
    PROVE  PInv'
<1>1. /\ pc = "down" /\ TypeOK /\ Lookups /\ Usable(found)
      /\ UNCHANGED <<volume, active, cwd, asked, element, offset, found>>
  BY DEF PInv, Lookups, Down
<1>2. CASE volume.kind[found] = "dir" /\ path # <<>>
  <2>1. traverse' = found /\ path' = Tail(path) /\ pc' = "enter" /\ UNCHANGED reply
    BY <1>2 DEF Down
  <2>2. path' \in Seq(Symbols)
    BY <1>1, <1>2, <2>1, FirstAndRest DEF TypeOK
  <2>3. TypeOK'
    BY <1>1, <2>1, <2>2 DEF TypeOK
  <2>4. Lookups'
    BY <1>1, <1>2, <2>1 DEF Lookups, Directory, Usable
  <2> QED
    BY <2>1, <2>3, <2>4 DEF PInv, ScanInside, HangsOnlyOnOddVolumes
<1>3. CASE ~(volume.kind[found] = "dir" /\ path # <<>>)
  <2>1. pc' = "answer" /\ reply' = found /\ UNCHANGED <<traverse, path>>
    BY <1>3 DEF Down, Return
  <2>2. TypeOK'
    BY <1>1, <2>1 DEF TypeOK
  <2>3. Lookups'
    BY <1>1, <2>1 DEF Lookups, Directory, Usable
  <2> QED
    BY <2>1, <2>2, <2>3 DEF PInv, ScanInside, HangsOnlyOnOddVolumes
<1> QED
  BY <1>2, <1>3

\* What chdir() asks isdirectory() about is an inode it has an answer for.
LEMMA AnswerKeeps ==
    ASSUME PInv, Answer
    PROVE  PInv'
<1> DEFINE test == IF asked.use = "chdir" /\ reply # 0 THEN isdirectory(reply)
                   ELSE "none"
<1>1. /\ TypeOK /\ Lookups
      /\ cwd' = IF test = "true" THEN reply ELSE cwd
      /\ pc' = IF test = "asserts" THEN "hung" ELSE "idle"
      /\ Forget /\ UNCHANGED <<volume, active, reply>>
  BY DEF PInv, Answer
<1>2. reply # 0 => isdirectory(reply) # "asserts"
                   /\ (isdirectory(reply) = "true" => Directory(reply))
  BY <1>1, VolumeKinds DEF TypeOK, Lookups, Usable, Directory, isdirectory, InodeLookup
<1>3. test # "asserts" /\ (test = "true" => Directory(reply))
  BY <1>2
<1> HIDE DEF test
<1>4. pc' = "idle" /\ Directory(cwd')
  BY <1>1, <1>3 DEF Lookups
<1>5. TypeOK'
  <2>1. <<>> \in Seq(Symbols) /\ 0 \in 0 .. BLOCK + ENTRY
    BY PathAssumption
  <2> QED
    BY <1>1, <1>4, <2>1 DEF TypeOK, Forget, Directory
<1>6. Lookups'
  BY <1>1, <1>4 DEF Lookups, Directory, Usable
<1> QED
  BY <1>4, <1>5, <1>6 DEF PInv, ScanInside, HangsOnlyOnOddVolumes

LEMMA PNext == PInv /\ [Next]_vars => PInv'
<1> SUFFICES ASSUME PInv, [Next]_vars PROVE PInv'
  OBVIOUS
<1>1. ASSUME NEW p \in Paths, NEW use \in {"open", "chdir"}, Call(p, use) PROVE PInv'
  BY <1>1, CallKeeps
<1>2. CASE EnterRoot \/ EnterUnmounted
  BY <1>2, EnterRootKeeps
<1>3. CASE EnterElement
  BY <1>3, EnterElementKeeps
<1>4. CASE Scan
  BY <1>4, ScanKeeps
<1>5. CASE Down
  BY <1>5, DownKeeps
<1>6. CASE Answer
  BY <1>6, AnswerKeeps
<1>7. CASE UNCHANGED vars
  BY <1>7 DEF vars, PInv, TypeOK, Lookups, Directory, Usable, ScanInside,
              HangsOnlyOnOddVolumes
<1>8. Halted => UNCHANGED vars
  BY DEF Halted
<1> QED
  BY <1>1, <1>2, <1>3, <1>4, <1>5, <1>6, <1>7, <1>8 DEF Next, Lookup

LEMMA LookupInvariant == Spec => []PInv
<1>1. Init => PInv
  BY PInit
<1>2. PInv /\ [Next]_vars => PInv'
  BY PNext
<1> QED
  BY <1>1, <1>2, PTL DEF Spec

-----------------------------------------------------------------------------
\* What a lookup promises.

\* The lookup's state keeps its types; the offset into a directory, which damage
\* can drive beyond the block, goes no further than one entry.
THEOREM LookupTypes == Spec => []TypeOK
<1>1. PInv => TypeOK
  BY DEF PInv
<1> QED
  BY <1>1, LookupInvariant, PTL

\* No path, whatever its slashes and dots, stops the machine on a volume whose
\* directories are those the scan was written for and lead to no inode outside the
\* first block group.
THEOREM TidyNeverHangs == Spec => []HangsOnlyOnOddVolumes
<1>1. PInv => HangsOnlyOnOddVolumes
  BY DEF PInv
<1> QED
  BY <1>1, LookupInvariant, PTL

\* On any volume: what ext2_path_to_inode() returns is a live inode, and kchdir()
\* goes only to a live directory.
THEOREM LookupsFindLive == Spec => []AnswersAreLive
<1>1. PInv => AnswersAreLive
  BY DEF PInv, Lookups, Usable, Directory, AnswersAreLive
<1> QED
  BY <1>1, LookupInvariant, PTL
-----------------------------------------------------------------------------
\* The refinement: where a walk over the elements of a path has led.
Led(from, p) == Names!Walked(volume, from, p)

\* path is what is left of q behind its n-th symbol.
Rest(q, n) == Len(path) = Len(q) - n /\ \A i \in 1 .. Len(path) : path[i] = q[n + i]

\* What a lookup remembers of its caller, and what it says of a volume that is
\* not mounted.
Calls ==
    /\ pc = "idle" => asked = NoCall
    /\ pc \notin {"idle", "hung"} => asked \in [path : Paths, use : {"open", "chdir"}]
    /\ pc \in {"enter", "scan", "down"} => reply = 0
    /\ ~active =>
           /\ pc \notin {"scan", "down"}
           /\ pc = "enter" => path = asked.path /\ asked.use = "open"
           /\ pc = "answer" =>
                  reply = IF asked.path = <<"/">> /\ asked.use # "chdir"
                          THEN ROOT_INODE ELSE 0

\* The walk is on the path: it is at the n-th symbol, where the symbols before
\* have led, and the scan has passed no record of the element's name.
Walking ==
    LET q == Chomp(asked.path)
        led == Led(cwd, q)
    IN  active /\ Covered(volume, cwd, asked.path) =>
        /\ pc = "enter" =>
               \/ path = asked.path /\ traverse = cwd
               \/ \E n \in 1 .. Len(q) - 1 :
                      q[n] = "/" /\ Rest(q, n) /\ traverse = led[n]
        /\ pc = "scan" =>
               \E n \in 1 .. Len(q) :
                   /\ q[n] # "/" /\ q[n] = element /\ Rest(q, n) /\ traverse = led[n - 1]
                   /\ \A o \in DOMAIN volume.dir[traverse] :
                          o < offset => volume.dir[traverse][o].name # element
        /\ pc = "down" =>
               \E n \in 1 .. Len(q) : q[n] # "/" /\ Rest(q, n) /\ found = led[n]
        /\ pc = "answer" => reply = Names!Resolve(volume, cwd, asked.path)

WInv == PInv /\ Calls /\ Walking
-----------------------------------------------------------------------------
\* What a name in a directory leads to is an inode, or nothing.
LEMMA WithinIsInode ==
    ASSUME volume \in Volumes, NEW dir \in Inodes \cup {0}, NEW name
    PROVE  Names!Within(volume, dir, name) \in Inodes \cup {0}
<1>1. CASE dir # 0 /\ IsDir(volume, dir)
  <2> DEFINE C == Children(volume, dir, name)
  <2>1. IsDirectory(volume.dir[dir])
    BY <1>1, PathAssumption DEF IsDir
  <2>2. \A o \in DOMAIN volume.dir[dir] : volume.dir[dir][o].inode \in Inodes \cup {0}
    BY <2>1 DEF IsDirectory
  <2>3. C \subseteq Inodes \cup {0}
    BY <2>2 DEF Children
  <2>4. Child(volume, dir, name) = IF C = {} THEN 0 ELSE CHOOSE i \in C : TRUE
    BY DEF Child
  <2> HIDE DEF C
  <2>5. Child(volume, dir, name) \in Inodes \cup {0}
    BY <2>3, <2>4
  <2> QED
    BY <1>1, <2>5 DEF Names!Within
<1>2. CASE ~(dir # 0 /\ IsDir(volume, dir))
  BY <1>2 DEF Names!Within
<1> QED
  BY <1>1, <1>2

\* What the recursion of the abstract module computes.
LEMMA LedStep ==
    ASSUME volume \in Volumes, NEW from \in Inodes, NEW p \in Seq(Symbols)
    PROVE  /\ Led(from, p)[0] = IF p # <<>> /\ p[1] = "/" THEN ROOT_INODE ELSE from
           /\ \A n \in 1 .. Len(p) :
                  Led(from, p)[n] = IF p[n] = "/" THEN Led(from, p)[n - 1]
                                    ELSE Names!Within(volume, Led(from, p)[n - 1], p[n])
<1> DEFINE A == Inodes \cup {0}
           base == IF p # <<>> /\ p[1] = "/" THEN ROOT_INODE ELSE from
           Turn(k, a) == IF p[k] = "/" THEN a ELSE Names!Within(volume, a, p[k])
           step == [k \in Nat |-> [a \in A |-> Turn(k, a)]]
           n == Len(p)
           Loop(f) == f = [k \in 0 .. n |-> IF k = 0 THEN base ELSE Turn(k, f[k - 1])]
           at == CHOOSE f : Loop(f)
<1>1. n \in Nat /\ base \in A
  BY PathAssumption
<1>2. \A k \in Nat : step[k] \in [A -> A]
  <2> SUFFICES ASSUME NEW k \in Nat PROVE [a \in A |-> Turn(k, a)] \in [A -> A]
    BY Zenon
  <2>1. \A a \in A : Turn(k, a) \in A
    BY WithinIsInode
  <2> QED
    BY <2>1
<1>3. \A k \in Nat : \A a \in A : step[k][a] = Turn(k, a)
  BY Zenon
<1> HIDE DEF step, n, base, Turn
<1>4. PICK g \in [0 .. n -> A] :
          g[0] = base /\ \A k \in 1 .. n : g[k] = step[k][g[k - 1]]
  <2> HIDE DEF A
  <2>1. Histories(A, base, step, n) # {}
    BY <1>1, <1>2, Iterates
  <2> QED
    BY <2>1 DEF Histories
<1>5. ASSUME NEW k \in 0 .. n PROVE g[k] = IF k = 0 THEN base ELSE Turn(k, g[k - 1])
  <2>1. CASE k = 0
    BY <1>4, <2>1
  <2>2. CASE k # 0
    <3>1. k \in Nat /\ k \in 1 .. n /\ k - 1 \in 0 .. n
      BY <1>1, <2>2
    <3>2. step[k][g[k - 1]] = Turn(k, g[k - 1])
      BY <1>3, <1>4, <3>1
    <3> QED
      BY <1>4, <2>2, <3>1, <3>2
  <2> QED
    BY <2>1, <2>2
<1>6. Loop(g)
  BY <1>5
<1>7. Loop(at)
  <2> HIDE DEF Loop
  <2> QED
    BY <1>6
<1>8. \A k \in 0 .. n : at[k] = IF k = 0 THEN base ELSE Turn(k, at[k - 1])
  <2> HIDE DEF at
  <2> QED
    BY <1>7, Zenon
<1>9. Led(from, p) = at
  BY Zenon DEF Led, Names!Walked, at, Loop, n, base, Turn
<1> HIDE DEF at, Loop
<1>10. at[0] = base
  BY <1>1, <1>8
<1>11. ASSUME NEW k \in 1 .. n PROVE at[k] = Turn(k, at[k - 1])
  BY <1>1, <1>8
<1> QED
  BY <1>9, <1>10, <1>11 DEF base, Turn, n

\* A path leads as far as its beginning.
LEMMA LedPrefix ==
    ASSUME volume \in Volumes, NEW from \in Inodes, NEW p \in Seq(Symbols),
           NEW q \in Seq(Symbols), q # <<>>, Len(q) <= Len(p),
           \A i \in 1 .. Len(q) : q[i] = p[i]
    PROVE  \A n \in 0 .. Len(q) : Led(from, q)[n] = Led(from, p)[n]
<1> DEFINE T == {n \in Nat : n <= Len(q) => Led(from, q)[n] = Led(from, p)[n]}
<1>1. Len(q) \in Nat /\ Len(q) # 0 /\ Len(p) \in Nat /\ p # <<>>
  BY EmptySeq
<1>2. 0 \in T
  <2>1. q[1] = p[1]
    BY <1>1
  <2> QED
    BY <1>1, <2>1, LedStep
<1>3. ASSUME NEW n \in Nat, n \in T PROVE n + 1 \in T
  <2> SUFFICES ASSUME n + 1 <= Len(q)
               PROVE  Led(from, q)[n + 1] = Led(from, p)[n + 1]
    OBVIOUS
  <2>1. n + 1 \in 1 .. Len(q) /\ n + 1 \in 1 .. Len(p) /\ (n + 1) - 1 = n
    BY <1>1
  <2>2. Led(from, q)[n] = Led(from, p)[n] /\ q[n + 1] = p[n + 1]
    BY <1>1, <1>3, <2>1
  <2> DEFINE k == n + 1
  <2> HIDE DEF k
  <2>3. /\ Led(from, q)[k] = IF q[k] = "/" THEN Led(from, q)[k - 1]
                             ELSE Names!Within(volume, Led(from, q)[k - 1], q[k])
        /\ Led(from, p)[k] = IF p[k] = "/" THEN Led(from, p)[k - 1]
                             ELSE Names!Within(volume, Led(from, p)[k - 1], p[k])
    BY <2>1, LedStep DEF k
  <2> QED
    BY <2>1, <2>2, <2>3 DEF k
<1> HIDE DEF T
<1>4. \A n \in Nat : n \in T
  BY <1>2, <1>3, Induct
<1> QED
  BY <1>1, <1>4 DEF T

\* Slashes at the end lead nowhere else, and nowhere stays nowhere.
LEMMA LedOn ==
    ASSUME volume \in Volumes, NEW from \in Inodes, NEW p \in Seq(Symbols),
           NEW m \in 0 .. Len(p),
           \/ \A i \in m + 1 .. Len(p) : p[i] = "/"
           \/ Led(from, p)[m] = 0
    PROVE  Led(from, p)[Len(p)] = Led(from, p)[m]
<1> DEFINE T == {n \in Nat : m + n <= Len(p) => Led(from, p)[m + n] = Led(from, p)[m]}
<1>1. Len(p) \in Nat /\ m \in Nat
  OBVIOUS
<1>2. 0 \in T
  BY <1>1
<1>3. ASSUME NEW n \in Nat, n \in T PROVE n + 1 \in T
  <2> SUFFICES ASSUME m + (n + 1) <= Len(p)
               PROVE  Led(from, p)[m + (n + 1)] = Led(from, p)[m]
    OBVIOUS
  <2> DEFINE k == m + (n + 1)
  <2>1. k \in 1 .. Len(p) /\ k - 1 = m + n /\ k \in m + 1 .. Len(p)
    BY <1>1
  <2> HIDE DEF k
  <2>2. Led(from, p)[k - 1] = Led(from, p)[m]
    BY <1>1, <1>3, <2>1
  <2>3. Led(from, p)[k] = IF p[k] = "/" THEN Led(from, p)[k - 1]
                          ELSE Names!Within(volume, Led(from, p)[k - 1], p[k])
    BY <2>1, LedStep
  <2>4. Led(from, p)[k] = Led(from, p)[m]
    <3>1. CASE p[k] = "/"
      BY <2>2, <2>3, <3>1
    <3>2. CASE p[k] # "/"
      <4>1. Led(from, p)[m] = 0
        BY <2>1, <3>2
      <4>2. Led(from, p)[k] = Names!Within(volume, 0, p[k])
        BY <2>2, <2>3, <3>2, <4>1
      <4> QED
        BY <4>1, <4>2 DEF Names!Within
    <3> QED
      BY <3>1, <3>2
  <2> QED
    BY <2>4 DEF k
<1> HIDE DEF T
<1>4. \A n \in Nat : n \in T
  BY <1>2, <1>3, Induct
<1>5. Len(p) - m \in Nat /\ m + (Len(p) - m) = Len(p)
  BY <1>1
<1> QED
  BY <1>1, <1>4, <1>5 DEF T

\* kchomp's loop: a path without the slashes at its end.
LEMMA ChompFacts ==
    ASSUME NEW p \in Seq(Symbols)
    PROVE  LET q == Chomp(p)
           IN  /\ q \in Seq(Symbols) /\ Len(q) <= Len(p)
               /\ \A i \in 1 .. Len(q) : q[i] = p[i]
               /\ \A i \in Len(q) + 1 .. Len(p) : p[i] = "/"
               /\ q # <<>> /\ p # <<"/">> => q[Len(q)] # "/"
<1> DEFINE q == Chomp(p)
<1>1. q \in Seq(Symbols) /\ Len(p) \in Nat
  BY ChompIsPath
<1>2. CASE Len(p) <= 1
  <2>1. q = p
    BY <1>2 DEF Chomp
  <2>2. p # <<>> /\ p # <<"/">> => p[Len(p)] # "/"
    <3> SUFFICES ASSUME p # <<>>, p[Len(p)] = "/" PROVE p = <<"/">>
      OBVIOUS
    <3>1. Len(p) \in Nat \ {0}
      BY EmptySeq
    <3>2. Len(p) = 1
      <4> DEFINE n == Len(p)
      <4>1. n \in Nat /\ n # 0 /\ n <= 1
        BY <1>2, <3>1
      <4> HIDE DEF n
      <4>2. n = 1
        BY <4>1
      <4> QED
        BY <4>2 DEF n
    <3>3. p[1] = "/" /\ p[1] \in Symbols
      BY <3>2
    <3> DEFINE c == "/"
    <3> HIDE DEF c
    <3>4. <<c>> \in Seq(Symbols) /\ Len(<<c>>) = 1 /\ <<c>>[1] = c
      BY <3>3 DEF c
    <3>5. \A i \in 1 .. Len(p) : p[i] = <<c>>[i]
      BY <3>2, <3>3, <3>4 DEF c
    <3>6. p = <<c>>
      BY <3>2, <3>4, <3>5, SeqEqual
    <3> QED
      BY <3>6 DEF c
  <2>3. Len(p) + 1 .. Len(p) = {}
    BY <1>1
  <2> QED
    BY <1>1, <2>1, <2>2, <2>3
<1>3. CASE ~(Len(p) <= 1)
  <2> DEFINE ends == {0} \cup {i \in DOMAIN p : p[i] # "/"}
             m == Max(ends)
  <2>1. ends \subseteq 0 .. Len(p) /\ ends # {}
    BY <1>1
  <2>2. \A i \in 1 .. Len(p) : p[i] # "/" => i \in ends
    OBVIOUS
  <2>3. \A i \in ends : i # 0 => p[i] # "/"
    OBVIOUS
  <2>4. q = SubSeq(p, 1, m)
    BY <1>3 DEF Chomp
  <2> HIDE DEF ends, q
  <2>5. m \in ends /\ \A y \in ends : y <= m
    BY <1>1, <2>1, MaxOfSome
  <2> HIDE DEF m
  <2>6. m \in Nat /\ m <= Len(p) /\ m \in Int
    BY <1>1, <2>1, <2>5
  <2>7. \A i \in 1 .. m : p[i] \in Symbols
    BY <1>1, <2>6
  <2>8. Len(q) = m /\ \A i \in 1 .. m : q[i] = p[i]
    <3>1. /\ Len(SubSeq(p, 1, m)) = IF 1 <= m THEN m - 1 + 1 ELSE 0
          /\ \A i \in 1 .. m - 1 + 1 : SubSeq(p, 1, m)[i] = p[1 + i - 1]
      BY <2>6, <2>7, SubSeqProperties
    <3> QED
      BY <2>4, <2>6, <3>1
  <2>9. ASSUME NEW i \in m + 1 .. Len(p) PROVE p[i] = "/"
    <3>1. i \in 1 .. Len(p) /\ ~(i <= m)
      BY <1>1, <2>6
    <3> QED
      BY <2>2, <2>5, <3>1
  <2>10. q # <<>> => q[m] # "/"
    <3> SUFFICES ASSUME q # <<>> PROVE q[m] # "/"
      OBVIOUS
    <3>1. m # 0 /\ m \in 1 .. m
      BY <1>1, <2>6, <2>8, EmptySeq
    <3> QED
      BY <2>3, <2>5, <2>8, <3>1
  <2> QED
    BY <1>1, <2>6, <2>8, <2>9, <2>10 DEF q
<1> QED
  BY <1>1, <1>2, <1>3

LEMMA ChompSame ==
    ASSUME NEW p \in Seq(Symbols), p # <<>>, p[Len(p)] # "/"
    PROVE  Chomp(p) = p
<1> DEFINE q == Chomp(p)
<1>1. /\ q \in Seq(Symbols) /\ Len(q) <= Len(p) /\ Len(q) \in Nat
      /\ Len(p) \in Nat \ {0}
      /\ \A i \in 1 .. Len(q) : q[i] = p[i]
      /\ \A i \in Len(q) + 1 .. Len(p) : p[i] = "/"
  BY ChompFacts, EmptySeq
<1> HIDE DEF q
<1>2. Len(q) = Len(p)
  BY <1>1
<1>3. q = p
  BY <1>1, <1>2, SeqEqual
<1> QED
  BY <1>3 DEF q

\* The slashes at its end do not change what a path names.
LEMMA ResolveChomped ==
    ASSUME volume \in Volumes, NEW from \in Inodes, NEW p \in Seq(Symbols),
           Chomp(p) # <<>>
    PROVE  Names!Resolve(volume, from, p) = Led(from, Chomp(p))[Len(Chomp(p))]
<1> DEFINE q == Chomp(p)
<1>1. /\ q \in Seq(Symbols) /\ Len(q) <= Len(p) /\ Len(q) \in Nat \ {0}
      /\ Len(p) \in Nat /\ q # <<>>
      /\ \A i \in 1 .. Len(q) : q[i] = p[i]
      /\ \A i \in Len(q) + 1 .. Len(p) : p[i] = "/"
  BY ChompFacts, EmptySeq
<1> HIDE DEF q
<1>2. p # <<>> /\ Len(q) \in 0 .. Len(p) /\ Len(q) \in 0 .. Len(q)
  BY <1>1, EmptySeq
<1>3. Led(from, q)[Len(q)] = Led(from, p)[Len(q)]
  BY <1>1, <1>2, LedPrefix
<1>4. Led(from, p)[Len(p)] = Led(from, p)[Len(q)]
  BY <1>1, <1>2, LedOn
<1>5. Names!Resolve(volume, from, p) = Led(from, p)[Len(p)]
  BY <1>2 DEF Names!Resolve, Led
<1> QED
  BY <1>3, <1>4, <1>5 DEF q

\* A path the lookup was written for: names and slashes take turns, and a name is
\* at the end.
LEMMA CoveredPath ==
    ASSUME NEW p \in Paths, Covered(volume, cwd, p)
    PROVE  LET q == Chomp(p)
           IN  /\ Tidy(volume) /\ Listed(volume)
               /\ p \in Seq(Symbols) /\ q \in Seq(Symbols) /\ q # <<>>
               /\ Len(q) \in Nat \ {0}
               /\ \A i \in 1 .. Len(q) - 1 : q[i] = "/" <=> q[i + 1] # "/"
               /\ p # <<"/">> => q[Len(q)] # "/"
<1> DEFINE q == Chomp(p)
<1>1. p \in Seq(Symbols) /\ \A i \in 1 .. Len(p) - 1 : p[i] = "/" \/ p[i + 1] = "/"
  BY PathAssumption
<1>2. /\ Tidy(volume) /\ Listed(volume) /\ q # <<>>
      /\ \A i \in 1 .. Len(q) - 1 : ~(q[i] = "/" /\ q[i + 1] = "/")
  BY DEF Covered, Plain
<1>3. /\ q \in Seq(Symbols) /\ Len(q) <= Len(p) /\ Len(p) \in Nat
      /\ \A i \in 1 .. Len(q) : q[i] = p[i]
      /\ p # <<"/">> => q[Len(q)] # "/"
  BY <1>1, <1>2, ChompFacts
<1> HIDE DEF q
<1>4. Len(q) \in Nat \ {0}
  BY <1>2, <1>3, EmptySeq
<1>5. ASSUME NEW i \in 1 .. Len(q) - 1 PROVE q[i] = "/" <=> q[i + 1] # "/"
  <2>1. i \in 1 .. Len(p) - 1 /\ i \in 1 .. Len(q) /\ i + 1 \in 1 .. Len(q)
    BY <1>3, <1>4
  <2> QED
    BY <1>1, <1>2, <1>3, <2>1
<1> QED
  BY <1>1, <1>2, <1>3, <1>4, <1>5 DEF q

\* In a directory whose names are distinct the record of a name is its child.
LEMMA RecordIsChild ==
    ASSUME volume \in Volumes, Listed(volume), NEW d, Directory(d),
           NEW o \in DOMAIN volume.dir[d], o < BLOCK
    PROVE  Child(volume, d, volume.dir[d][o].name) = volume.dir[d][o].inode
<1> DEFINE dir == volume.dir[d]
           C == Children(volume, d, dir[o].name)
<1>1. \A p \in DOMAIN dir : p < BLOCK /\ dir[p].name = dir[o].name => p = o
  BY DEF Listed, Directory, IsDir
<1>2. C = {dir[o].inode}
  BY <1>1 DEF Children
<1>3. Child(volume, d, dir[o].name) = IF C = {} THEN 0 ELSE CHOOSE i \in C : TRUE
  BY DEF Child
<1> HIDE DEF C, dir
<1>4. Child(volume, d, dir[o].name) = dir[o].inode
  BY <1>2, <1>3
<1> QED
  BY <1>4 DEF dir

LEMMA NoRecordNoChild ==
    ASSUME NEW d, NEW name,
           \A o \in DOMAIN volume.dir[d] : o < BLOCK => volume.dir[d][o].name # name
    PROVE  Child(volume, d, name) = 0
BY DEF Child, Children

-----------------------------------------------------------------------------
\* Every step keeps the walk on its path.

LEMMA EntersOnPath ==
    ASSUME WInv, EnterElement
    PROVE  Walking'
<1>1. /\ pc = "enter" /\ path # <<"/">> /\ active /\ volume \in Volumes
      /\ cwd \in Inodes /\ path \in Seq(Symbols) /\ asked \in [path : Paths, use : {"open", "chdir"}]
      /\ UNCHANGED <<volume, active, cwd, asked, found>> /\ offset' = 0
      /\ traverse' = Start(Chomp(path))
      /\ Named(AfterSlash(Chomp(path))) =>
             /\ element' = AfterSlash(Chomp(path))[1]
             /\ path' = Tail(AfterSlash(Chomp(path)))
  BY DEF WInv, PInv, TypeOK, Calls, EnterElement
<1>2. PInv'
  BY EnterElementKeeps DEF WInv
<1>3. pc' \in {"scan", "hung"}
  BY DEF EnterElement, Hang
<1> DEFINE q == Chomp(asked.path)
           led == Led(cwd, q)
           OnPath(n) ==
               /\ q[n] # "/" /\ q[n] = element' /\ traverse' = led[n - 1]
               /\ Len(path') = Len(q) - n
               /\ \A i \in 1 .. Len(path') : path'[i] = q[n + i]
               /\ \A o \in DOMAIN volume.dir[traverse'] :
                      o < offset' => volume.dir[traverse'][o].name # element'
<1> SUFFICES ASSUME Covered(volume, cwd, asked.path), pc' = "scan"
             PROVE  \E n \in 1 .. Len(q) : OnPath(n)
  BY <1>1, <1>3 DEF Walking, Led, Rest
<1>4. /\ asked.path \in Paths /\ asked.path \in Seq(Symbols)
      /\ q \in Seq(Symbols) /\ q # <<>> /\ Len(q) \in Nat \ {0}
      /\ \A i \in 1 .. Len(q) - 1 : q[i] = "/" <=> q[i + 1] # "/"
      /\ asked.path # <<"/">> => q[Len(q)] # "/"
  BY <1>1, CoveredPath
<1>5. /\ path = asked.path /\ traverse = cwd
      \/ \E n \in 1 .. Len(q) - 1 : q[n] = "/" /\ Rest(q, n) /\ traverse = led[n]
  BY <1>1 DEF WInv, Walking
<1>6. /\ led[0] = IF q # <<>> /\ q[1] = "/" THEN ROOT_INODE ELSE cwd
      /\ \A n \in 1 .. Len(q) :
             led[n] = IF q[n] = "/" THEN led[n - 1]
                      ELSE Names!Within(volume, led[n - 1], q[n])
  BY <1>1, <1>4, LedStep
<1>7. \A o \in DOMAIN volume.dir[traverse'] : ~(o < offset')
  <2>1. Directory(traverse')
    BY <1>1, VolumeKinds DEF WInv, PInv, Lookups, Start
  <2>2. IsDirectory(volume.dir[traverse'])
    BY <1>1, <2>1, VolumeKinds
  <2> QED
    BY <1>1, <2>2 DEF IsDirectory
<1> HIDE DEF q, led
<1>8. CASE path = asked.path /\ traverse = cwd /\ q[1] = "/"
  <2>1. Chomp(path) = q /\ q[Len(q)] # "/"
    BY <1>1, <1>4, <1>8 DEF q
  <2>2. Len(q) # 1 /\ 1 \in 1 .. Len(q) - 1 /\ 2 \in 1 .. Len(q)
    BY <1>4, <1>8, <2>1
  <2>3. q[2] # "/"
    BY <1>4, <1>8, <2>2
  <2> DEFINE r == Tail(q)
  <2>4. AfterSlash(q) = r /\ r \in Seq(Symbols) /\ Len(r) = Len(q) - 1
        /\ \A i \in 1 .. Len(r) : r[i] = q[i + 1]
    BY <1>4, <1>8, HeadTailProperties DEF AfterSlash, IsAbsolute
  <2> HIDE DEF r
  <2>5. r # <<>> /\ 1 \in 1 .. Len(r) /\ r[1] = q[2]
    BY <1>4, <2>2, <2>4, EmptySeq
  <2>6. Named(r)
    BY <2>3, <2>5 DEF Named
  <2>7. path' = Tail(r) /\ element' = q[2] /\ traverse' = ROOT_INODE
    BY <1>1, <1>4, <1>8, <2>1, <2>4, <2>5, <2>6 DEF Start, IsAbsolute
  <2>8. Len(path') = Len(q) - 2 /\ \A i \in 1 .. Len(path') : path'[i] = q[2 + i]
    <3>1. Len(path') = Len(r) - 1 /\ \A i \in 1 .. Len(path') : path'[i] = r[i + 1]
      BY <2>4, <2>5, <2>7, HeadTailProperties
    <3>2. ASSUME NEW i \in 1 .. Len(path') PROVE path'[i] = q[2 + i]
      <4> DEFINE k == i + 1
      <4>1. k \in 1 .. Len(r) /\ k + 1 = 2 + i
        BY <1>4, <2>4, <3>1
      <4>2. path'[i] = r[k]
        BY <3>1
      <4> HIDE DEF k
      <4> QED
        BY <2>4, <4>1, <4>2
    <3>3. Len(r) - 1 = Len(q) - 2
      BY <1>4, <2>4
    <3> QED
      BY <3>1, <3>2, <3>3
  <2>9. led[1] = ROOT_INODE
    BY <1>4, <1>6, <1>8, <2>2
  <2>10. OnPath(2)
    BY <1>7, <2>3, <2>7, <2>8, <2>9
  <2> HIDE DEF OnPath
  <2> QED
    BY <2>2, <2>10
<1>9. CASE path = asked.path /\ traverse = cwd /\ q[1] # "/"
  <2>1. Chomp(path) = q /\ AfterSlash(q) = q /\ Named(q) /\ ~IsAbsolute(q)
    BY <1>4, <1>9 DEF q, AfterSlash, IsAbsolute, Named
  <2>2. path' = Tail(q) /\ element' = q[1] /\ traverse' = cwd /\ 1 \in 1 .. Len(q)
    BY <1>1, <1>4, <1>9, <2>1 DEF Start
  <2>3. Len(path') = Len(q) - 1 /\ \A i \in 1 .. Len(path') : path'[i] = q[1 + i]
    <3>1. Len(path') = Len(q) - 1 /\ \A i \in 1 .. Len(path') : path'[i] = q[i + 1]
      BY <1>4, <2>2, HeadTailProperties
    <3>2. \A i \in 1 .. Len(path') : i + 1 = 1 + i
      BY <1>4, <3>1
    <3> QED
      BY <3>1, <3>2
  <2>4. led[0] = cwd
    BY <1>6, <1>9
  <2>5. OnPath(1)
    BY <1>7, <1>9, <2>2, <2>3, <2>4
  <2> HIDE DEF OnPath
  <2> QED
    BY <2>2, <2>5
<1>10. CASE \E n \in 1 .. Len(q) - 1 : q[n] = "/" /\ Rest(q, n) /\ traverse = led[n]
  <2>1. PICK n \in 1 .. Len(q) - 1 : q[n] = "/" /\ Rest(q, n) /\ traverse = led[n]
    BY <1>10
  <2>2. /\ n \in Nat /\ n + 1 \in 1 .. Len(q) /\ q[n + 1] # "/" /\ (n + 1) - 1 = n
        /\ Len(path) = Len(q) - n /\ \A i \in 1 .. Len(path) : path[i] = q[n + i]
        /\ Len(path) \in Nat \ {0}
    BY <1>4, <2>1 DEF Rest
  <2>3. q[Len(q)] # "/"
    <3>1. CASE asked.path = <<"/">>
      <4>1. q = <<"/">>
        BY <3>1 DEF q, Chomp
      <4> QED
        BY <2>1, <4>1
    <3> QED
      BY <1>4, <3>1
  <2>4. path # <<>> /\ path[1] # "/" /\ path[1] = q[n + 1]
    BY <1>1, <2>2, EmptySeq
  <2>5. path[Len(path)] # "/"
    <3> DEFINE k == Len(path)
    <3>1. k \in 1 .. Len(path) /\ n + k = Len(q)
      BY <1>4, <2>2
    <3> HIDE DEF k
    <3>2. path[k] = q[Len(q)]
      BY <2>2, <3>1
    <3> QED
      BY <2>3, <3>2 DEF k
  <2>6. Chomp(path) = path /\ AfterSlash(path) = path /\ Named(path) /\ ~IsAbsolute(path)
    BY <1>1, <2>4, <2>5, ChompSame DEF AfterSlash, IsAbsolute, Named
  <2>7. path' = Tail(path) /\ element' = q[n + 1] /\ traverse' = led[n]
    BY <1>1, <2>1, <2>4, <2>6 DEF Start
  <2>8. Len(path') = Len(q) - (n + 1) /\ \A i \in 1 .. Len(path') : path'[i] = q[n + 1 + i]
    <3>1. Len(path') = Len(path) - 1 /\ \A i \in 1 .. Len(path') : path'[i] = path[i + 1]
      BY <1>1, <2>4, <2>7, HeadTailProperties
    <3>2. ASSUME NEW i \in 1 .. Len(path') PROVE path'[i] = q[n + 1 + i]
      <4> DEFINE k == i + 1
      <4>1. k \in 1 .. Len(path) /\ n + k = n + 1 + i
        BY <2>2, <3>1
      <4>2. path'[i] = path[k]
        BY <3>1
      <4> HIDE DEF k
      <4> QED
        BY <2>2, <4>1, <4>2
    <3>3. Len(path) - 1 = Len(q) - (n + 1)
      BY <1>4, <2>2
    <3> QED
      BY <3>1, <3>2, <3>3
  <2>9. OnPath(n + 1)
    BY <1>7, <2>2, <2>7, <2>8
  <2> HIDE DEF OnPath
  <2> QED
    BY <2>2, <2>9
<1> QED
  BY <1>5, <1>8, <1>9, <1>10

LEMMA ScansOnPath ==
    ASSUME WInv, Scan
    PROVE  Walking'
<1> DEFINE q == Chomp(asked.path)
           led == Led(cwd, q)
           dir == volume.dir[traverse]
           rec == dir[offset]
<1>1. /\ pc = "scan" /\ active /\ volume \in Volumes /\ cwd \in Inodes
      /\ asked \in [path : Paths, use : {"open", "chdir"}]
      /\ UNCHANGED <<volume, active, cwd, asked, path, traverse, element>>
  BY DEF WInv, PInv, TypeOK, Calls, Scan
<1> SUFFICES ASSUME Covered(volume, cwd, asked.path) PROVE Walking'
  BY <1>1 DEF Walking
<1>2. /\ q \in Seq(Symbols) /\ Len(q) \in Nat \ {0} /\ q # <<>>
      /\ asked.path \in Seq(Symbols) /\ Tidy(volume) /\ Listed(volume)
  BY <1>1, CoveredPath
<1>3. PICK n \in 1 .. Len(q) :
          /\ q[n] # "/" /\ q[n] = element /\ Rest(q, n) /\ traverse = led[n - 1]
          /\ \A o \in DOMAIN dir : o < offset => dir[o].name # element
  BY <1>1 DEF WInv, Walking
<1>4. led[n] = Child(volume, traverse, element) /\ Directory(traverse)
  <2>1. Directory(traverse)
    BY <1>1 DEF WInv, PInv, Lookups
  <2>2. led[n] = Names!Within(volume, traverse, element)
    BY <1>1, <1>2, <1>3, LedStep
  <2>3. traverse # 0 /\ IsDir(volume, traverse)
    BY <1>1, <2>1, VolumeKinds DEF Directory, IsDir
  <2> QED
    BY <2>1, <2>2, <2>3 DEF Names!Within
<1>5. /\ IsDirectory(dir) /\ offset \in DOMAIN dir /\ offset \in Nat
      /\ offset <= LastRecord(dir) /\ LastRecord(dir) \in Nat /\ BLOCK \in Nat
      /\ LastRecord(dir) < BLOCK
      /\ \A o \in DOMAIN dir : o < BLOCK => o <= LastRecord(dir)
      /\ rec.len > ENTRY => offset = LastRecord(dir)
      /\ rec.len # 0 /\ rec.len \in Nat /\ ENTRY \in Nat
  <2>1. IsDirectory(dir)
    BY <1>1, <1>4, VolumeKinds
  <2>2. offset \in DOMAIN dir /\ offset <= LastRecord(dir)
    BY <1>1, <1>2 DEF WInv, PInv, ScanInside
  <2>3. offset \in Nat /\ rec.len \in Nat
    BY <2>1, <2>2 DEF IsDirectory
  <2>4. /\ LastRecord(dir) \in Nat /\ LastRecord(dir) < BLOCK /\ BLOCK \in Nat
        /\ ENTRY \in Nat
        /\ \A o \in DOMAIN dir : o < BLOCK => o <= LastRecord(dir)
    BY <2>1, LastRecordIsLast, PathAssumption
  <2>5. rec.len > ENTRY => offset = LastRecord(dir)
    BY <1>2, <1>4, <2>2 DEF Tidy, Directory, IsDir
  <2>6. offset < BLOCK
    BY <2>2, <2>3, <2>4
  <2>7. rec.len # 0
    BY <1>2, <1>4, <2>2, <2>6 DEF Listed, Directory, IsDir
  <2> QED
    BY <2>1, <2>2, <2>3, <2>4, <2>5, <2>7
<1>6. RecordAt(traverse, offset) = rec /\ offset <= BLOCK /\ Sound(rec) /\ offset < BLOCK
  <2>1. RecordAt(traverse, offset) = rec
    BY <1>5 DEF RecordAt
  <2>2. Sound(RecordAt(traverse, offset))
    BY <1>1, <1>2, ScanInTidy DEF WInv, Covered
  <2>3. offset <= BLOCK /\ offset < BLOCK
    BY <1>5
  <2> QED
    BY <2>1, <2>2, <2>3
<1> HIDE DEF q, led, rec
<1>7. CASE rec.name = element
  <2>1. pc' = "down" /\ found' = rec.inode
    BY <1>5, <1>6, <1>7 DEF Scan
  <2>2. Child(volume, traverse, element) = rec.inode
    BY <1>1, <1>2, <1>4, <1>5, <1>6, <1>7, RecordIsChild DEF rec
  <2>3. Rest(q, n)'
    BY <1>1, <1>3 DEF Rest, q
  <2>4. \E m \in 1 .. Len(q) : q[m] # "/" /\ Rest(q, m)' /\ found' = led[m]
    BY <1>3, <1>4, <2>1, <2>2, <2>3
  <2> QED
    BY <1>1, <2>1, <2>4 DEF Walking, Rest, q, led, Led
<1>8. CASE rec.name # element /\ rec.len > ENTRY
  <2>1. pc' = "answer" /\ reply' = 0
    BY <1>5, <1>6, <1>8 DEF Scan, Return
  <2>2. ASSUME NEW o \in DOMAIN dir, o < BLOCK PROVE dir[o].name # element
    <3>1. o \in Nat /\ o <= offset
      BY <1>5, <1>8, <2>2 DEF IsDirectory
    <3>2. CASE o = offset
      BY <1>8, <3>2 DEF rec
    <3>3. CASE o < offset
      BY <1>3, <3>3
    <3> QED
      BY <1>5, <3>1, <3>2, <3>3
  <2>3. led[n] = 0
    BY <1>4, <2>2, NoRecordNoChild
  <2>4. n \in 0 .. Len(q)
    BY <1>2
  <2>5. led[Len(q)] = 0
    BY <1>1, <1>2, <2>3, <2>4, LedOn DEF led
  <2>6. Names!Resolve(volume, cwd, asked.path) = 0
    BY <1>1, <1>2, <2>5, ResolveChomped DEF led, q
  <2> QED
    BY <1>1, <2>1, <2>6 DEF Walking
<1>9. CASE rec.name # element /\ ~(rec.len > ENTRY)
  <2>1. UNCHANGED pc /\ offset' = offset + rec.len
    BY <1>5, <1>6, <1>9 DEF Scan
  <2>2. ASSUME NEW o \in DOMAIN dir, o < offset' PROVE dir[o].name # element
    <3>1. o \in Nat
      BY <1>5 DEF IsDirectory
    <3>2. ~(offset < o)
      <4> SUFFICES ASSUME offset < o PROVE FALSE
        OBVIOUS
      <4>1. offset + rec.len <= o
        BY <1>5 DEF IsDirectory, rec
      <4> QED
        BY <1>5, <2>1, <2>2, <3>1, <4>1
    <3>3. CASE o = offset
      BY <1>9, <3>3 DEF rec
    <3>4. CASE o < offset
      BY <1>3, <3>4
    <3> QED
      BY <1>5, <3>1, <3>2, <3>3, <3>4
  <2>3. Rest(q, n)'
    BY <1>1, <1>3 DEF Rest, q
  <2>4. \E m \in 1 .. Len(q) :
            /\ q[m] # "/" /\ q[m] = element /\ Rest(q, m)' /\ traverse = led[m - 1]
            /\ \A o \in DOMAIN dir : o < offset' => dir[o].name # element
    BY <1>3, <2>2, <2>3
  <2> QED
    BY <1>1, <2>1, <2>4 DEF Walking, Rest, q, led, Led
<1> QED
  BY <1>7, <1>8, <1>9

LEMMA DownOnPath ==
    ASSUME WInv, Down
    PROVE  Walking'
<1> DEFINE q == Chomp(asked.path)
           led == Led(cwd, q)
<1>1. /\ pc = "down" /\ active /\ volume \in Volumes /\ cwd \in Inodes
      /\ asked \in [path : Paths, use : {"open", "chdir"}] /\ path \in Seq(Symbols)
      /\ Usable(found)
      /\ UNCHANGED <<volume, active, cwd, asked, element, offset, found>>
  BY DEF WInv, PInv, TypeOK, Lookups, Calls, Down
<1> SUFFICES ASSUME Covered(volume, cwd, asked.path) PROVE Walking'
  BY <1>1 DEF Walking
<1>2. /\ q \in Seq(Symbols) /\ Len(q) \in Nat \ {0} /\ q # <<>>
      /\ asked.path \in Paths /\ asked.path \in Seq(Symbols)
      /\ \A i \in 1 .. Len(q) - 1 : q[i] = "/" <=> q[i + 1] # "/"
      /\ asked.path # <<"/">> => q[Len(q)] # "/"
  BY <1>1, CoveredPath
<1>3. PICK n \in 1 .. Len(q) : q[n] # "/" /\ Rest(q, n) /\ found = led[n]
  BY <1>1 DEF WInv, Walking
<1>4. /\ n \in Nat /\ Len(path) = Len(q) - n
      /\ \A i \in 1 .. Len(path) : path[i] = q[n + i]
  BY <1>2, <1>3 DEF Rest
<1>5. Names!Resolve(volume, cwd, asked.path) = led[Len(q)]
  BY <1>1, <1>2, ResolveChomped
<1>6. CASE path = <<>>
  <2>1. Len(path) = 0
    BY <1>6
  <2>2. n = Len(q)
    BY <1>2, <1>4, <2>1
  <2>3. pc' = "answer" /\ reply' = found
    BY <1>6 DEF Down, Return
  <2>4. reply' = Names!Resolve(volume, cwd, asked.path)
    BY <1>3, <1>5, <2>2, <2>3
  <2> QED
    BY <1>1, <2>3, <2>4 DEF Walking
<1>7. CASE path # <<>>
  <2>1. Len(path) \in Nat \ {0}
    BY <1>1, <1>7, EmptySeq
  <2>2. n \in 1 .. Len(q) - 1 /\ n + 1 \in 1 .. Len(q) /\ 1 \in 1 .. Len(path)
    BY <1>2, <1>4, <2>1
  <2>3. q[n + 1] = "/" /\ path[1] = "/"
    BY <1>2, <1>3, <1>4, <2>2
  <2>4. volume.kind[found] = "dir"
    <3> DEFINE b == SubSeq(q, 1, n)
    <3> SUFFICES ASSUME ~IsDir(volume, found) PROVE FALSE
      BY DEF IsDir
    <3>1. \A i \in 1 .. n : q[i] \in Symbols
      BY <1>2, <2>2
    <3>2. /\ b \in Seq(Symbols) /\ Len(b) = n
          /\ \A i \in 1 .. Len(b) : b[i] = q[i]
      <4>1. /\ b \in Seq(Symbols) /\ Len(b) = IF 1 <= n THEN n - 1 + 1 ELSE 0
            /\ \A i \in 1 .. n - 1 + 1 : b[i] = q[1 + i - 1]
        BY <1>4, <3>1, SubSeqProperties
      <4> QED
        BY <2>2, <4>1
    <3> HIDE DEF b
    <3>3. b # <<>> /\ Len(b) <= Len(q) /\ n \in 0 .. Len(b)
      BY <1>2, <1>4, <2>2, <3>2, EmptySeq
    <3>4. Led(cwd, b)[n] = led[n]
      <4>1. volume \in Volumes /\ cwd \in Inodes /\ q \in Seq(Symbols)
        BY <1>1, <1>2
      <4>2. b \in Seq(Symbols) /\ \A i \in 1 .. Len(b) : b[i] = q[i]
        BY <3>2
      <4> HIDE DEF q
      <4>3. \A k \in 0 .. Len(b) : Led(cwd, b)[k] = Led(cwd, q)[k]
        BY <3>3, <4>1, <4>2, LedPrefix
      <4> QED
        BY <3>3, <4>3
    <3>5. Names!Resolve(volume, cwd, b) = found
      BY <1>3, <3>2, <3>3, <3>4 DEF Names!Resolve, Led
    <3>6. found # 0
      BY <1>1, VolumeKinds DEF Usable
    <3>7. ThroughFile(volume, cwd, asked.path)
      BY <1>3, <2>2, <2>3, <3>5, <3>6 DEF ThroughFile, b
    <3> QED
      BY <3>7 DEF Covered
  <2>5. traverse' = found /\ path' = Tail(path) /\ pc' = "enter"
    BY <1>7, <2>4 DEF Down
  <2>6. n + 1 # Len(q)
    <3>1. q[Len(q)] # "/"
      <4>1. CASE asked.path = <<"/">>
        <5>1. q = <<"/">>
          BY <4>1 DEF Chomp
        <5> QED
          BY <1>3, <5>1
      <4> QED
        BY <1>2, <4>1
    <3> QED
      BY <2>3, <3>1
  <2> DEFINE m == n + 1
  <2>7. m \in 1 .. Len(q) - 1 /\ m \in 1 .. Len(q) /\ m - 1 = n /\ q[m] = "/"
    BY <1>2, <1>4, <2>2, <2>3, <2>6
  <2>8. Len(path') = Len(q) - m /\ \A i \in 1 .. Len(path') : path'[i] = q[m + i]
    <3>1. Len(path') = Len(path) - 1 /\ \A i \in 1 .. Len(path') : path'[i] = path[i + 1]
      BY <1>1, <1>7, <2>5, HeadTailProperties
    <3>2. ASSUME NEW i \in 1 .. Len(path') PROVE path'[i] = q[m + i]
      <4> DEFINE k == i + 1
      <4>1. k \in 1 .. Len(path) /\ n + k = m + i
        BY <1>4, <2>1, <3>1
      <4>2. path'[i] = path[k]
        BY <3>1
      <4> HIDE DEF k
      <4> QED
        BY <1>4, <4>1, <4>2
    <3> QED
      BY <1>2, <1>4, <3>1, <3>2
  <2> HIDE DEF m
  <2>9. led[m] = found
    BY <1>1, <1>2, <1>3, <2>7, LedStep
  <2> HIDE DEF q, led
  <2>10. \E k \in 1 .. Len(q) - 1 :
             /\ q[k] = "/" /\ traverse' = led[k] /\ Len(path') = Len(q) - k
             /\ \A i \in 1 .. Len(path') : path'[i] = q[k + i]
    BY <2>5, <2>7, <2>8, <2>9
  <2> QED
    BY <1>1, <2>5, <2>10 DEF Walking, Rest, q, led, Led
<1> QED
  BY <1>6, <1>7

LEMMA RestOnPath ==
    ASSUME WInv, EnterRoot
    PROVE  Walking'
<1> DEFINE q == Chomp(asked.path)
           led == Led(cwd, q)
<1>1. /\ pc = "enter" /\ path = <<"/">> /\ pc' = "answer" /\ reply' = ROOT_INODE
      /\ volume \in Volumes /\ cwd \in Inodes
      /\ asked \in [path : Paths, use : {"open", "chdir"}]
      /\ UNCHANGED <<volume, active, cwd, asked, path, traverse, element, offset, found>>
  BY DEF WInv, PInv, TypeOK, Calls, EnterRoot, Return
<1> SUFFICES ASSUME active, Covered(volume, cwd, asked.path)
             PROVE  Names!Resolve(volume, cwd, asked.path) = ROOT_INODE
  BY <1>1 DEF Walking
<1>2. /\ q \in Seq(Symbols) /\ Len(q) \in Nat \ {0} /\ q # <<>>
      /\ asked.path \in Paths /\ asked.path \in Seq(Symbols)
      /\ \A i \in 1 .. Len(q) - 1 : q[i] = "/" <=> q[i + 1] # "/"
  BY <1>1, CoveredPath
<1>3. path = asked.path
      \/ \E n \in 1 .. Len(q) - 1 : q[n] = "/" /\ Rest(q, n)
  BY <1>1 DEF WInv, Walking
<1>4. path = asked.path
  <2> SUFFICES ASSUME NEW n \in 1 .. Len(q) - 1, q[n] = "/", Rest(q, n) PROVE FALSE
    BY <1>3
  <2>1. path[1] = "/" /\ Len(path) = 1
    BY <1>1
  <2>2. path[1] = q[n + 1]
    BY <2>1 DEF Rest
  <2> QED
    BY <1>2, <2>1, <2>2
<1>5. q = <<"/">>
  <2>1. asked.path = <<"/">>
    BY <1>1, <1>4
  <2> QED
    BY <2>1 DEF Chomp
<1>6. Names!Resolve(volume, cwd, asked.path) = led[Len(q)]
  BY <1>1, <1>2, ResolveChomped
<1>7. /\ led[0] = IF q # <<>> /\ q[1] = "/" THEN ROOT_INODE ELSE cwd
      /\ \A n \in 1 .. Len(q) :
             led[n] = IF q[n] = "/" THEN led[n - 1]
                      ELSE Names!Within(volume, led[n - 1], q[n])
  BY <1>1, <1>2, LedStep
<1> HIDE DEF led, q
<1>8. Len(q) = 1 /\ q[1] = "/" /\ q # <<>>
  BY <1>2, <1>5
<1> QED
  BY <1>6, <1>7, <1>8

\* A lookup remembers its caller until it answers.
LEMMA CallsKeep ==
    ASSUME WInv, [Next]_vars
    PROVE  Calls'
<1>1. Calls /\ pc \in {"idle", "enter", "scan", "down", "answer", "hung"}
  BY DEF WInv, PInv, TypeOK
<1>2. ASSUME NEW p \in Paths, NEW use \in {"open", "chdir"}, Call(p, use) PROVE Calls'
  <2>1. /\ asked' = [path |-> p, use |-> use] /\ path' = p /\ UNCHANGED active
        /\ IF use = "chdir" /\ ~active THEN pc' = "answer" /\ reply' = 0
           ELSE pc' = "enter" /\ reply' = 0
    BY <1>2 DEF Call, Return
  <2> QED
    BY <2>1 DEF Calls
<1>3. CASE EnterRoot
  BY <1>1, <1>3 DEF Calls, EnterRoot, Return
<1>4. CASE EnterUnmounted
  BY <1>1, <1>4 DEF Calls, EnterUnmounted, Return
<1>5. CASE EnterElement
  <2>1. /\ pc = "enter" /\ active /\ UNCHANGED <<active, asked, reply>>
        /\ pc' \in {"scan", "hung"}
    BY <1>5 DEF EnterElement, Hang
  <2> QED
    BY <1>1, <2>1 DEF Calls
<1>6. CASE Scan
  <2>1. pc = "scan" /\ active /\ UNCHANGED <<active, asked>>
    BY <1>1, <1>6 DEF Calls, Scan
  <2>2. \/ pc' \in {"scan", "down", "hung"} /\ UNCHANGED reply
        \/ pc' = "answer"
    BY <1>6, <2>1 DEF Scan, Return, Hang
  <2> QED
    BY <1>1, <2>1, <2>2 DEF Calls
<1>7. CASE Down
  <2>1. pc = "down" /\ active /\ UNCHANGED <<active, asked>>
    BY <1>1, <1>7 DEF Calls, Down
  <2>2. (pc' = "enter" /\ UNCHANGED reply) \/ pc' = "answer"
    BY <1>7 DEF Down, Return
  <2> QED
    BY <1>1, <2>1, <2>2 DEF Calls
<1>8. CASE Answer
  <2>1. pc' \in {"idle", "hung"} /\ asked' = NoCall
    BY <1>8 DEF Answer
  <2> QED
    BY <2>1 DEF Calls
<1>9. CASE UNCHANGED vars
  BY <1>1, <1>9 DEF vars, Calls
<1>10. Halted => UNCHANGED vars
  BY DEF Halted
<1> QED
  BY <1>2, <1>3, <1>4, <1>5, <1>6, <1>7, <1>8, <1>9, <1>10 DEF Next, Lookup

LEMMA WNext == WInv /\ [Next]_vars => WInv'
<1> SUFFICES ASSUME WInv, [Next]_vars PROVE WInv'
  OBVIOUS
<1>1. PInv' /\ Calls'
  BY PNext, CallsKeep DEF WInv
<1> SUFFICES Walking'
  BY <1>1 DEF WInv
<1>2. ASSUME NEW p \in Paths, NEW use \in {"open", "chdir"}, Call(p, use)
      PROVE  Walking'
  <2>1. /\ UNCHANGED <<active, cwd>> /\ asked'.path = p /\ path' = p /\ traverse' = cwd
        /\ active => pc' = "enter"
    BY <1>2 DEF Call
  <2> QED
    BY <2>1 DEF Walking
<1>3. CASE EnterRoot
  BY <1>3, RestOnPath
<1>4. CASE EnterUnmounted
  BY <1>4 DEF EnterUnmounted, Walking
<1>5. CASE EnterElement
  BY <1>5, EntersOnPath
<1>6. CASE Scan
  BY <1>6, ScansOnPath
<1>7. CASE Down
  BY <1>7, DownOnPath
<1>8. CASE Answer
  <2>1. pc' \in {"idle", "hung"}
    BY <1>8 DEF Answer
  <2> QED
    BY <2>1 DEF Walking
<1>9. CASE UNCHANGED vars
  BY <1>9 DEF vars, WInv, Walking, Rest, Led
<1>10. Halted => UNCHANGED vars
  BY DEF Halted
<1> QED
  BY <1>2, <1>3, <1>4, <1>5, <1>6, <1>7, <1>8, <1>9, <1>10 DEF Next, Lookup

LEMMA WInit == Init => WInv
<1> SUFFICES ASSUME Init PROVE WInv
  OBVIOUS
<1>1. pc = "idle" /\ asked = NoCall
  BY DEF Init
<1> QED
  BY <1>1, PInit DEF WInv, Calls, Walking

-----------------------------------------------------------------------------
\* What the caller sees of each step.

LEMMA ResolvesAgree ==
    ASSUME NEW from, NEW p
    PROVE  Promise!Resolve(volume, from, p) = Names!Resolve(volume, from, p)
BY Zenon DEF Promise!Resolve, Names!Resolve, Promise!Walked, Names!Walked,
             Promise!Within, Names!Within

LEMMA CallIsRequest ==
    ASSUME WInv, NEW p \in Paths, NEW use \in {"open", "chdir"}, Call(p, use)
    PROVE  Promise!Request(p, use)
<1>1. /\ asked = NoCall /\ asked' = [path |-> p, use |-> use]
      /\ UNCHANGED <<volume, active, cwd>> /\ pc' \in {"enter", "answer"}
  BY DEF WInv, Calls, Call, Return
<1> QED
  BY <1>1 DEF Promise!Request, Promise!NoRequest, NoCall

LEMMA LookingIsStuttering ==
    ASSUME WInv, EnterRoot \/ EnterUnmounted \/ EnterElement \/ Scan \/ Down
    PROVE  UNCHANGED Promise!lookupVars
<1>1. pc \in {"enter", "scan", "down"} /\ UNCHANGED <<volume, active, cwd, asked>>
  BY DEF EnterRoot, EnterUnmounted, EnterElement, Scan, Down
<1>2. \/ pc' \in {"enter", "scan", "down", "answer"}
      \/ pc' = "hung" /\ reply' = reply
  BY <1>1 DEF EnterRoot, EnterUnmounted, EnterElement, Scan, Down, Return, Hang
<1>3. reply = 0
  BY <1>1 DEF WInv, Calls
<1> QED
  BY <1>1, <1>2, <1>3 DEF Promise!lookupVars

LEMMA AnswerIsReply ==
    ASSUME WInv, Answer
    PROVE  Promise!Reply \/ Promise!Anything
<1> DEFINE test == IF asked.use = "chdir" /\ reply # 0 THEN isdirectory(reply)
                   ELSE "none"
<1>1. /\ pc = "answer" /\ asked \in [path : Paths, use : {"open", "chdir"}]
      /\ asked' = NoCall /\ UNCHANGED <<volume, active, reply>>
      /\ reply \in Inodes \cup {0} /\ (reply # 0 => Usable(reply))
      /\ volume \in Volumes
      /\ cwd' = IF test = "true" THEN reply ELSE cwd
      /\ pc' = IF test = "asserts" THEN "hung" ELSE "idle"
  BY DEF WInv, PInv, TypeOK, Lookups, Calls, Answer
<1>2. reply # 0 =>
          /\ isdirectory(reply) # "asserts"
          /\ isdirectory(reply) = "true" <=> active /\ IsDir(volume, reply)
  BY <1>1, VolumeKinds DEF Usable, isdirectory, InodeLookup, IsDir
<1>3. ~active => reply = 0 \/ asked.use # "chdir"
  BY <1>1 DEF WInv, Calls
<1>4. /\ test # "asserts"
      /\ test = "true" <=> asked.use = "chdir" /\ reply # 0 /\ IsDir(volume, reply)
  BY <1>1, <1>2, <1>3
<1> HIDE DEF test
<1>5. pc' = "idle"
  BY <1>1, <1>4
<1>6. cwd' = IF asked.use = "chdir" /\ reply # 0 /\ IsDir(volume, reply)
             THEN reply ELSE cwd
  BY <1>1, <1>4
<1>7. Promise!Goes(reply) /\ asked # Promise!NoRequest /\ asked' = Promise!NoRequest
  BY <1>1, <1>6 DEF Promise!Goes, Promise!NoRequest, NoCall
<1>8. CASE ~active
  <2>1. reply = IF asked.path = <<"/">> /\ asked.use # "chdir" THEN ROOT_INODE ELSE 0
    BY <1>1, <1>8 DEF WInv, Calls
  <2> QED
    BY <1>1, <1>5, <1>7, <1>8, <2>1 DEF Promise!Reply
<1>9. CASE active /\ Covered(volume, cwd, asked.path)
  <2>1. reply = Promise!Resolve(volume, cwd, asked.path)
    BY <1>1, <1>9, ResolvesAgree DEF WInv, Walking
  <2> QED
    BY <1>1, <1>5, <1>7, <1>9, <2>1 DEF Promise!Reply
<1>10. CASE active /\ ~Covered(volume, cwd, asked.path)
  BY <1>1, <1>5, <1>7, <1>10 DEF Promise!Anything
<1> QED
  BY <1>1, <1>8, <1>9, <1>10 DEF WInv, PInv, TypeOK

LEMMA StepIsPromised == WInv /\ [Next]_vars => [Promise!LookupNext]_(Promise!lookupVars)
<1> SUFFICES ASSUME WInv, [Next]_vars
             PROVE  Promise!LookupNext \/ UNCHANGED Promise!lookupVars
  OBVIOUS
<1>1. ASSUME NEW p \in Paths, NEW use \in {"open", "chdir"}, Call(p, use)
      PROVE  Promise!LookupNext
  BY <1>1, CallIsRequest DEF Promise!LookupNext
<1>2. Answer => Promise!LookupNext
  BY AnswerIsReply DEF Promise!LookupNext
<1>3. EnterRoot \/ EnterUnmounted \/ EnterElement \/ Scan \/ Down
          => UNCHANGED Promise!lookupVars
  BY LookingIsStuttering
<1>4. UNCHANGED vars => UNCHANGED Promise!lookupVars
  BY DEF vars, Promise!lookupVars
<1>5. Halted => UNCHANGED vars
  BY DEF Halted
<1> QED
  BY <1>1, <1>2, <1>3, <1>4, <1>5 DEF Next, Lookup

LEMMA InitIsPromised == Init => Promise!LookupInit
BY DEF Init, Promise!LookupInit, Promise!NoRequest, NoCall

\* Refinement: ext2_path_to_inode(), its scans of directories and its recursion
\* included, answers what POSIX says a path names, started at the root or at the
\* directory kchdir() last went to, and kchdir() goes there if it is a directory;
\* whatever the volume, the path and the calls before it.
THEOREM LookupIsPathLookup == Spec => Promise!LookupSafe
<1>1. Init => WInv
  BY WInit
<1>2. WInv /\ [Next]_vars => WInv'
  BY WNext
<1>3. Init => Promise!LookupInit
  BY InitIsPromised
<1>4. WInv /\ [Next]_vars => [Promise!LookupNext]_(Promise!lookupVars)
  BY StepIsPromised
<1> QED
  BY <1>1, <1>2, <1>3, <1>4, PTL DEF Spec, Promise!LookupSafe
=============================================================================
