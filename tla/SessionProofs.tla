---------------------------- MODULE SessionProofs ---------------------------
(***************************************************************************)
(* The session around the mounted volume: whatever disks are selected and   *)
(* whatever programs do, programs and the shell's own reads run on a        *)
(* mounted volume, the current directory is one of its live directories     *)
(* unless a program wrote the drive raw, and the bitmap a create writes     *)
(* back is that volume's.                                                   *)
(*                                                                          *)
(* SInv, which is about the volume, needs none of the descriptor table's    *)
(* invariants.  FInv adds those that a change of disk keeps, and follows    *)
(* the descriptor of a command from its open to its close.                  *)
(***************************************************************************)
EXTENDS Session, FileTableProofs

\* What the properties rest on: the volume ext2_rootfs says is active is the one
\* in the selected drive, unless the probe of another has stopped the machine;
\* and a drive no program wrote raw holds what it did at boot.
ActiveMounted == active /\ ~hung => content[drive] \in Served
Untouched ==
    /\ content \in [Drives -> Contents] /\ drive \in Drives
    /\ \A d \in Drives \ raw : content[d] = FirstContent[d]
SInv == ActiveMounted /\ Untouched /\ RunsOnlyMounted /\ CwdIsLiveDirectory

\* A call, of a program or of the shell, runs on a machine that has not stopped;
\* it leaves the drive and the mount alone, and moves, if at all, to a directory.
CallKeepsVolume == ~hung /\ MountStep

-----------------------------------------------------------------------------
LEMMA VolumeKept == UNCHANGED volume => MountStep
BY DEF volume, MountStep

LEMMA OpenKeeps ==
    ASSUME NEW path, NEW creat, KOpen(path, creat)
    PROVE  CallKeepsVolume
BY VolumeKept DEF KOpen, CallKeepsVolume

LEMMA CloseKeeps ==
    ASSUME NEW fd, KClose(fd)
    PROVE  CallKeepsVolume /\ UNCHANGED bitmap
BY VolumeKept DEF KClose, alloc, CallKeepsVolume, volume

LEMMA ReadKeeps ==
    ASSUME NEW fd, NEW count, KRead(fd, count)
    PROVE  CallKeepsVolume /\ UNCHANGED bitmap
BY VolumeKept DEF KRead, alloc, CallKeepsVolume, volume

LEMMA SeekKeeps ==
    ASSUME NEW fd, NEW by, NEW whence, KLseek(fd, by, whence)
    PROVE  CallKeepsVolume /\ UNCHANGED bitmap
BY VolumeKept DEF KLseek, alloc, CallKeepsVolume, volume

LEMMA StatKeeps ==
    ASSUME NEW path, KStat(path)
    PROVE  CallKeepsVolume /\ UNCHANGED bitmap
BY VolumeKept DEF KStat, alloc, CallKeepsVolume, volume

LEMMA SystemCallKeeps ==
    ASSUME SystemCall
    PROVE  CallKeepsVolume
BY SystemCallMount
   DEF SystemCall, CallKeepsVolume, KOpen, KClose, KRead, KWrite, KLseek, KFcntl,
       KChdir, KStat, BlkdevCall

\* An open that does not create succeeds on a mounted volume only, and leaves
\* the bitmap alone.
LEMMA ReadingOpen ==
    ASSUME NEW path, KOpen(path, FALSE)
    PROVE  /\ CallKeepsVolume
           /\ UNCHANGED bitmap
           /\ ret'.val # -1 => active
<1>0. CASE OpenHangs(path)
  BY <1>0, OpenKeeps DEF OpenHangs, alloc, Hang, Keep, Reply
<1>1. CASE OpenMissing(path)
  BY <1>1, OpenKeeps DEF OpenMissing, alloc, Fail, Reply
<1>2. CASE OpenNotLive(path)
  BY <1>2, OpenKeeps DEF OpenNotLive, alloc, Fail, Reply
<1>3. CASE OpenFound(path)
  BY <1>3, OpenKeeps DEF OpenFound, alloc, InodeLookup, InodeRead
<1> QED
  BY <1>0, <1>1, <1>2, <1>3 DEF KOpen

-----------------------------------------------------------------------------
LEMMA SInitInv == SInit => SInv
<1> SUFFICES ASSUME SInit PROVE SInv
  OBVIOUS
<1>1. ActiveMounted /\ RunsOnlyMounted
  BY DEF SInit, Init, ActiveMounted, RunsOnlyMounted, Served
<1>2. CwdIsLiveDirectory
  BY TableAssumption, VolumeAssumption DEF SInit, Init, CwdIsLiveDirectory, Inode
<1>3. Untouched
  BY TableAssumption DEF SInit, Init, Untouched
<1> QED
  BY <1>1, <1>2, <1>3 DEF SInv

\* After a call the volume is what SInv says; who may run is left to the step.
LEMMA ServedGrows == MountStep => Served \subseteq Served'
<1>1. MountStep => raw' = raw \/ raw' # {}
  BY DEF MountStep
<1> QED
  BY <1>1 DEF Served

LEMMA KeptVolume ==
    ASSUME SInv, CallKeepsVolume
    PROVE  ActiveMounted' /\ Untouched' /\ CwdIsLiveDirectory'
<1>1. UNCHANGED <<active, drive>> /\ ~hung
  BY DEF CallKeepsVolume, MountStep
<1>2. CASE UNCHANGED <<content, raw>>
  <2>1. UNCHANGED cwd_inode \/ (cwd_inode' # 0 /\ Inode(cwd_inode').mode = "dir") \/ drive \in raw
    BY <1>2 DEF CallKeepsVolume, MountStep
  <2>2. CASE drive \in raw
    BY <1>1, <1>2, <2>2
       DEF SInv, CallKeepsVolume, MountStep, ActiveMounted, Untouched,
           CwdIsLiveDirectory, Served, Inode
  <2> QED
    BY <1>1, <1>2, <2>1, <2>2
       DEF SInv, ActiveMounted, Untouched, CwdIsLiveDirectory, Served, Inode
<1>3. CASE /\ raw' = raw \cup {drive} /\ UNCHANGED cwd_inode
           /\ \E c \in RawContents \cup {content[drive]} :
                  content' = [content EXCEPT ![drive] = c]
  <2>1. PICK c \in RawContents \cup {content[drive]} :
           content' = [content EXCEPT ![drive] = c]
    BY <1>3
  <2>2. drive \in Drives /\ content \in [Drives -> Contents] /\ c \in Contents
    BY TableAssumption DEF SInv, Untouched
  <2>3. /\ content' \in [Drives -> Contents] /\ content'[drive] = c
        /\ \A d \in Drives \ raw' : content'[d] = content[d]
    BY <1>3, <2>1, <2>2
  <2>4. Untouched'
    BY <1>1, <1>3, <2>2, <2>3 DEF SInv, Untouched
  <2>5. ActiveMounted'
    <3>1. RawContents \subseteq Served'
      BY <1>3 DEF Served
    <3>2. active => content[drive] \in Served'
      BY <1>1, ServedGrows DEF SInv, ActiveMounted, CallKeepsVolume
    <3> QED
      BY <1>1, <2>3, <3>1, <3>2 DEF ActiveMounted
  <2>6. CwdIsLiveDirectory'
    BY <1>1, <1>3 DEF SInv, CwdIsLiveDirectory
  <2> QED
    BY <2>4, <2>5, <2>6
<1> QED
  BY <1>2, <1>3 DEF CallKeepsVolume, MountStep

\* Mounting: only the shell's disk command changes the drive, and the probe
\* either mounts it and goes to its root, or refuses it, or never comes back.
LEMMA SelectInv ==
    ASSUME SInv, NEW n \in DiskNumbers, SelectDisk(n)
    PROVE  SInv' /\ UNCHANGED bitmap
<1> DEFINE d == DriveOf[n]
           c == content[d]
<1>1. /\ d \in Drives /\ drive' = d /\ Probe(d) /\ ~hung /\ mode' = "shell"
      /\ UNCHANGED <<bitmap, content, raw>>
  BY SessionAssumption DEF SelectDisk, session
<1>2. Untouched' /\ RunsOnlyMounted' /\ c \in Contents
  BY <1>1 DEF SInv, Untouched, RunsOnlyMounted
<1>3. CASE "mounted" \in ProbeOutcomes(FirstBlocks[c]) /\ Mounted(c)
  <2>1. c \in Mountable
    BY <1>2, <1>3, SessionAssumption
  <2>2. ROOT_INODE # 0 /\ (d \notin raw => OnDisk[c][ROOT_INODE].mode = "dir")
    BY <1>1, <2>1, TableAssumption, VolumeAssumption DEF SInv, Untouched
  <2>3. ActiveMounted'
    BY <1>1, <2>1 DEF ActiveMounted, Served
  <2> HIDE DEF c, d
  <2>4. cwd_inode' = ROOT_INODE
    BY <1>3 DEF Mounted
  <2>5. drive' \notin raw' => Inode(cwd_inode)'.mode = "dir"
    BY <1>1, <2>2, <2>4 DEF Inode, c
  <2>6. CwdIsLiveDirectory'
    BY <2>2, <2>4, <2>5 DEF CwdIsLiveDirectory
  <2> QED
    BY <1>1, <1>2, <2>3, <2>6 DEF SInv
<1>4. CASE Stopped(c)
  BY <1>1, <1>2, <1>4 DEF Stopped, SInv, ActiveMounted, CwdIsLiveDirectory
<1>5. CASE Refused
  BY <1>1, <1>2, <1>5 DEF Refused, SInv, ActiveMounted, CwdIsLiveDirectory
<1> QED
  BY <1>1, <1>3, <1>4, <1>5 DEF Probe

\* The shell's own commands: they begin on a mounted volume, and end anywhere.
LEMMA CommandInv ==
    ASSUME SInv,
           \/ \E path \in Paths : SearchPath(path) \/ LoadElf(path) \/ Load(path)
           \/ LoadStep
           \/ \E elf_ok \in BOOLEAN : LoadDone(elf_ok)
           \/ \E count \in ByteCounts \ {0} : LoadCopy(count)
           \/ LoadClose
    PROVE  SInv' /\ UNCHANGED bitmap
<1>1. ASSUME NEW path, SearchPath(path) PROVE SInv' /\ UNCHANGED bitmap
  BY <1>1, StatKeeps, KeptVolume
     DEF SearchPath, session, SInv, RunsOnlyMounted
<1>2. ASSUME NEW path, NEW next, StartReading(path, next)
      PROVE  SInv' /\ UNCHANGED bitmap
  <2>1. CallKeepsVolume /\ UNCHANGED bitmap /\ (ret'.val # -1 => active)
    BY <1>2, ReadingOpen DEF StartReading
  <2>2. RunsOnlyMounted'
    BY <1>2, <2>1 DEF StartReading, session, SInv, RunsOnlyMounted, CallKeepsVolume, MountStep
  <2> QED
    BY <2>1, <2>2, KeptVolume DEF SInv
<1>3. ASSUME LoadStep PROVE SInv' /\ UNCHANGED bitmap
  <2>1. CallKeepsVolume /\ UNCHANGED bitmap
    BY <1>3, ReadKeeps, SeekKeeps DEF LoadStep, volume, alloc, MountStep, CallKeepsVolume
  <2> QED
    BY <1>3, <2>1, KeptVolume
       DEF LoadStep, session, SInv, RunsOnlyMounted, CallKeepsVolume, MountStep
<1>4. ASSUME NEW elf_ok, LoadDone(elf_ok) PROVE SInv' /\ UNCHANGED bitmap
  BY <1>4, CloseKeeps, KeptVolume
     DEF LoadDone, SInv, RunsOnlyMounted, CallKeepsVolume, MountStep
<1>5. ASSUME NEW count, LoadCopy(count) PROVE SInv' /\ UNCHANGED bitmap
  BY <1>5, ReadKeeps, KeptVolume
     DEF LoadCopy, SInv, RunsOnlyMounted, CallKeepsVolume, MountStep
<1>6. ASSUME LoadClose PROVE SInv' /\ UNCHANGED bitmap
  BY <1>6, CloseKeeps, KeptVolume DEF LoadClose, SInv, RunsOnlyMounted
<1> QED
  BY <1>1, <1>2, <1>3, <1>4, <1>5, <1>6 DEF LoadElf, Load

\* A program may write the bitmap, and what it writes is the mounted volume's.
LEMMA ProgramInv ==
    ASSUME SInv, ProgramCall
    PROVE  SInv' /\ active /\ content[drive] \in Served
<1>1. CallKeepsVolume /\ mode = "program" /\ UNCHANGED mode
  BY SystemCallKeeps DEF ProgramCall, session
<1>2. active /\ content[drive] \in Served
  BY <1>1 DEF SInv, RunsOnlyMounted, ActiveMounted, CallKeepsVolume
<1>3. RunsOnlyMounted'
  BY <1>1, <1>2 DEF RunsOnlyMounted, CallKeepsVolume, MountStep
<1> QED
  BY <1>1, <1>2, <1>3, KeptVolume DEF SInv

LEMMA SNextInv ==
    SInv /\ [SNext]_allvars =>
        SInv' /\ (bitmap' # bitmap => active /\ content[drive] \in Served)
<1> SUFFICES ASSUME SInv, [SNext]_allvars
             PROVE  SInv' /\ (bitmap' # bitmap => active /\ content[drive] \in Served)
  OBVIOUS
<1>1. CASE \E n \in DiskNumbers : SelectDisk(n)
  BY <1>1, SelectInv
<1>2. CASE \/ \E path \in Paths : SearchPath(path) \/ LoadElf(path) \/ Load(path)
           \/ LoadStep
           \/ \E elf_ok \in BOOLEAN : LoadDone(elf_ok)
           \/ \E count \in ByteCounts \ {0} : LoadCopy(count)
           \/ LoadClose
  BY <1>2, CommandInv
<1>3. CASE ProgramCall
  BY <1>3, ProgramInv
<1>4. CASE ProgramReturn
  BY <1>4 DEF ProgramReturn, volume, alloc, SInv, ActiveMounted, Untouched,
              RunsOnlyMounted, CwdIsLiveDirectory, Served, Inode
<1>5. CASE SHalted \/ UNCHANGED allvars
  BY <1>5 DEF SHalted, Halted, session, allvars, vars, SInv, ActiveMounted,
              Untouched, RunsOnlyMounted, CwdIsLiveDirectory, Served, Inode
<1> QED
  BY <1>1, <1>2, <1>3, <1>4, <1>5 DEF SNext

-----------------------------------------------------------------------------
\* Whatever disks are selected, a program or a command of the shell that reads
\* a file runs on a mounted volume.
THEOREM OnlyMountedRuns == SSpec => []RunsOnlyMounted
<1>1. SInv => RunsOnlyMounted
  BY DEF SInv
<1> QED
  BY <1>1, SInitInv, SNextInv, PTL DEF SSpec

\* The current directory is a live directory of the volume that is mounted: the
\* assertion of kchdir() holds after any sequence of disks, mounts and calls.
THEOREM CwdStaysLive == SSpec => []CwdIsLiveDirectory
<1>1. SInv => CwdIsLiveDirectory
  BY DEF SInv
<1> QED
  BY <1>1, SInitInv, SNextInv, PTL DEF SSpec

\* A create, which asks for no mounted volume, writes the bitmap of one.
THEOREM CreatesOnMounted == SSpec => CreateOnlyOnMounted
<1>1. SInv /\ [SNext]_allvars =>
          SInv' /\ [bitmap' # bitmap => active /\ content[drive] \in Served]_allvars
  BY SNextInv
<1> QED
  BY <1>1, SInitInv, PTL DEF SSpec, CreateOnlyOnMounted
-----------------------------------------------------------------------------
\* The descriptors.  The table's own invariant TInv is kept by calls and by
\* changes of disk alike; with it, what the shell knows of its file.

USE DEF Fds, Word

\* load() has not read beyond the last block that can be mapped: it never seeks,
\* and the machine stops before that.
CopyInside == mode = "copying" => fdt[lfd].offset <= MappableSize
FInv ==
    /\ TInv
    /\ mode \in Modes /\ lfd \in Fds
    /\ mode \in CommandModes => lfd \in OpenFds
    /\ CachedFromMounted
    /\ CopyInside

\* A call adds to the open files only files of the volume that is mounted.
LEMMA FilesFromMounted ==
    ASSUME CachedFromMounted, ActiveMounted, ~hung, FilesStep, MountStep
    PROVE  CachedFromMounted'
<1> SUFFICES ASSUME NEW fd \in OpenFds'
             PROVE  \E c \in Served' : fdt'[fd].fd_inode = OnDisk[c][fdt'[fd].inode]
  BY DEF CachedFromMounted
<1>0. Served \subseteq Served'
  BY ServedGrows
<1>1. CASE InodeLookup(fdt'[fd].inode) /\ fdt'[fd].fd_inode = Inode(fdt'[fd].inode)
  BY <1>0, <1>1 DEF InodeLookup, InodeRead, ActiveMounted, Inode
<1>2. CASE fd \in OpenFds /\ fdt'[fd].inode = fdt[fd].inode
                          /\ fdt'[fd].fd_inode = fdt[fd].fd_inode
  BY <1>0, <1>2 DEF CachedFromMounted
<1> QED
  BY <1>1, <1>2 DEF FilesStep

\* A file kopen() opens to read is a new descriptor, at its start.
LEMMA OpensAtStart ==
    ASSUME TInv, NEW path \in Paths, KOpen(path, FALSE), ret'.val # -1
    PROVE  /\ ret'.call = "open" /\ ret'.val \in Fds
           /\ fdt'[ret'.val].offset = 0
<1> DEFINE inode == PathToInode(path)
<1>1. OpenFound(path)
  BY DEF KOpen, OpenHangs, OpenMissing, OpenNotLive, Hang, Keep, Fail, Reply
<1>2. OpenSlot(inode)
  BY <1>1 DEF OpenFound, OpenFull, OpenTooBig, Fail, Reply
<1>3. /\ FreeFds # {} /\ ret'.call = "open" /\ ret'.val = NewFd
      /\ fdt' = [ReadyTable EXCEPT ![NewFd] = Opened(@, inode)]
  BY <1>2 DEF OpenSlot, Succeed, Reply
<1>4. NewFd \in Fds /\ ReadyTable \in [Fds -> Descriptor]
  BY <1>3, NewFdFacts, ReadyTableFacts
<1>5. Opened(ReadyTable[NewFd], inode).offset = 0
  BY <1>4 DEF Opened, Descriptor
<1> QED
  BY <1>3, <1>4, <1>5

\* load() reads on in the part that can be mapped: no read of its fails.  That
\* it would leave its file open if one did does no harm.
LEMMA CopyReads ==
    ASSUME TInv, lfd \in OpenFds, fdt[lfd].offset <= MappableSize,
           NEW count \in ByteCounts, KRead(lfd, count)
    PROVE  fdt'[lfd].offset <= MappableSize /\ (~hung' => ret'.val \in Nat)
<1>1. /\ lfd \in Fds /\ lfd >= 3 /\ fdt[lfd].fs
      /\ fdt \in [Fds -> Descriptor] /\ fdt[lfd] \in Descriptor
  BY DEF OpenFds, TInv, TypeOK, StandardStreamsKept, TableShape
<1>2. fdt[lfd].offset < MaxFileSize
  <2>1. \A a, b, m \in Nat : a < b /\ m > 0 => a * m < b * m
    OBVIOUS
  <2>2. XorTwo(NDIR_BLOCKS) \in Nat
    BY LayoutAssumption DEF XorTwo
  <2>3. MappableSize < MaxFileSize
    <3> DEFINE b == IND_BLOCKS
               p == NDIR_BLOCKS + b
               x == XorTwo(NDIR_BLOCKS)
    <3>1. x * b < b * b /\ x * b \in Nat /\ b * b \in Nat
      BY <2>1, <2>2, LayoutAssumption, MapAssumption
    <3>2. p + x * b < p + b * b /\ p \in Nat
      BY <3>1, LayoutAssumption
    <3>3. p + x * b \in Nat /\ p + b * b \in Nat
      BY <3>1, <3>2
    <3>4. MappableSize = (p + x * b) * BLOCK_SIZE /\ MaxFileSize = (p + b * b) * BLOCK_SIZE
      BY DEF MappableSize, MappableBlocks, MaxFileSize
    <3> HIDE DEF b, p, x
    <3> QED
      BY <2>1, <3>2, <3>3, <3>4, LayoutAssumption
  <2>4. MappableSize \in Int /\ MaxFileSize \in Int /\ fdt[lfd].offset \in Int
    BY <1>1, <2>2, LayoutAssumption
       DEF MappableSize, MappableBlocks, MaxFileSize, Descriptor
  <2> QED
    BY <2>3, <2>4
<1>3. ~IsConsole(lfd)
  BY <1>1 DEF IsConsole
<1>4. CASE ReadEof(lfd)
  BY <1>1, <1>4 DEF ReadEof, Keep, Reply
<1>5. CASE ReadData(lfd, count)
  <2> DEFINE n == Transfer(lfd, count)
  <2>1. ret'.val \in Nat /\ ret'.val = n
    BY <1>1, <1>5, ReadDataFacts DEF ReadData, Reply
  <2>2. fdt'[lfd].offset = fdt[lfd].offset + n
    <3>1. fdt' = [fdt EXCEPT ![lfd] = [fdt[lfd] EXCEPT !.offset = fdt[lfd].offset + n]]
      BY <1>5 DEF ReadData
    <3> QED
      BY <1>1, <3>1 DEF Descriptor
  <2>3. n = 0 \/ fdt[lfd].offset + n <= MappableSize
    BY <1>5 DEF ReadData
  <2>4. fdt[lfd].offset \in Nat
    BY <1>1 DEF Descriptor
  <2> HIDE DEF n
  <2> QED
    BY <2>1, <2>2, <2>3, <2>4
<1>6. CASE ReadUnmapped(lfd, count)
  <2> DEFINE o == IF fdt[lfd].offset < MappableSize THEN MappableSize ELSE fdt[lfd].offset
  <2>1. hung' = TRUE /\ fdt' = [fdt EXCEPT ![lfd] = [fdt[lfd] EXCEPT !.offset = o]]
    BY <1>6 DEF ReadUnmapped, Hang
  <2>2. fdt'[lfd].offset = o
    BY <1>1, <2>1 DEF Descriptor
  <2>3. MappableSize \in Int
    BY LayoutAssumption DEF MappableSize, MappableBlocks, XorTwo
  <2> QED
    BY <2>1, <2>2, <2>3
<1> QED
  <2>1. fdt[lfd].offset \in Int /\ MaxFileSize \in Int
    BY <1>1, TableAssumption DEF Descriptor
  <2>2. ~ReadOutOfRange(lfd) /\ ~ReadConsole(lfd, count) /\ ~ReadNull(lfd, count)
    BY <1>1, <1>2, <1>3, <2>1 DEF ReadOutOfRange, ReadConsole, ReadNull
  <2> QED
    BY <1>1, <1>4, <1>5, <1>6, <2>2 DEF KRead
\* The step of CommandClosesItsFile.
CloseStep ==
    mode \in CommandModes /\ mode' \notin CommandModes => OpenFds' = OpenFds \ {lfd}
FStep == FInv' /\ CloseStep

LEMMA SelectFiles ==
    ASSUME FInv, NEW n \in DiskNumbers, SelectDisk(n)
    PROVE  FStep
<1>1. /\ UNCHANGED <<fdt, below, table_ready, bitmap, content, raw, mode, lfd>>
      /\ mode = "shell" /\ drive' \in Drives
  BY SessionAssumption DEF SelectDisk, table, session
<1>2. /\ active' \in BOOLEAN /\ hung' \in BOOLEAN
      /\ cwd_inode' \in Inodes \cup {0} /\ free_count' \in Counts
      /\ per_group' \in Nat /\ (active' => cwd_inode' # 0 /\ per_group' # 0)
  <2> DEFINE c == content[DriveOf[n]]
  <2>1. DriveOf[n] \in Drives /\ Probe(DriveOf[n]) /\ c \in Contents
    BY SessionAssumption DEF SelectDisk, FInv, TInv, TypeOK
  <2>2. /\ FirstCount[c] \in Counts /\ PerGroup[c] \in Nat \ {0}
        /\ ROOT_INODE \in Inodes /\ ROOT_INODE # 0
    BY <2>1, TableAssumption
  <2>3. /\ active \in BOOLEAN /\ hung \in BOOLEAN /\ free_count \in Counts
        /\ cwd_inode \in Inodes \cup {0} /\ per_group \in Nat
        /\ active => cwd_inode # 0 /\ per_group # 0
    BY DEF FInv, TInv, TypeOK, CwdSet
  <2>4. CASE Mounted(c)
    BY <2>2, <2>3, <2>4 DEF Mounted
  <2>5. CASE Stopped(c)
    BY <2>2, <2>3, <2>5 DEF Stopped
  <2>6. CASE Refused
    BY <2>3, <2>6 DEF Refused
  <2> QED
    BY <2>1, <2>4, <2>5, <2>6 DEF Probe
<1>3. TInv'
  BY <1>1, <1>2
     DEF FInv, TInv, TypeOK, CwdSet, StandardStreamsKept, TableShape, OpenFds
<1> QED
  BY <1>1, <1>3 DEF FStep, FInv, CloseStep, CommandModes, OpenFds, CachedFromMounted,
                    CopyInside, Served

\* A step that leaves the command what it has: its descriptor stays open.
LEMMA StillReading ==
    ASSUME FInv, ActiveMounted, CallKeepsVolume, TStep, OpenFds' = OpenFds, CopyInside',
           mode' \in Modes, UNCHANGED lfd,
           mode \in CommandModes => mode' \in CommandModes,
           mode' \in CommandModes => mode \in CommandModes
    PROVE  FStep
BY FilesFromMounted DEF FInv, FStep, CloseStep, TStep, CallKeepsVolume

\* A step that closes it.
LEMMA Closes ==
    ASSUME FInv, ActiveMounted, mode \in CommandModes, KClose(lfd),
           mode' \in {"program", "shell"}, UNCHANGED lfd
    PROVE  FStep
<1>1. TStep /\ Steps /\ ~hung /\ MountStep
  BY CloseInv, CloseSteps, CloseKeeps DEF FInv, CallKeepsVolume
<1>2. ret'.call = "close" /\ ret'.fd = lfd /\ ret'.val = 0
  BY DEF FInv, OpenFds, KClose, Succeed, Reply
<1>3. OpenFds' = OpenFds \ {lfd}
  BY <1>1, <1>2 DEF Steps, LedgerStep
<1> QED
  BY <1>1, <1>3, FilesFromMounted
     DEF FInv, FStep, CloseStep, TStep, Modes, CommandModes, CopyInside

LEMMA StartFiles ==
    ASSUME FInv, ActiveMounted, NEW path \in Paths, NEW next \in CommandModes,
           StartReading(path, next)
    PROVE  FStep
<1>1. TStep /\ Steps /\ ~hung /\ MountStep /\ mode = "shell"
  BY OpenInv, OpenSteps, OpenKeeps DEF FInv, StartReading, CallKeepsVolume
<1>2. CASE ret'.val = -1
  BY <1>1, <1>2, FilesFromMounted
     DEF StartReading, session, Modes, CommandModes, CopyInside, FInv, FStep,
         CloseStep, TStep
<1>3. CASE ret'.val # -1
  <2>1. /\ ret'.call = "open" /\ ret'.val \in Fds /\ fdt'[ret'.val].offset = 0
        /\ mode' = next /\ lfd' = ret'.val
    BY <1>3, OpensAtStart DEF FInv, StartReading
  <2>2. lfd' \in OpenFds'
    BY <1>1, <2>1, TableAssumption DEF Steps, LedgerStep
  <2>3. MappableSize >= 0
    <3>1. MappableBlocks \in Nat
      BY LayoutAssumption DEF MappableBlocks, XorTwo
    <3> QED
      BY <3>1, LayoutAssumption DEF MappableSize
  <2> QED
    BY <1>1, <2>1, <2>2, <2>3, FilesFromMounted
       DEF Modes, CopyInside, FInv, FStep, CloseStep, TStep
<1> QED
  BY <1>2, <1>3

LEMMA LoadFiles ==
    ASSUME FInv, ActiveMounted, LoadStep
    PROVE  FStep
<1>1. CASE \E count \in ByteCounts : KRead(lfd, count)
  <2>1. TStep /\ OpenFds' = OpenFds /\ CallKeepsVolume
    BY <1>1, ReadInv, ReadSteps, ReadNamed, ReadKeeps DEF FInv, Steps, LedgerStep
  <2> QED
    BY <2>1, StillReading DEF LoadStep, session, FInv, CopyInside
<1>2. CASE \E by \in Displacements : KLseek(lfd, by, "SET")
  <2>1. TStep /\ OpenFds' = OpenFds /\ CallKeepsVolume
    BY <1>2, SeekInv, SeekSteps, SeekNamed, SeekKeeps DEF FInv, Steps, LedgerStep
  <2> QED
    BY <2>1, StillReading DEF LoadStep, session, FInv, CopyInside
<1>3. CASE ~hung /\ Hang("exec", lfd) /\ UNCHANGED <<table, volume, alloc>>
  <2>1. TStep /\ OpenFds' = OpenFds /\ CallKeepsVolume
    BY <1>3, TableUntouched, VolumeKept
       DEF Hang, FInv, TInv, TypeOK, table, alloc, OpenFds, CallKeepsVolume
  <2> QED
    BY <1>3, <2>1, StillReading DEF LoadStep, session, FInv, CopyInside
<1> QED
  BY <1>1, <1>2, <1>3 DEF LoadStep

LEMMA CopyFiles ==
    ASSUME FInv, ActiveMounted, NEW count \in ByteCounts, LoadCopy(count)
    PROVE  FStep
<1>1. TStep /\ OpenFds' = OpenFds /\ CallKeepsVolume
  BY ReadInv, ReadSteps, ReadNamed, ReadKeeps DEF LoadCopy, FInv, Steps, LedgerStep
<1>2. mode = "copying" /\ lfd \in OpenFds /\ fdt[lfd].offset <= MappableSize
  BY DEF LoadCopy, FInv, CommandModes, CopyInside
<1>3. fdt'[lfd].offset <= MappableSize /\ (~hung' => ret'.val \in Nat)
  BY <1>2, CopyReads DEF LoadCopy, FInv
<1>4. mode' \in {"copying", "closing"} /\ UNCHANGED lfd
  BY <1>3 DEF LoadCopy
<1> QED
  BY <1>1, <1>2, <1>3, <1>4, StillReading DEF Modes, CommandModes, CopyInside

LEMMA OtherFiles ==
    ASSUME FInv, ActiveMounted,
           ProgramCall \/ ProgramReturn \/ \E path \in Paths : SearchPath(path)
    PROVE  FStep
<1>1. CASE ProgramCall
  <2>1. TStep /\ ~hung /\ MountStep
    BY <1>1, SystemCallInv, SystemCallKeeps DEF FInv, ProgramCall, CallKeepsVolume
  <2> QED
    BY <1>1, <2>1, FilesFromMounted
       DEF ProgramCall, session, FInv, FStep, CloseStep, TStep, CommandModes, CopyInside
<1>2. CASE ProgramReturn
  <2>1. TStep /\ OpenFds' = OpenFds /\ ~hung /\ MountStep
    BY <1>2, TableUntouched, VolumeKept
       DEF ProgramReturn, FInv, TInv, TypeOK, table, alloc, OpenFds
  <2> QED
    BY <1>2, <2>1, FilesFromMounted
       DEF ProgramReturn, FInv, FStep, CloseStep, TStep, Modes, CommandModes, CopyInside
<1>3. ASSUME NEW path \in Paths, SearchPath(path) PROVE FStep
  <2>1. TStep /\ OpenFds' = OpenFds /\ ~hung /\ MountStep
    BY <1>3, StatInv, VolumeKept DEF FInv, SearchPath, KStat, table, OpenFds
  <2> QED
    BY <1>3, <2>1, FilesFromMounted
       DEF SearchPath, session, FInv, FStep, CloseStep, TStep, CommandModes, CopyInside
<1> QED
  BY <1>1, <1>2, <1>3

LEMMA SInitFiles == SInit => FInv
<1> SUFFICES ASSUME SInit PROVE FInv
  OBVIOUS
<1>1. TInv
  BY InitInv DEF SInit, IInv, TInv
<1>2. 0 \in Fds /\ OpenFds = {}
  BY TableAssumption DEF SInit, Init, OpenFds, ZeroDescriptor
<1> QED
  BY <1>1, <1>2
     DEF SInit, FInv, Modes, CommandModes, CachedFromMounted, CopyInside

LEMMA SNextFiles == SInv /\ FInv /\ [SNext]_allvars => FStep
<1> SUFFICES ASSUME SInv, FInv, [SNext]_allvars PROVE FStep
  OBVIOUS
<1>1. ActiveMounted
  BY DEF SInv
<1>2. CASE \E n \in DiskNumbers : SelectDisk(n)
  BY <1>2, SelectFiles
<1>3. CASE \E path \in Paths : LoadElf(path) \/ Load(path)
  BY <1>1, <1>3, StartFiles DEF LoadElf, Load, CommandModes
<1>4. CASE LoadStep
  BY <1>1, <1>4, LoadFiles
<1>5. ASSUME NEW elf_ok \in BOOLEAN, LoadDone(elf_ok) PROVE FStep
  BY <1>1, <1>5, Closes DEF LoadDone, CommandModes
<1>6. CASE \E count \in ByteCounts \ {0} : LoadCopy(count)
  BY <1>1, <1>6, CopyFiles
<1>7. CASE LoadClose
  BY <1>1, <1>7, Closes DEF LoadClose, CommandModes
<1>8. CASE ProgramCall \/ ProgramReturn \/ \E path \in Paths : SearchPath(path)
  BY <1>1, <1>8, OtherFiles
<1>9. CASE SHalted \/ UNCHANGED allvars
  <2>1. UNCHANGED allvars
    BY <1>9 DEF SHalted, Halted, session, allvars, vars
  <2> QED
    BY <2>1
       DEF allvars, vars, FInv, FStep, CloseStep, TInv, TypeOK, CwdSet, StandardStreamsKept,
           TableShape, OpenFds, CachedFromMounted, CopyInside, Served
<1> QED
  BY <1>2, <1>3, <1>4, <1>5, <1>6, <1>7, <1>8, <1>9 DEF SNext

LEMMA Files == SSpec => [](SInv /\ FInv)
<1>1. SInit => SInv /\ FInv
  BY SInitInv, SInitFiles
<1>2. (SInv /\ FInv) /\ [SNext]_allvars => (SInv /\ FInv)'
  BY SNextInv, SNextFiles DEF FStep
<1> QED
  BY <1>1, <1>2, PTL DEF SSpec

\* While elf_load_binary() or load() is at work, the descriptor it reads from is
\* open, and every variable of the session and of the table keeps its type.
THEOREM CommandsFileOpen == SSpec => []CommandFileOpen
<1>1. FInv => CommandFileOpen
  BY DEF FInv, TInv, CommandFileOpen, STypeOK
<1> QED
  BY <1>1, Files, PTL

\* Disks come and go under open descriptors; each still has an inode that some
\* mounted volume holds under its number.
THEOREM CachesFromMounted == SSpec => []CachedFromMounted
<1>1. FInv => CachedFromMounted
  BY DEF FInv
<1> QED
  BY <1>1, Files, PTL

\* loadelf() and load() leave the table as they found it, however they end: the
\* return of load() that would leak its descriptor is never taken.
THEOREM CommandsCloseTheirFile == SSpec => CommandClosesItsFile
<1>1. (SInv /\ FInv) /\ [SNext]_allvars => [CloseStep]_allvars
  BY SNextFiles DEF FStep
<1> QED
  BY <1>1, Files, PTL DEF SSpec, CommandClosesItsFile, CloseStep

-----------------------------------------------------------------------------
\* What ext2_probe() makes of a healthy volume.

\* A number of one digit is swapped into its own multiple of the radix.
LEMMA SwapDigit ==
    ASSUME NEW d \in 0 .. COUNT_RADIX - 1
    PROVE  SwapCount(d) = d * COUNT_RADIX /\ SwapCount(d * COUNT_RADIX) = d
<1> DEFINE R == COUNT_RADIX
<1>1. R \in Nat \ {0} /\ d \in Nat /\ d < R
  BY BitmapAssumption
<1> HIDE DEF R
<1>2. d % R = d /\ d \div R = 0
  BY <1>1, Z3
<1>3. (d * R) % R = 0
  BY <1>1, Z3
<1>4. (d * R) \div R = d
  BY <1>1, Z3
<1> QED
  BY <1>1, <1>2, <1>3, <1>4 DEF SwapCount, R

\* The divisor comes out as a multiple of the radix, the dividend as the number
\* of blocks: never more than the divisor, and above 1.  So there is one group.
LEMMA OneGroup ==
    ASSUME NEW blocks \in 2 .. COUNT_RADIX, NEW pg \in 1 .. COUNT_RADIX - 1
    PROVE  BlockGroups(SwapCount(blocks), SwapCount(pg)) = 1
<1> DEFINE R == COUNT_RADIX
<1>1. R \in Nat \ {0, 1}
  BY BitmapAssumption
<1>2. SwapCount(SwapCount(SwapCount(SwapCount(blocks)))) = blocks
  <2>1. CASE blocks \in 0 .. R - 1
    BY <2>1, SwapDigit
  <2>2. CASE blocks = R
    <3>1. 1 \in 0 .. R - 1 /\ 1 * R = R
      BY <1>1
    <3> QED
      BY <2>2, <3>1, SwapDigit
  <2> QED
    BY <1>1, <2>1, <2>2
<1>3. SwapCount(SwapCount(SwapCount(pg))) = pg * R
  BY <1>1, SwapDigit
<1>4. div2(blocks, pg * R) = 1
  <2>1. pg * R \in Nat /\ pg * R >= R /\ blocks \in Nat /\ blocks <= pg * R
    <3>1. \A m \in Nat \ {0} : m * R \in Nat /\ m * R >= R
      BY <1>1
    <3> QED
      BY <1>1, <3>1
  <2> DEFINE n == pg * R
  <2>2. n \in Nat \ {0} /\ blocks \in Nat /\ 1 < blocks /\ blocks <= n
    BY <1>1, <2>1
  <2> HIDE DEF n
  <2>3. ASSUME blocks < n PROVE div2(blocks, n) = 1
    <3>1. blocks \div n = 0 /\ blocks % n = blocks
      BY <2>2, <2>3, Z3
    <3> QED
      BY <2>2, <3>1 DEF div2
  <2>4. ASSUME blocks = n PROVE div2(blocks, n) = 1
    <3>1. n \div n = 1 /\ n % n = 0
      BY <2>2, Z3
    <3> QED
      BY <2>4, <3>1 DEF div2
  <2> QED
    BY <2>2, <2>3, <2>4 DEF n
<1> QED
  BY <1>2, <1>3, <1>4 DEF BlockGroups, nm_uint32

LEMMA HealthyMounts ==
    ASSUME NEW first, Healthy(first)
    PROVE  ProbeOutcomes(first) = {"mounted"}
<1> DEFINE found == {j \in 0 .. BUFFER_BLOCKS - 1 : first[j] # NoMagic}
           sb == first[1]
<1>1. /\ first[0] = NoMagic /\ sb # NoMagic
      /\ sb.log = 0 /\ sb.inode_size = INODE_SIZE
      /\ sb.per_group \in 1 .. COUNT_RADIX - 1 /\ sb.blocks \in 2 .. COUNT_RADIX
  BY DEF Healthy
<1>2. 1 \in found /\ \A j \in found : 1 <= j
  BY <1>1, MountConstants
<1>3. Min(found) = 1
  <2>1. \A x \in found : (\A y \in found : x <= y) => x = 1
    BY <1>2
  <2> HIDE DEF found
  <2> QED
    BY <1>2, <2>1 DEF Min
<1>4. Outcome(1, Raw(sb)) = "mounted"
  <2>1. /\ Raw(sb).per_group = SwapCount(sb.per_group)
        /\ Raw(sb).blocks = SwapCount(sb.blocks)
        /\ Raw(sb).inode_size = INODE_SIZE
        /\ Raw(sb).log = SwapCount(0)
    BY <1>1 DEF Raw
  <2>2. SwapCount(sb.per_group) # 0
    <3>1. \A m \in Nat \ {0}, n \in Nat \ {0} : m * n # 0
      OBVIOUS
    <3> QED
      BY <1>1, <3>1, BitmapAssumption, SwapDigit
  <2>3. EXT2_BLOCK_SIZE(SwapCount(0)) = MIN_BLOCK
    <3>1. SwapCount(0) = 0
      BY BitmapAssumption, SwapDigit
    <3>2. MIN_BLOCK \div 2 ^ 0 = MIN_BLOCK
      BY MountConstants
    <3> QED
      BY <3>1, <3>2 DEF EXT2_BLOCK_SIZE, nm_uint32
  <2>4. 1 + 1 <= BUFFER_BLOCKS /\ 1 + 1 = 2
    BY MountConstants
  <2> QED
    BY <1>1, <2>1, <2>2, <2>3, <2>4, OneGroup DEF Outcome
<1> HIDE DEF found
<1> QED
  BY <1>2, <1>3, <1>4 DEF ProbeOutcomes, found

\* The other steps are not called "disk".
LEMMA OnlySelectIsDisk ==
    ASSUME [SNext]_allvars, ~hung, ret'.call = "disk", ~UNCHANGED allvars
    PROVE  \E n \in DiskNumbers : SelectDisk(n)
<1>1. ASSUME NEW path, NEW creat, KOpen(path, creat) PROVE ret'.call # "disk"
  BY <1>1 DEF KOpen, OpenHangs, OpenMissing, OpenCreate, OpenNotLive, OpenFound,
              OpenFull, OpenTooBig, OpenSlot, Hang, Keep, Fail, Succeed, Reply
<1>2. ASSUME NEW fd, KClose(fd) PROVE ret'.call # "disk"
  BY <1>2 DEF KClose, Fail, Succeed, Reply
<1>3. ASSUME NEW fd, NEW count, KRead(fd, count) \/ KWrite(fd, count)
      PROVE  ret'.call # "disk"
  BY <1>3, ReadNamed DEF KWrite, Keep, Fail, Reply
<1>4. ASSUME NEW path, KChdir(path) \/ KStat(path) PROVE ret'.call # "disk"
  BY <1>4 DEF KChdir, ChdirRefused, ChdirDone, KStat, Hang, Keep, Fail, Succeed, Reply
<1>8. ASSUME NEW dev, BlkdevCall(dev) PROVE ret'.call # "disk"
  BY <1>8 DEF BlkdevCall, BlkdevSeekRead, BlkdevWrite, BlkdevNull, Hang, Keep, Reply
<1>5. ~SystemCall
  BY <1>1, <1>2, <1>3, <1>4, <1>8, SeekNamed DEF SystemCall, KFcntl, Hang, Keep, Reply
<1>6. ~LoadStep
  BY <1>3, SeekNamed DEF LoadStep, Hang, Keep, Reply
<1>7. ~ProgramReturn
  BY DEF ProgramReturn, Reply
<1> QED
  BY <1>1, <1>2, <1>3, <1>4, <1>5, <1>6, <1>7
     DEF SNext, SearchPath, LoadElf, Load, StartReading, LoadDone, LoadCopy, LoadClose,
         ProgramCall, SHalted, Halted

\* Whatever was mounted, refused or open before, select_disk() of a drive with a
\* volume of one block group and the smallest blocks mounts it, byte orders
\* notwithstanding.
THEOREM HealthyMount == SSpec => HealthyVolumesMount
<1> DEFINE Mounts == ~hung /\ ret'.call = "disk" /\ Healthy(FirstBlocks[content[drive']]) =>
                         active' /\ ~hung' /\ cwd_inode' = ROOT_INODE
<1>1. [SNext]_allvars => [Mounts]_allvars
  <2> SUFFICES ASSUME [SNext]_allvars, ~UNCHANGED allvars, ~hung, ret'.call = "disk",
                      Healthy(FirstBlocks[content[drive']])
               PROVE  active' /\ ~hung' /\ cwd_inode' = ROOT_INODE
    OBVIOUS
  <2>1. PICK n \in DiskNumbers : SelectDisk(n)
    BY OnlySelectIsDisk
  <2>2. /\ Probe(DriveOf[n])
        /\ ProbeOutcomes(FirstBlocks[content[DriveOf[n]]]) = {"mounted"}
    BY <2>1, HealthyMounts DEF SelectDisk
  <2>3. Mounted(content[DriveOf[n]])
    BY <2>2 DEF Probe
  <2> QED
    BY <2>3 DEF Mounted
<1> QED
  BY <1>1, PTL DEF SSpec, HealthyVolumesMount
=============================================================================
