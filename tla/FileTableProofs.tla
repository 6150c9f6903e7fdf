-------------------------- MODULE FileTableProofs ---------------------------
(***************************************************************************)
(* The invariants of the descriptor table, for every number of descriptors, *)
(* every volume and every program.  IInv is inductive; the invariants that  *)
(* the runs check are its conjuncts.  In the second half, what one call may *)
(* do to the table and to the inode bitmap: the action properties, which    *)
(* follow from it step by step.                                             *)
(***************************************************************************)
EXTENDS FileTable, Numbers

USE DEF Fds, Word

\* The part of IInv that is about the table alone: neither the last reply, nor what
\* the volume holds under an inode number.
TInv == TypeOK /\ CwdSet /\ StandardStreamsKept /\ TableShape

\* What a call does to the open descriptors' files: it leaves them, or opens one
\* that is live on the selected drive.  This is apart from TInv because a change
\* of disk keeps TInv, and breaks CachedInodeCurrent.
FilesStep ==
    \A fd \in OpenFds' :
        \/ /\ fd \in OpenFds
           /\ fdt'[fd].inode = fdt[fd].inode
           /\ fdt'[fd].fd_inode = fdt[fd].fd_inode
        \/ /\ InodeLookup(fdt'[fd].inode)
           /\ fdt'[fd].fd_inode = Inode(fdt'[fd].inode)
           /\ fdt'[fd].fd_inode.size <= MaxFileSize
TStep == TInv' /\ FilesStep

-----------------------------------------------------------------------------
\* What the definitions that actions share return.

LEMMA ZeroImage == NoImage \in Image /\ 0 \in Word
<1>1. 0 \in Word
  BY TableAssumption
<1> QED
  BY <1>1, TableAssumption DEF NoImage, Image

LEMMA PathIsInode ==
    ASSUME TypeOK, CwdSet, NEW path \in Paths
    PROVE  /\ PathToInode(path) \in Inodes \cup {0}
           /\ PathToInode(path) # 0 => PathToInode(path) \in Inodes
           /\ ~active /\ path # RootPath => PathToInode(path) = 0
<1>1. CASE path = RootPath \/ ~active
  BY <1>1, TableAssumption DEF PathToInode
<1>2. CASE path # RootPath /\ active
  <2>1. content[drive] \in Contents /\ cwd_inode \in Inodes
    BY <1>2 DEF TypeOK, CwdSet
  <2>2. WalkOf(path) \in Walks
    BY <2>1, TableAssumption DEF WalkOf
  <2> QED
    BY <1>2, <2>2 DEF PathToInode, Walks
<1> QED
  BY <1>1, <1>2

LEMMA LookupIsImage ==
    ASSUME TypeOK, NEW inode \in Inodes
    PROVE  Inode(inode) \in Image /\ Inode(inode).size \in Word
<1>1. content[drive] \in Contents
  BY DEF TypeOK
<1>2. Inode(inode) \in Image
  BY <1>1, TableAssumption DEF Inode
<1> QED
  BY <1>2 DEF Image

\* Initializing the table changes nothing but states, and closes nothing.
LEMMA ReadyTableFacts ==
    ASSUME TInv
    PROVE  /\ ReadyTable \in [Fds -> Descriptor]
           /\ \A fd \in Fds :
                  /\ ReadyTable[fd] = [fdt[fd] EXCEPT !.state = ReadyTable[fd].state]
                  /\ ReadyTable[fd].state = "OPEN" <=> fdt[fd].state = "OPEN"
                  /\ ReadyTable[fd].state = "OPEN" => ReadyTable[fd] = fdt[fd]
                  /\ fd < 3 => ReadyTable[fd].state = InitialState(fd)
                  /\ fd >= 3 => ReadyTable[fd].state \in {"UNUSED", "OPEN"}
<1>1. CASE table_ready
  <2>1. ReadyTable = fdt
    BY <1>1 DEF ReadyTable
  <2>2. \A fd \in Fds : fdt[fd] = [fdt[fd] EXCEPT !.state = fdt[fd].state]
    BY DEF TInv, TypeOK, Descriptor
  <2> QED
    BY <1>1, <2>1, <2>2 DEF TInv, TypeOK, StandardStreamsKept, TableShape
<1>2. CASE ~table_ready
  <2>1. ReadyTable = [fd \in Fds |-> [fdt[fd] EXCEPT !.state = InitialState(fd)]]
    BY <1>2 DEF ReadyTable
  <2>2. \A fd \in Fds : InitialState(fd) \in FdStates \ {"OPEN"}
    BY DEF InitialState, FdStates
  <2>3. \A fd \in Fds : fdt[fd].state # "OPEN"
    BY <1>2 DEF TInv, TableShape
  <2>4. \A fd \in Fds : fd >= 3 => InitialState(fd) = "UNUSED"
    BY DEF InitialState
  <2>5. \A fd \in Fds : ReadyTable[fd] \in Descriptor /\ ReadyTable[fd].state = InitialState(fd)
    BY <2>1, <2>2 DEF TInv, TypeOK, Descriptor
  <2> QED
    BY <2>1, <2>2, <2>3, <2>4, <2>5
<1> QED
  BY <1>1, <1>2

\* Initializing the table leaves the cached inodes where they are.
LEMMA ReadyTableKeeps ==
    ASSUME TInv, NEW fd \in Fds
    PROVE  ReadyTable[fd].fd_inode = fdt[fd].fd_inode /\ ReadyTable[fd].fs = fdt[fd].fs
<1>1. ReadyTable[fd] = [fdt[fd] EXCEPT !.state = ReadyTable[fd].state]
  BY ReadyTableFacts
<1>2. fdt[fd] \in Descriptor
  BY DEF TInv, TypeOK
<1> QED
  BY <1>1, <1>2 DEF Descriptor

\* The slot open() takes is free, is none of the console's, and is the first.
LEMMA NewFdFacts ==
    ASSUME TInv, FreeFds # {}
    PROVE  /\ NewFd \in Fds /\ NewFd >= 3
           /\ ReadyTable[NewFd].state = "UNUSED"
           /\ fdt[NewFd].state # "OPEN"
           /\ \A fd \in 3 .. NewFd - 1 : fdt[fd].state = "OPEN"
<1>1. \E fd \in FreeFds : \A g \in FreeFds : fd <= g
  <2>1. FreeFds \subseteq Nat
    BY TableAssumption DEF FreeFds
  <2> QED
    BY <2>1, LeastElement
<1>2. NewFd \in FreeFds /\ \A g \in FreeFds : NewFd <= g
  BY <1>1 DEF NewFd
<1>3. \A fd \in Fds : fd < 3 => ReadyTable[fd].state # "UNUSED"
  BY ReadyTableFacts DEF InitialState
<1>4. MAX_FDS \in Nat
  BY TableAssumption
<1>5. NewFd \in Fds /\ NewFd >= 3 /\ ReadyTable[NewFd].state = "UNUSED"
  BY <1>2, <1>3, <1>4 DEF FreeFds
<1>6. ASSUME NEW fd \in Fds
      PROVE  /\ ReadyTable[fd].state = "OPEN" <=> fdt[fd].state = "OPEN"
             /\ fd >= 3 => ReadyTable[fd].state \in {"UNUSED", "OPEN"}
  BY ReadyTableFacts
<1>7. fdt[NewFd].state # "OPEN"
  <2>1. ReadyTable[NewFd].state = "OPEN" <=> fdt[NewFd].state = "OPEN"
    BY <1>5, <1>6
  <2> QED
    BY <1>5, <2>1
<1>8. ASSUME NEW fd \in 3 .. NewFd - 1 PROVE fdt[fd].state = "OPEN"
  <2>1. fd \in Fds /\ fd >= 3 /\ ~(NewFd <= fd)
    BY <1>4, <1>5
  <2>2. ReadyTable[fd].state # "UNUSED"
    BY <1>2, <2>1 DEF FreeFds
  <2>3. ReadyTable[fd].state = "OPEN"
    BY <1>6, <2>1, <2>2
  <2> QED
    BY <1>6, <2>1, <2>3
<1> QED
  BY <1>5, <1>7, <1>8

\* The successor of a table that is only initialized by a call.
LEMMA ReadyTableInv ==
    ASSUME TInv, fdt' = ReadyTable, table_ready' = TRUE,
           UNCHANGED <<volume, hung>>, below' \in Image,
           bitmap' \in [Drives -> SUBSET Bits], free_count' \in Counts
    PROVE  TStep
<1>1. TypeOK' /\ CwdSet'
  <2>1. fdt' \in [Fds -> Descriptor]
    BY ReadyTableFacts
  <2> QED
    BY <2>1 DEF TInv, TypeOK, CwdSet, volume
<1>0. /\ OpenFds' = OpenFds
      /\ \A fd \in OpenFds : fdt'[fd] = fdt[fd]
  BY ReadyTableFacts DEF OpenFds
<1>2. StandardStreamsKept'
  <2>1. \A fd \in 0 .. 2 : fd \in Fds /\ fd < 3
    BY TableAssumption
  <2>2. \A fd \in 0 .. 2 : ReadyTable[fd].state = InitialState(fd)
    BY <2>1, ReadyTableFacts
  <2> QED
    BY <1>0, <2>2 DEF TInv, StandardStreamsKept, InitialState
<1>3. FilesStep
  BY <1>0 DEF FilesStep
<1>4. TableShape'
  <2> SUFFICES ASSUME NEW fd \in Fds
               PROVE /\ fdt'[fd].state = "OPEN" => fdt'[fd].fs
                     /\ fdt'[fd].state # "OPEN" =>
                          \/ fdt'[fd].fd_inode = NoImage
                          \/ fdt'[fd].fd_inode.size > MaxFileSize
                     /\ fd >= 3 => fdt'[fd].state \in {"UNUSED", "OPEN"}
    BY DEF TableShape
  <2>1. ReadyTable[fd].fd_inode = fdt[fd].fd_inode /\ ReadyTable[fd].fs = fdt[fd].fs
    BY ReadyTableKeeps
  <2> QED
    BY <2>1, ReadyTableFacts DEF TInv, TableShape
<1> QED
  BY <1>1, <1>2, <1>3, <1>4 DEF TInv, TStep

\* A call that changes neither the table nor the volume.
LEMMA TableUntouched ==
    ASSUME TInv, UNCHANGED <<fdt, table_ready, volume>>, below' \in Image,
           hung' \in BOOLEAN,
           bitmap' \in [Drives -> SUBSET Bits], free_count' \in Counts
    PROVE  TStep
BY DEF TInv, TStep, FilesStep, TypeOK, CwdSet, StandardStreamsKept, OpenFds,
       TableShape, volume

\* A call that moves the offset of one descriptor or sets its flag.
LEMMA OneDescriptor ==
    ASSUME TInv, NEW g \in Fds, NEW o \in Word, NEW b \in BOOLEAN,
           fdt' = [fdt EXCEPT ![g] = [@ EXCEPT !.offset = o, !.nonblock = b]],
           UNCHANGED <<below, table_ready, volume, alloc>>, hung' \in BOOLEAN
    PROVE  TStep
<1> DEFINE Moved == [fdt[g] EXCEPT !.offset = o, !.nonblock = b]
<1>1. fdt[g] \in Descriptor /\ fdt \in [Fds -> Descriptor]
  BY DEF TInv, TypeOK
<1>2. /\ Moved \in Descriptor
      /\ Moved.state = fdt[g].state /\ Moved.inode = fdt[g].inode
      /\ Moved.fd_inode = fdt[g].fd_inode /\ Moved.fs = fdt[g].fs
  BY <1>1 DEF Descriptor
<1>3. /\ fdt' \in [Fds -> Descriptor]
      /\ \A fd \in Fds : /\ fdt'[fd].state = fdt[fd].state
                         /\ fdt'[fd].inode = fdt[fd].inode
                         /\ fdt'[fd].fd_inode = fdt[fd].fd_inode
                         /\ fdt'[fd].fs = fdt[fd].fs
  <2>1. fdt' = [fdt EXCEPT ![g] = Moved]
    OBVIOUS
  <2> QED
    BY <1>1, <1>2, <2>1
<1>4. OpenFds' = OpenFds
  BY <1>3 DEF OpenFds
<1>5. TypeOK' /\ CwdSet'
  BY <1>3 DEF TInv, TypeOK, CwdSet, volume, alloc
<1>6. StandardStreamsKept'
  BY <1>3, <1>4, TableAssumption DEF TInv, StandardStreamsKept
<1>7. FilesStep
  BY <1>3, <1>4 DEF FilesStep, OpenFds
<1>8. TableShape'
  BY <1>3 DEF TInv, TableShape
<1> QED
  BY <1>5, <1>6, <1>7, <1>8 DEF TInv, TStep

\* A call that opens, fills or empties the descriptor g, in a table that has
\* been initialized.
LEMMA OneSlot ==
    ASSUME TInv, NEW g \in Fds, g >= 3, NEW d \in Descriptor,
           fdt' = [ReadyTable EXCEPT ![g] = d], table_ready' = TRUE,
           d.state \in {"UNUSED", "OPEN"},
           d.state = "OPEN" => /\ d.fs
                               /\ InodeLookup(d.inode)
                               /\ d.fd_inode = Inode(d.inode)
                               /\ d.fd_inode.size <= MaxFileSize,
           d.state # "OPEN" => d.fd_inode = NoImage \/ d.fd_inode.size > MaxFileSize,
           UNCHANGED <<volume, alloc, hung>>, below' \in Image
    PROVE  TStep
<1>1. ReadyTable \in [Fds -> Descriptor]
  BY ReadyTableFacts
<1>2. /\ fdt' \in [Fds -> Descriptor]
      /\ fdt'[g] = d
      /\ \A fd \in Fds \ {g} : fdt'[fd] = ReadyTable[fd]
  BY <1>1
<1>3. \A fd \in OpenFds' \ {g} : fd \in OpenFds /\ fdt'[fd] = fdt[fd]
  BY <1>2, ReadyTableFacts DEF OpenFds
<1>4. TypeOK' /\ CwdSet'
  BY <1>2 DEF TInv, TypeOK, CwdSet, volume, alloc
<1>5. StandardStreamsKept'
  <2>1. \A fd \in 0 .. 2 : fd \in Fds \ {g} /\ fd < 3
    BY TableAssumption
  <2>2. \A fd \in 0 .. 2 : fdt'[fd].state = InitialState(fd)
    BY <1>2, <2>1, ReadyTableFacts
  <2> QED
    BY <1>3, <2>2 DEF TInv, StandardStreamsKept, InitialState
<1>6. FilesStep
  BY <1>2, <1>3 DEF FilesStep, OpenFds
<1>7. TableShape'
  <2> SUFFICES ASSUME NEW fd \in Fds
               PROVE /\ fdt'[fd].state = "OPEN" => fdt'[fd].fs
                     /\ fdt'[fd].state # "OPEN" =>
                          \/ fdt'[fd].fd_inode = NoImage
                          \/ fdt'[fd].fd_inode.size > MaxFileSize
                     /\ fd >= 3 => fdt'[fd].state \in {"UNUSED", "OPEN"}
    BY DEF TableShape
  <2>1. CASE fd = g
    BY <1>2, <2>1
  <2>2. CASE fd # g
    <3>1. ReadyTable[fd].fd_inode = fdt[fd].fd_inode /\ ReadyTable[fd].fs = fdt[fd].fs
      BY ReadyTableKeeps
    <3> QED
      BY <1>2, <2>2, <3>1, ReadyTableFacts DEF TInv, TableShape
  <2> QED
    BY <2>1, <2>2
<1> QED
  BY <1>4, <1>5, <1>6, <1>7 DEF TInv, TStep

-----------------------------------------------------------------------------
\* Creating a file keeps the bitmap and the count within their words.
LEMMA BitmapSize == BitmapBits \in Nat \ {0} /\ BITMAP_BYTES <= BitmapBits
<1>1. \A a, b \in Nat \ {0} : a * b \in Nat /\ a * b >= a
  OBVIOUS
<1> QED
  BY <1>1, BitmapAssumption DEF BitmapBits

LEMMA NextFreeFacts ==
    ASSUME NEW bits \in SUBSET Bits
    PROVE  \/ /\ NextFree(bits) = 0
              /\ 0 .. BITMAP_BYTES - 1 \subseteq bits
           \/ /\ NextFree(bits) \in 1 .. BITMAP_BYTES
              /\ NextFree(bits) - 1 \notin bits
              /\ \A c \in Bits \ bits : NextFree(bits) - 1 <= c
<1> DEFINE Clear == {b \in 0 .. BITMAP_BYTES - 1 : b \notin bits}
<1>1. CASE Clear = {}
  BY <1>1 DEF NextFree
<1>2. CASE Clear # {}
  <2>1. \E x \in Clear : \A y \in Clear : x <= y
    <3>1. Clear \subseteq Nat
      BY BitmapAssumption
    <3> HIDE DEF Clear
    <3> QED
      BY <1>2, <3>1, LeastElement
  <2>2. Min(Clear) \in Clear /\ \A y \in Clear : Min(Clear) <= y
    BY <2>1 DEF Min
  <2>3. NextFree(bits) = Min(Clear) + 1
    BY <1>2 DEF NextFree
  <2>4. \A c \in Bits \ bits : Min(Clear) <= c
    BY <2>2, BitmapAssumption, BitmapSize DEF Bits
  <2> HIDE DEF Clear
  <2>5. Min(Clear) \in 0 .. BITMAP_BYTES - 1 /\ Min(Clear) \notin bits
    BY <2>2 DEF Clear
  <2> QED
    BY <2>3, <2>4, <2>5, BitmapAssumption
<1> QED
  BY <1>1, <1>2

LEMMA BitOfInBits ==
    ASSUME NEW inode \in Int
    PROVE  BitOf(inode) \in Bits
BY BitmapSize DEF BitOf, Bits

LEMMA QuotientOfSquare ==
    ASSUME NEW a \in Nat, NEW b \in Nat, b > 0, a < b * b
    PROVE  a \div b \in 0 .. b - 1
BY Z3

LEMMA SwapInCounts ==
    ASSUME NEW c \in Counts
    PROVE  SwapCount(c) \in Counts
<1> DEFINE R == COUNT_RADIX
<1>1. R \in Nat \ {0} /\ R * R \in Nat \ {0} /\ c \in 0 .. R * R - 1
  BY BitmapAssumption DEF Counts
<1>2. c % R \in 0 .. R - 1
  BY <1>1
<1>3. c \div R \in 0 .. R - 1
  BY <1>1, QuotientOfSquare
<1>4. \A m, n \in 0 .. R - 1 : m * R + n \in 0 .. R * R - 1
  BY <1>1
<1> QED
  BY <1>2, <1>3, <1>4 DEF SwapCount, Counts

LEMMA DecInCounts ==
    ASSUME NEW c \in Counts
    PROVE  DecCount(c) \in Counts
<1>1. COUNT_RADIX * COUNT_RADIX \in Nat \ {0}
  BY BitmapAssumption
<1>2. \A k \in Int : k % (COUNT_RADIX * COUNT_RADIX) \in Counts
  BY <1>1 DEF Counts
<1>3. SwapCount(c) - 1 \in Int
  BY SwapInCounts DEF Counts
<1> QED
  BY <1>2, <1>3, SwapInCounts DEF DecCount

LEMMA NewInodeType ==
    ASSUME TypeOK, NewInode
    PROVE  bitmap' \in [Drives -> SUBSET Bits] /\ free_count' \in Counts
<1> DEFINE bit == BitOf(NextFree(bitmap[drive]))
<1>1. NextFree(bitmap[drive]) \in Int
  BY NextFreeFacts DEF TypeOK
<1>2. bit \in Bits
  BY <1>1, BitOfInBits
<1> QED
  BY <1>2, DecInCounts DEF TypeOK, NewInode, TakeInode, alloc

-----------------------------------------------------------------------------
\* One lemma per system call.

\* The descriptor kopen() fills in is one CachedInodeCurrent accepts.
LEMMA OpenedFacts ==
    ASSUME TInv, NEW d \in Descriptor, NEW inode \in Inodes
    PROVE  /\ Opened(d, inode) \in Descriptor
           /\ Opened(d, inode).state = "OPEN" /\ Opened(d, inode).fs
           /\ Opened(d, inode).inode = inode
           /\ Opened(d, inode).fd_inode = Inode(inode)
<1>1. Inode(inode) \in Image
  BY LookupIsImage DEF TInv
<1> QED
  BY <1>1, ZeroImage DEF Opened, Descriptor, FdStates

LEMMA OpenInv ==
    ASSUME TInv, NEW path \in Paths, NEW creat \in BOOLEAN, KOpen(path, creat)
    PROVE  TStep /\ ret'.src = NoImage
<1> DEFINE inode == PathToInode(path)
<1>1. inode \in Inodes \cup {0}
  BY PathIsInode DEF TInv
<1>2. UNCHANGED volume
  BY DEF KOpen
<1>0. CASE OpenHangs(path)
  <2>1. ret'.src = NoImage /\ UNCHANGED <<fdt, table_ready, below, alloc>> /\ hung' = TRUE
    BY <1>0 DEF OpenHangs, Hang, Keep, Reply, table
  <2> QED
    BY <1>2, <2>1, TableUntouched DEF TInv, TypeOK, alloc
<1>3. CASE OpenMissing(path)
  <2>1. ret'.src = NoImage
    BY <1>3 DEF OpenMissing, Fail, Reply
  <2>2. UNCHANGED <<fdt, table_ready, below, alloc, hung>>
    BY <1>3 DEF OpenMissing, table
  <2> QED
    BY <1>2, <2>1, <2>2, TableUntouched DEF TInv, TypeOK, alloc
<1>4. CASE OpenCreate(path)
  <2>1. ret'.src = NoImage
    BY <1>4 DEF OpenCreate, Fail, Reply
  <2>2. UNCHANGED <<below, hung>>
    BY <1>4 DEF OpenCreate
  <2>3. CASE free_count # 0
    <3>1. fdt' = ReadyTable /\ table_ready' = TRUE /\ NewInode
      BY <1>4, <2>3 DEF OpenCreate
    <3>2. bitmap' \in [Drives -> SUBSET Bits] /\ free_count' \in Counts
      BY <3>1, NewInodeType DEF TInv
    <3>3. below' \in Image
      BY <2>2 DEF TInv, TypeOK
    <3>4. TStep
      BY <1>2, <2>2, <3>1, <3>2, <3>3, ReadyTableInv
    <3> QED
      BY <2>1, <3>4
  <2>4. CASE free_count = 0
    <3>1. UNCHANGED <<fdt, table_ready, alloc>>
      BY <1>4, <2>4 DEF OpenCreate
    <3> QED
      BY <1>2, <2>1, <2>2, <3>1, TableUntouched DEF TInv, TypeOK, alloc
  <2> QED
    BY <2>3, <2>4
<1>5. CASE OpenNotLive(path)
  <2>1. ret'.src = NoImage /\ UNCHANGED <<fdt, table_ready, alloc, hung>>
    BY <1>5 DEF OpenNotLive, Fail, Reply
  <2>2. inode \in Inodes
    BY <1>1, <1>5 DEF OpenNotLive
  <2>3. below' \in Image
    BY <1>5, <2>2, LookupIsImage DEF OpenNotLive, TInv, TypeOK
  <2> QED
    BY <1>2, <2>1, <2>3, TableUntouched DEF TInv, TypeOK, alloc
<1>6. CASE OpenFound(path)
  <2> DEFINE image == Inode(inode)
  <2>1. InodeLookup(inode) /\ inode \in Inodes
    BY <1>1, <1>6 DEF OpenFound, InodeLookup, InodeRead
  <2>2. image \in Image /\ image.size \in Word
    BY <2>1, LookupIsImage DEF TInv
  <2>3. below' \in Image /\ table_ready' = TRUE /\ UNCHANGED <<alloc, hung>>
    BY <1>6, <2>2 DEF OpenFound
  <2>4. CASE OpenFull
    <3>1. fdt' = ReadyTable /\ ret'.src = NoImage
      BY <2>4 DEF OpenFull, Fail, Reply
    <3> QED
      BY <1>2, <2>3, <3>1, ReadyTableInv DEF TInv, TypeOK, alloc
  <2>5. CASE OpenTooBig(inode)
    <3> DEFINE d == [ReadyTable[NewFd] EXCEPT !.fd_inode = image]
    <3>1. /\ FreeFds # {} /\ image.size > MaxFileSize /\ ret'.src = NoImage
          /\ fdt' = [ReadyTable EXCEPT ![NewFd].fd_inode = image]
      BY <2>5 DEF OpenTooBig, Fail, Reply
    <3>2. NewFd \in Fds /\ NewFd >= 3 /\ ReadyTable[NewFd].state = "UNUSED"
      BY <3>1, NewFdFacts
    <3>3. ReadyTable[NewFd] \in Descriptor
      BY <3>2, ReadyTableFacts
    <3>4. d \in Descriptor /\ d.state = "UNUSED" /\ d.fd_inode = image
      BY <2>2, <3>2, <3>3 DEF Descriptor
    <3>5. fdt' = [ReadyTable EXCEPT ![NewFd] = d]
      BY <3>1
    <3> HIDE DEF d, image
    <3>6. TStep
      BY <1>2, <2>3, <3>1, <3>2, <3>4, <3>5, OneSlot DEF image
    <3> QED
      BY <3>1, <3>6
  <2>6. CASE OpenSlot(inode)
    <3> DEFINE d == Opened(ReadyTable[NewFd], inode)
    <3>1. /\ FreeFds # {} /\ image.size <= MaxFileSize /\ ret'.src = NoImage
          /\ fdt' = [ReadyTable EXCEPT ![NewFd] = d]
      BY <2>6 DEF OpenSlot, Succeed, Reply
    <3>2. NewFd \in Fds /\ NewFd >= 3
      BY <3>1, NewFdFacts
    <3>3. ReadyTable[NewFd] \in Descriptor
      BY <3>2, ReadyTableFacts
    <3>4. /\ d \in Descriptor /\ d.state = "OPEN" /\ d.fs
          /\ d.inode = inode /\ d.fd_inode = image
      BY <2>1, <3>3, OpenedFacts
    <3> HIDE DEF d
    <3>5. TStep
      BY <1>2, <2>1, <2>3, <3>1, <3>2, <3>4, OneSlot
    <3> QED
      BY <3>1, <3>5
  <2> QED
    BY <1>6, <2>4, <2>5, <2>6 DEF OpenFound
<1> QED
  BY <1>0, <1>3, <1>4, <1>5, <1>6 DEF KOpen

\* A close needs a table that has been initialized, since it needs an open
\* descriptor; the slot is then one of the programs'.
LEMMA CloseInv ==
    ASSUME TInv, NEW fd, KClose(fd)
    PROVE  TStep /\ ret'.src = NoImage
<1>1. UNCHANGED <<below, table_ready, volume, alloc, hung>>
  BY DEF KClose
<1>2. CASE fd \in Fds /\ fdt[fd].state = "OPEN"
  <2> DEFINE d == [fdt[fd] EXCEPT !.state = "UNUSED", !.inode = 0, !.offset = 0,
                                  !.fd_inode = NoImage]
  <2>1. fdt' = [fdt EXCEPT ![fd] = d] /\ ret'.src = NoImage
    BY <1>2 DEF KClose, Succeed, Reply
  <2>2. fd >= 3 /\ table_ready
    BY <1>2 DEF TInv, StandardStreamsKept, OpenFds, TableShape
  <2>3. fdt[fd] \in Descriptor
    BY <1>2 DEF TInv, TypeOK
  <2>4. d \in Descriptor /\ d.state = "UNUSED" /\ d.fd_inode = NoImage
    BY <2>3, ZeroImage DEF Descriptor, FdStates
  <2>5. fdt' = [ReadyTable EXCEPT ![fd] = d] /\ table_ready' = TRUE
    BY <1>1, <2>1, <2>2 DEF ReadyTable, TInv, TypeOK
  <2>6. below' \in Image
    BY <1>1 DEF TInv, TypeOK
  <2> HIDE DEF d
  <2>7. TStep
    BY <1>1, <1>2, <2>2, <2>4, <2>5, <2>6, OneSlot
  <2> QED
    BY <2>1, <2>7
<1>3. CASE ~(fd \in Fds /\ fdt[fd].state = "OPEN")
  <2>1. UNCHANGED fdt /\ ret'.src = NoImage
    BY <1>3 DEF KClose, Fail, Reply
  <2> QED
    BY <1>1, <2>1, TableUntouched DEF TInv, TypeOK, alloc
<1> QED
  BY <1>2, <1>3

\* A read that returns data took it from the image cached in its descriptor,
\* between the offset and the size, and moved the offset by what it returned.
LEMMA ReadDataFacts ==
    ASSUME TInv, NEW fd \in Fds, NEW count \in ByteCounts, ReadData(fd, count)
    PROVE  /\ fdt' = [fdt EXCEPT ![fd].offset = ret'.from + ret'.val]
           /\ ret'.call = "read" /\ ret'.fd = fd
           /\ ret'.src = fdt[fd].fd_inode
           /\ ret'.from = fdt[fd].offset /\ ret'.from \in Nat
           /\ ret'.val \in Nat
           /\ ret'.from + ret'.val <= fdt[fd].fd_inode.size
           /\ ret'.from + ret'.val \in Word
           /\ fdt[fd].offset < fdt[fd].fd_inode.size
<1> DEFINE n == Transfer(fd, count)
<1>1. fdt[fd] \in Descriptor /\ fdt[fd].offset \in Word /\ fdt[fd].fd_inode.size \in Word
  BY DEF TInv, TypeOK, Descriptor, Image
<1>2. count \in Nat
  BY TableAssumption
<1>3. Available(fd) > 0 /\ Available(fd) = fdt[fd].fd_inode.size - fdt[fd].offset
  BY DEF ReadData, Available
<1>4. n \in Nat /\ n <= Available(fd)
  BY <1>1, <1>2, <1>3 DEF Transfer
<1>5. /\ ret' = [Reply("read", fd, n) EXCEPT !.src = fdt[fd].fd_inode,
                                             !.from = fdt[fd].offset]
      /\ fdt' = [fdt EXCEPT ![fd].offset = fdt[fd].offset + n]
  BY DEF ReadData
<1> HIDE DEF n
<1>6. /\ ret'.call = "read" /\ ret'.fd = fd /\ ret'.val = n
      /\ ret'.src = fdt[fd].fd_inode /\ ret'.from = fdt[fd].offset
  BY <1>5 DEF Reply
<1>7. /\ fdt[fd].offset \in Nat
      /\ fdt[fd].offset + n <= fdt[fd].fd_inode.size
      /\ fdt[fd].offset + n \in Word
      /\ fdt[fd].offset < fdt[fd].fd_inode.size
  BY <1>1, <1>3, <1>4, TableAssumption
<1>8. fdt' = [fdt EXCEPT ![fd].offset = ret'.from + ret'.val]
  BY <1>5, <1>6, Zenon
<1> QED
  BY <1>4, <1>6, <1>7, <1>8

\* Moving the offset of a descriptor preserves the table's invariant.
LEMMA OffsetInv ==
    ASSUME TInv, NEW fd \in Fds, NEW o \in Word,
           fdt' = [fdt EXCEPT ![fd].offset = o],
           UNCHANGED <<below, table_ready, volume, alloc>>, hung' \in BOOLEAN
    PROVE  TStep
<1>1. fdt[fd] \in Descriptor /\ fdt[fd].nonblock \in BOOLEAN
  BY DEF TInv, TypeOK, Descriptor
<1>2. [fdt[fd] EXCEPT !.offset = o, !.nonblock = fdt[fd].nonblock]
         = [fdt[fd] EXCEPT !.offset = o]
  BY <1>1 DEF Descriptor
<1>3. fdt' = [fdt EXCEPT ![fd] =
                 [@ EXCEPT !.offset = o, !.nonblock = fdt[fd].nonblock]]
  BY <1>2
<1> QED
  BY <1>1, <1>3, OneDescriptor

\* The loop stops at a block it cannot map before it reaches the file's size.
LEMMA UnmappedFacts ==
    ASSUME TInv, NEW fd \in Fds, NEW count \in ByteCounts, ReadUnmapped(fd, count)
    PROVE  /\ fdt[fd].fd_inode.size > MappableSize
           /\ IF fdt[fd].offset < MappableSize THEN MappableSize \in Word
              ELSE fdt[fd].offset \in Word
<1>1. fdt[fd].offset \in Word /\ fdt[fd].fd_inode.size \in Word
  BY DEF TInv, TypeOK, Descriptor, Image
<1>2. count \in Nat /\ MappableSize \in Int
  BY TableAssumption, LayoutAssumption DEF MappableSize, MappableBlocks, XorTwo
<1>3. Transfer(fd, count) \in Int /\ Transfer(fd, count) <= Available(fd)
  BY <1>1, <1>2 DEF Transfer, Available
<1>4. MappableSize < fdt[fd].fd_inode.size
  BY <1>1, <1>2, <1>3 DEF ReadUnmapped, Available
<1> QED
  BY <1>1, <1>2, <1>4, TableAssumption

LEMMA ReadInv ==
    ASSUME TInv, NEW fd, NEW count \in ByteCounts, KRead(fd, count)
    PROVE  /\ TStep
           /\ \/ ret'.src = NoImage
              \/ fd \in Fds /\ ~IsConsole(fd) /\ ReadData(fd, count)
<1>1. UNCHANGED <<below, table_ready, volume, alloc>>
  BY DEF KRead
<1>2. ASSUME UNCHANGED fdt, hung' \in BOOLEAN PROVE TStep
  BY <1>1, <1>2, TableUntouched DEF TInv, TypeOK, alloc
<1>3. CASE fd \notin Fds
  <2>1. Hang("read", fd) /\ UNCHANGED fdt
    BY <1>3 DEF KRead
  <2> QED
    BY <1>2, <2>1 DEF Hang, Keep, Reply
<1>4. CASE fd \in Fds /\ ReadConsole(fd, count)
  <2>1. ret'.src = NoImage /\ UNCHANGED <<fdt, hung>>
    BY <1>4 DEF ReadConsole, Keep, Reply
  <2> QED
    BY <1>2, <2>1 DEF TInv, TypeOK
<1>5. CASE fd \in Fds /\ ReadNull(fd, count)
  <2>1. ret'.src = NoImage /\ UNCHANGED fdt /\ (UNCHANGED hung \/ hung' = TRUE)
    BY <1>5 DEF ReadNull, Hang, Fail, Keep, Succeed, Reply
  <2> QED
    BY <1>2, <2>1 DEF TInv, TypeOK
<1>6. CASE fd \in Fds /\ (ReadOutOfRange(fd) \/ ReadEof(fd))
  <2>1. ret'.src = NoImage /\ UNCHANGED <<fdt, hung>>
    BY <1>6 DEF ReadOutOfRange, ReadEof, Fail, Keep, Reply
  <2> QED
    BY <1>2, <2>1 DEF TInv, TypeOK
<1>7. CASE fd \in Fds /\ ~IsConsole(fd) /\ ReadData(fd, count)
  <2>1. UNCHANGED hung
    BY <1>7 DEF ReadData
  <2>2. TStep
    BY <1>1, <1>7, <2>1, ReadDataFacts, OffsetInv DEF TInv, TypeOK
  <2> QED
    BY <1>7, <2>2
<1>8. CASE fd \in Fds /\ ReadUnmapped(fd, count)
  <2> DEFINE o == IF fdt[fd].offset < MappableSize THEN MappableSize ELSE fdt[fd].offset
  <2>1. /\ fdt' = [fdt EXCEPT ![fd].offset = o]
        /\ hung' = TRUE /\ ret'.src = NoImage
    BY <1>8 DEF ReadUnmapped, Hang, Keep, Reply
  <2>2. o \in Word
    BY <1>8, UnmappedFacts
  <2> HIDE DEF o
  <2>3. TStep
    BY <1>1, <1>8, <2>1, <2>2, OffsetInv
  <2> QED
    BY <2>1, <2>3
<1> QED
  BY <1>3, <1>4, <1>5, <1>6, <1>7, <1>8 DEF KRead

LEMMA SeekInv ==
    ASSUME TInv, NEW fd, NEW by \in Displacements,
           NEW whence \in {"SET", "CUR", "END", "?"}, KLseek(fd, by, whence)
    PROVE  TStep /\ ret'.src = NoImage
<1>1. UNCHANGED <<below, table_ready, volume, alloc>>
  BY DEF KLseek
<1>2. ASSUME UNCHANGED fdt, hung' \in BOOLEAN PROVE TStep
  BY <1>1, <1>2, TableUntouched DEF TInv, TypeOK, alloc
<1>3. ASSUME fd \in Fds, UNCHANGED hung, NEW position \in Int, SeekTo(fd, position)
      PROVE TStep
  <2>1. position % WORD \in Word
    BY TableAssumption
  <2>2. fdt' = [fdt EXCEPT ![fd].offset = position % WORD]
    BY <1>3 DEF SeekTo
  <2> QED
    BY <1>1, <1>3, <2>1, <2>2, OffsetInv DEF TInv, TypeOK
<1>4. CASE fd \notin Fds
  <2>1. Hang("lseek", fd) /\ UNCHANGED fdt
    BY <1>4 DEF KLseek
  <2> QED
    BY <1>2, <2>1 DEF Hang, Keep, Reply
<1>6. CASE fd \in Fds /\ Hang("lseek", fd) /\ UNCHANGED fdt
  BY <1>2, <1>6 DEF Hang, Keep, Reply
<1>5. CASE fd \in Fds /\ ~(Hang("lseek", fd) /\ UNCHANGED fdt)
  <2>1. UNCHANGED hung /\ by \in Int /\ fdt[fd] \in Descriptor
    BY <1>5, TableAssumption DEF KLseek, TInv, TypeOK
  <2>2. CASE whence = "END"
    <3>1. SeekEnd(fd, by)
      BY <1>5, <2>2 DEF KLseek
    <3>2. fdt[fd].inode \in Inodes \cup {0}
      BY <2>1 DEF Descriptor
    <3>3. InodeSize(fdt[fd].inode) \in Int
      BY <3>2, LookupIsImage DEF InodeSize, InodeLookup, InodeRead, TInv
    <3>4. InodeSize(fdt[fd].inode) + by \in Int
      BY <2>1, <3>3
    <3> QED
      BY <1>3, <1>5, <2>1, <3>1, <3>4 DEF SeekEnd, Reply
  <2>3. CASE whence = "CUR"
    <3>1. SeekCur(fd, by)
      BY <1>5, <2>3 DEF KLseek
    <3>2. fdt[fd].offset + by \in Int
      BY <2>1 DEF Descriptor
    <3> QED
      BY <1>3, <1>5, <2>1, <3>1, <3>2 DEF SeekCur, Keep, Reply
  <2>4. CASE whence = "SET"
    <3>1. SeekSet(fd, by)
      BY <1>5, <2>4 DEF KLseek
    <3> QED
      BY <1>3, <1>5, <2>1, <3>1 DEF SeekSet, Succeed, Reply
  <2>5. CASE whence = "?"
    <3>1. ret'.src = NoImage /\ UNCHANGED fdt
      BY <1>5, <2>5 DEF KLseek, Fail, Reply
    <3> QED
      BY <1>2, <2>1, <3>1 DEF TInv, TypeOK
  <2> QED
    BY <2>2, <2>3, <2>4, <2>5
<1> QED
  BY <1>4, <1>5, <1>6

LEMMA FcntlInv ==
    ASSUME TInv, NEW fd, NEW cmd \in {"F_GETFL", "F_SETFL"},
           NEW nonblock \in NonblockFlags, KFcntl(fd, cmd, nonblock)
    PROVE  TStep /\ ret'.src = NoImage
<1>1. UNCHANGED <<below, table_ready, volume, alloc>> /\ ret'.src = NoImage
  BY DEF KFcntl, Hang, Keep, Reply
<1>2. CASE UNCHANGED fdt
  <2>1. hung' \in BOOLEAN
    BY DEF KFcntl, Hang, TInv, TypeOK
  <2> QED
    BY <1>1, <1>2, <2>1, TableUntouched DEF TInv, TypeOK, alloc
<1>3. CASE /\ fd \in Fds /\ UNCHANGED hung
           /\ fdt' = [fdt EXCEPT ![fd].nonblock = nonblock]
  <2>1. fdt[fd] \in Descriptor /\ fdt[fd].offset \in Word /\ nonblock \in BOOLEAN
    BY <1>3, TableAssumption DEF TInv, TypeOK, Descriptor
  <2>2. [fdt[fd] EXCEPT !.offset = fdt[fd].offset, !.nonblock = nonblock]
           = [fdt[fd] EXCEPT !.nonblock = nonblock]
    BY <2>1 DEF Descriptor
  <2>3. fdt' = [fdt EXCEPT ![fd] =
                   [@ EXCEPT !.offset = fdt[fd].offset, !.nonblock = nonblock]]
    BY <1>3, <2>2
  <2> QED
    BY <1>1, <1>3, <2>1, <2>3, OneDescriptor DEF TInv, TypeOK
<1> QED
  BY <1>2, <1>3 DEF KFcntl

LEMMA WriteInv ==
    ASSUME TInv, NEW fd, NEW count, KWrite(fd, count)
    PROVE  TStep /\ ret'.src = NoImage
<1>1. ret'.src = NoImage /\ UNCHANGED <<table, volume, alloc, hung>>
  BY DEF KWrite, Keep, Fail, Reply
<1> QED
  BY <1>1, TableUntouched DEF TInv, TypeOK, alloc, table

LEMMA ChdirInv ==
    ASSUME TInv, NEW path \in Paths, KChdir(path)
    PROVE  TStep /\ ret'.src = NoImage
<1>1. /\ UNCHANGED <<table, active, drive, per_group, content, raw, alloc>>
      /\ ret'.src = NoImage
  BY DEF KChdir, Hang, Keep, ChdirRefused, ChdirDone, Fail, Succeed, Reply
<1>2. hung' \in BOOLEAN
  BY DEF KChdir, Hang, ChdirRefused, ChdirDone, TInv, TypeOK
<1>3. cwd_inode' = cwd_inode \/ cwd_inode' \in Inodes
  BY PathIsInode DEF KChdir, ChdirRefused, ChdirDone, InodeLookup, InodeRead, TInv
<1>4. TypeOK' /\ CwdSet'
  BY <1>1, <1>2, <1>3, TableAssumption
     DEF TInv, TypeOK, CwdSet, table, alloc
<1> QED
  BY <1>1, <1>4
     DEF TInv, TStep, FilesStep, StandardStreamsKept, OpenFds, TableShape, table

LEMMA StatInv ==
    ASSUME TInv, NEW path, KStat(path)
    PROVE  TStep /\ ret'.src = NoImage
<1>1. /\ ret'.src = NoImage /\ UNCHANGED <<table, volume, alloc>>
      /\ (hung' = hung \/ hung' = TRUE)
  BY DEF KStat, Hang, Keep, Fail, Reply
<1> QED
  BY <1>1, TableUntouched DEF TInv, TypeOK, alloc, table

\* A raw write changes what a drive holds, and nothing the kernel has in memory.
LEMMA BlkdevInv ==
    ASSUME TInv, NEW dev, BlkdevCall(dev)
    PROVE  TStep /\ ret'.src = NoImage
<1>1. UNCHANGED <<table, active, drive, cwd_inode, per_group, free_count>>
  BY DEF BlkdevCall
<1>2. /\ ret'.src = NoImage
      /\ hung' \in BOOLEAN /\ content' \in [Drives -> Contents]
      /\ raw' \subseteq Drives /\ bitmap' \in [Drives -> SUBSET Bits]
  <2>1. CASE BlkdevSeekRead(dev) \/ BlkdevNull(dev)
    <3>1. /\ ret'.src = NoImage /\ UNCHANGED <<content, raw, bitmap>>
          /\ (hung' = hung \/ hung' = TRUE)
      BY <2>1 DEF BlkdevSeekRead, BlkdevNull, Hang, Keep, Reply
    <3> QED
      BY <3>1 DEF TInv, TypeOK
  <2>2. CASE BlkdevWrite(dev)
    <3>1. PICK c \in RawContents \cup {content[drive]} :
             content' = [content EXCEPT ![drive] = c]
      BY <2>2 DEF BlkdevWrite
    <3>2. PICK b \in RawBitmaps \cup {bitmap[drive]} :
             bitmap' = [bitmap EXCEPT ![drive] = b]
      BY <2>2 DEF BlkdevWrite
    <3>3. c \in Contents /\ b \in SUBSET Bits
      BY TableAssumption DEF TInv, TypeOK
    <3> QED
      BY <2>2, <3>1, <3>2, <3>3 DEF BlkdevWrite, Keep, Reply, TInv, TypeOK
  <2> QED
    BY <2>1, <2>2 DEF BlkdevCall
<1>3. TypeOK' /\ CwdSet'
  BY <1>1, <1>2 DEF TInv, TypeOK, CwdSet, table
<1> QED
  BY <1>1, <1>2, <1>3
     DEF TInv, TStep, FilesStep, StandardStreamsKept, OpenFds, TableShape, table

-----------------------------------------------------------------------------
\* IInv is an invariant.

LEMMA SystemCallInv ==
    ASSUME TInv, SystemCall
    PROVE  /\ TStep
           /\ \/ ret'.src = NoImage
              \/ \E fd \in Fds, count \in ByteCounts : ReadData(fd, count)
<1>1. ASSUME NEW path \in Paths, NEW creat \in BOOLEAN, KOpen(path, creat)
      PROVE  TStep /\ ret'.src = NoImage
  BY <1>1, OpenInv
<1>2. ASSUME NEW fd, KClose(fd) PROVE TStep /\ ret'.src = NoImage
  BY <1>2, CloseInv
<1>3. ASSUME NEW fd, NEW count \in ByteCounts, KRead(fd, count)
      PROVE  /\ TStep
             /\ ret'.src = NoImage \/ (fd \in Fds /\ ReadData(fd, count))
  BY <1>3, ReadInv
<1>4. ASSUME NEW fd, NEW count, KWrite(fd, count)
      PROVE  TStep /\ ret'.src = NoImage
  BY <1>4, WriteInv
<1>5. ASSUME NEW fd, NEW by \in Displacements,
             NEW whence \in {"SET", "CUR", "END", "?"}, KLseek(fd, by, whence)
      PROVE  TStep /\ ret'.src = NoImage
  BY <1>5, SeekInv
<1>6. ASSUME NEW fd, NEW cmd \in {"F_GETFL", "F_SETFL"},
             NEW nonblock \in NonblockFlags, KFcntl(fd, cmd, nonblock)
      PROVE  TStep /\ ret'.src = NoImage
  BY <1>6, FcntlInv
<1>7. ASSUME NEW path \in Paths, KChdir(path) \/ KStat(path)
      PROVE  TStep /\ ret'.src = NoImage
  BY <1>7, ChdirInv, StatInv
<1>8. ASSUME NEW dev, BlkdevCall(dev) PROVE TStep /\ ret'.src = NoImage
  BY <1>8, BlkdevInv
<1> QED
  BY <1>1, <1>2, <1>3, <1>4, <1>5, <1>6, <1>7, <1>8 DEF SystemCall

\* What a reply says about the table, in the state right after the call.
LEMMA ReplyInv ==
    ASSUME TInv,
           \/ ret'.src = NoImage
           \/ \E fd \in Fds, count \in ByteCounts : ReadData(fd, count)
    PROVE  ServedFileIsOpen' /\ ReadInsideFile'
<1>1. CASE ret'.src = NoImage
  BY <1>1 DEF ServedFileIsOpen, ReadInsideFile
<1>2. CASE ret'.src # NoImage
  <2>1. PICK fd \in Fds, count \in ByteCounts : ReadData(fd, count)
    BY <1>2
  <2>2. /\ fdt' = [fdt EXCEPT ![fd].offset = ret'.from + ret'.val]
        /\ ret'.fd = fd /\ ret'.src = fdt[fd].fd_inode
        /\ ret'.val \in Nat
        /\ ret'.from + ret'.val <= fdt[fd].fd_inode.size
    BY <2>1, ReadDataFacts
  <2>3. fdt \in [Fds -> Descriptor] /\ fdt[fd] \in Descriptor
    BY DEF TInv, TypeOK
  <2>4. /\ fdt'[fd].state = fdt[fd].state
        /\ fdt'[fd].fd_inode = fdt[fd].fd_inode
        /\ fdt'[fd].offset = ret'.from + ret'.val
    BY <2>2, <2>3 DEF Descriptor
  <2>5. ReadInsideFile'
    BY <2>2, <2>4 DEF ReadInsideFile
  <2>6. fdt[fd].fd_inode.size \in Int /\ MaxFileSize \in Int
    BY <2>3, TableAssumption DEF Descriptor, Image
  <2>7. fdt[fd].fd_inode.size <= MaxFileSize => fdt[fd].state = "OPEN"
    BY <1>2, <2>2, <2>6 DEF TInv, TableShape
  <2>8. ServedFileIsOpen'
    BY <2>2, <2>4, <2>7 DEF ServedFileIsOpen, OpenFds
  <2> QED
    BY <2>5, <2>8
<1> QED
  BY <1>1, <1>2

LEMMA InitInv == Init => IInv
<1> SUFFICES ASSUME Init PROVE IInv
  OBVIOUS
<1>1. ZeroDescriptor \in Descriptor
  BY ZeroImage DEF ZeroDescriptor, Descriptor, FdStates
<1>2. 0 \in Counts
  <2>1. COUNT_RADIX * COUNT_RADIX \in Nat \ {0}
    BY BitmapAssumption
  <2> QED
    BY <2>1 DEF Counts
<1>3. TypeOK /\ CwdSet
  <2>1. fdt \in [Fds -> Descriptor] /\ below \in Image
    BY <1>1, ZeroImage DEF Init
  <2>2. /\ drive \in Drives /\ content \in [Drives -> Contents]
        /\ content[drive] \in Contents
        /\ active \in BOOLEAN /\ raw \subseteq Drives
    BY TableAssumption DEF Init
  <2>3. bitmap \in [Drives -> SUBSET Bits]
    BY TableAssumption DEF Init
  <2>4. /\ cwd_inode \in Inodes \cup {0} /\ (active => cwd_inode # 0)
        /\ per_group \in Nat /\ (active => per_group # 0)
        /\ free_count \in Counts
    BY <1>2, <2>2, TableAssumption DEF Init
  <2> QED
    BY <2>1, <2>2, <2>3, <2>4 DEF Init, TypeOK, CwdSet
<1>4. \A fd \in Fds : fdt[fd] = ZeroDescriptor
  BY DEF Init
<1>5. StandardStreamsKept /\ CachedInodeCurrent /\ TableShape
  BY <1>4 DEF Init, ZeroDescriptor, OpenFds, StandardStreamsKept,
              CachedInodeCurrent, TableShape
<1>7. VolumeShape
  <2>1. OpenFds = {}
    BY <1>4 DEF OpenFds, ZeroDescriptor
  <2>2. active => Inode(cwd_inode).mode = "dir"
    BY TableAssumption, VolumeAssumption DEF Init, Inode
  <2> QED
    BY <2>1, <2>2 DEF VolumeShape
<1>6. ServedFileIsOpen /\ ReadInsideFile
  BY DEF Init, Reply, ServedFileIsOpen, ReadInsideFile
<1> QED
  BY <1>3, <1>5, <1>6, <1>7 DEF IInv

\* A call leaves the mount alone, and what the drives hold too unless it is a
\* raw write; the current directory it moves, if at all, to a live directory.
MountStep ==
    /\ UNCHANGED <<active, drive, per_group>>
    /\ \/ UNCHANGED <<content, raw, cwd_inode>>
       \/ /\ UNCHANGED <<content, raw>>
          /\ cwd_inode' # 0 /\ Inode(cwd_inode').mode = "dir"
       \/ /\ raw' = raw \cup {drive} /\ UNCHANGED cwd_inode
          /\ \E c \in RawContents \cup {content[drive]} :
                 content' = [content EXCEPT ![drive] = c]

LEMMA SystemCallMount ==
    ASSUME SystemCall
    PROVE  MountStep
<1>1. ASSUME NEW path, NEW creat, KOpen(path, creat) PROVE MountStep
  BY <1>1 DEF KOpen, volume, MountStep
<1>2. ASSUME NEW fd, KClose(fd) PROVE MountStep
  BY <1>2 DEF KClose, volume, MountStep
<1>3. ASSUME NEW fd, NEW count, KRead(fd, count) \/ KWrite(fd, count) PROVE MountStep
  BY <1>3 DEF KRead, KWrite, volume, MountStep
<1>4. ASSUME NEW fd, NEW by, NEW whence, KLseek(fd, by, whence) PROVE MountStep
  BY <1>4 DEF KLseek, volume, MountStep
<1>5. ASSUME NEW fd, NEW cmd, NEW nonblock, KFcntl(fd, cmd, nonblock) PROVE MountStep
  BY <1>5 DEF KFcntl, volume, MountStep
<1>6. ASSUME NEW path, KStat(path) PROVE MountStep
  BY <1>6 DEF KStat, volume, MountStep
<1>7. ASSUME NEW path, KChdir(path) PROVE MountStep
  <2>1. CASE ChdirDone(path)
    BY <1>7, <2>1 DEF KChdir, ChdirDone, InodeLookup, InodeRead, MountStep
  <2>2. CASE ~ChdirDone(path)
    BY <1>7, <2>2 DEF KChdir, ChdirRefused, MountStep
  <2> QED
    BY <2>1, <2>2
<1>8. ASSUME NEW dev, BlkdevCall(dev) PROVE MountStep
  BY <1>8 DEF BlkdevCall, BlkdevSeekRead, BlkdevWrite, BlkdevNull, MountStep
<1> QED
  BY <1>1, <1>2, <1>3, <1>4, <1>5, <1>6, <1>7, <1>8 DEF SystemCall

\* While the disk stays, what was opened from it stays current.
LEMMA CachedStep ==
    ASSUME CachedInodeCurrent, FilesStep, MountStep
    PROVE  CachedInodeCurrent'
<1> SUFFICES ASSUME NEW fd \in OpenFds'
             PROVE  /\ drive' \notin raw' => /\ InodeLookup(fdt[fd].inode)'
                                             /\ fdt'[fd].fd_inode = Inode(fdt[fd].inode)'
                    /\ fdt'[fd].fd_inode.size <= MaxFileSize
  BY DEF CachedInodeCurrent
<1>1. /\ drive \notin raw => /\ InodeLookup(fdt'[fd].inode)
                            /\ fdt'[fd].fd_inode = Inode(fdt'[fd].inode)
      /\ fdt'[fd].fd_inode.size <= MaxFileSize
  BY DEF CachedInodeCurrent, FilesStep
<1>2. CASE drive' \notin raw'
  <2>1. UNCHANGED <<active, drive, per_group, content>> /\ drive \notin raw
    BY <1>2 DEF MountStep
  <2> QED
    BY <1>1, <2>1 DEF InodeLookup, InodeRead, OtherGroup, Inode
<1> QED
  BY <1>1, <1>2

LEMMA ShapeStep ==
    ASSUME VolumeShape, FilesStep, MountStep
    PROVE  VolumeShape'
<1>1. \A fd \in OpenFds' : InodeRead(fdt'[fd].inode)
  BY DEF VolumeShape, FilesStep, InodeLookup
<1>2. \A fd \in OpenFds' : InodeRead(fdt[fd].inode)'
  BY <1>1 DEF MountStep, InodeRead, OtherGroup
<1>3. active' /\ drive' \notin raw' => Inode(cwd_inode)'.mode = "dir"
  BY DEF VolumeShape, MountStep, Inode
<1> QED
  BY <1>2, <1>3 DEF VolumeShape

LEMMA NextInv == IInv /\ [Next]_vars => IInv'
<1> SUFFICES ASSUME IInv, [Next]_vars PROVE IInv'
  OBVIOUS
<1>1. TInv /\ CachedInodeCurrent /\ VolumeShape
  BY DEF IInv, TInv
<1>2. CASE SystemCall
  <2>1. MountStep
    BY <1>2, SystemCallMount
  <2>2. TStep /\ ServedFileIsOpen' /\ ReadInsideFile'
    BY <1>1, <1>2, SystemCallInv, ReplyInv
  <2> QED
    BY <1>1, <2>1, <2>2, CachedStep, ShapeStep DEF TInv, TStep, IInv
<1>3. CASE UNCHANGED vars
  BY <1>3 DEF IInv, TypeOK, CwdSet, VolumeShape, StandardStreamsKept,
              CachedInodeCurrent, TableShape, ServedFileIsOpen, ReadInsideFile,
              OpenFds, InodeLookup, InodeRead, OtherGroup, Inode, vars
<1> QED
  BY <1>2, <1>3 DEF Next, Halted

\* The table is well formed, its parts agree, and the last read was honest, in
\* every state that calls of kopen(), kclose(), kread(), klseek(), kfcntl(),
\* kwrite(), kchdir(), kernel_stat() and the raw _blkdev calls reach.
THEOREM Invariant == Spec => []IInv
BY InitInv, NextInv, PTL DEF Spec

\* Every variable keeps the type its C declaration gives it: offsets stay in 32
\* bits, the bitmap in its 256 bytes, and klseek() of a closed descriptor is safe.
THEOREM TypeCorrect == Spec => []TypeOK
<1>1. IInv => TypeOK
  BY DEF IInv
<1> QED
  BY <1>1, Invariant, PTL

\* fcntl_close() clearing the cached inode is enough: kread(), which never looks
\* at a descriptor's state, serves no file that is closed.
THEOREM ServesOpenFiles == Spec => []ServedFileIsOpen
<1>1. IInv => ServedFileIsOpen
  BY DEF IInv
<1> QED
  BY <1>1, Invariant, PTL

\* Wherever klseek() put the offset, kread() returns bytes of the file only.
THEOREM ReadsInside == Spec => []ReadInsideFile
<1>1. IInv => ReadInsideFile
  BY DEF IInv
<1> QED
  BY <1>1, Invariant, PTL

\* kread() and SEEK_END work from the same size: the inode fcntl_open_inode()
\* cached is the one the volume holds under the descriptor's inode number, for as
\* long as no program writes the drive raw.
THEOREM CacheIsCurrent == Spec => []CachedInodeCurrent
<1>1. IInv => CachedInodeCurrent
  BY DEF IInv
<1> QED
  BY <1>1, Invariant, PTL

\* No sequence of kopen() and kclose() reassigns descriptors 0, 1 and 2.
THEOREM StreamsKept == Spec => []StandardStreamsKept
<1>1. IInv => StandardStreamsKept
  BY DEF IInv
<1> QED
  BY <1>1, Invariant, PTL

-----------------------------------------------------------------------------
\* The steps of the action properties OpenKeepsFile, DescriptorLedger,
\* OpenReturnsFresh and FullMeansAllOpen.
KeepsStep ==
    \A fd \in OpenFds : fd \in OpenFds' =>
        /\ fdt'[fd].inode = fdt[fd].inode
        /\ fdt'[fd].fd_inode = fdt[fd].fd_inode
        /\ fdt'[fd].fs
LedgerStep ==
    OpenFds' = IF ret'.val < 0 THEN OpenFds
               ELSE IF ret'.call = "open" THEN OpenFds \cup {ret'.val}
               ELSE IF ret'.call = "close" THEN OpenFds \ {ret'.fd}
               ELSE OpenFds
FreshStep ==
    ret'.call = "open" /\ ret'.val >= 0 =>
        /\ ret'.val \notin OpenFds
        /\ \A fd \in 3 .. ret'.val - 1 : fd \in OpenFds
FullStep ==
    ret'.call = "open" /\ ~hung' /\ errno' = "EMFILE" /\ ret'.val = -1 =>
        3 .. MAX_FDS - 1 \subseteq OpenFds
Steps == KeepsStep /\ LedgerStep /\ FreshStep /\ FullStep

\* The call opened and closed nothing, and replaced no open descriptor's file.
Quiet ==
    \A fd \in Fds :
        /\ fdt'[fd].state = "OPEN" <=> fdt[fd].state = "OPEN"
        /\ fdt[fd].state = "OPEN" => /\ fdt'[fd].inode = fdt[fd].inode
                                     /\ fdt'[fd].fd_inode = fdt[fd].fd_inode
                                     /\ fdt'[fd].fs = fdt[fd].fs

LEMMA QuietCall ==
    ASSUME TInv, Quiet, ret'.val = -1 \/ ret'.call \notin {"open", "close"},
           FullStep
    PROVE  Steps
<1>1. OpenFds' = OpenFds
  BY DEF Quiet, OpenFds
<1>2. KeepsStep
  BY DEF KeepsStep, Quiet, OpenFds, TInv, TableShape
<1>3. LedgerStep /\ FreshStep
  BY <1>1 DEF LedgerStep, FreshStep
<1> QED
  BY <1>2, <1>3 DEF Steps

LEMMA OpenSteps ==
    ASSUME TInv, NEW path \in Paths, NEW creat \in BOOLEAN, KOpen(path, creat)
    PROVE  Steps
<1> DEFINE inode == PathToInode(path)
<1>0. CASE OpenHangs(path)
  <2>1. Quiet /\ ret'.val = -1 /\ hung'
    BY <1>0 DEF OpenHangs, Hang, Keep, Reply, Quiet, table
  <2> QED
    BY <2>1, QuietCall DEF FullStep
<1>1. CASE OpenMissing(path)
  <2>1. Quiet /\ ret'.val = -1 /\ FullStep
    BY <1>1 DEF OpenMissing, PathErrno, Fail, Reply, Quiet, FullStep, table
  <2> QED
    BY <2>1, QuietCall
<1>2. CASE OpenCreate(path)
  <2>1. ret'.val = -1 /\ ret'.call = "create"
    BY <1>2 DEF OpenCreate, Fail, Reply
  <2>2. fdt' = fdt \/ fdt' = ReadyTable
    BY <1>2 DEF OpenCreate
  <2>3. Quiet
    BY <2>2, ReadyTableFacts DEF Quiet
  <2> QED
    BY <2>1, <2>3, QuietCall DEF FullStep
<1>3. CASE OpenNotLive(path)
  <2>1. Quiet /\ ret'.val = -1 /\ FullStep
    BY <1>3 DEF OpenNotLive, Fail, Reply, Quiet, FullStep
  <2> QED
    BY <2>1, QuietCall
<1>4. CASE OpenFound(path)
  <2>1. CASE OpenFull
    <3>1. FreeFds = {} /\ fdt' = ReadyTable /\ ret'.val = -1
      BY <2>1 DEF OpenFull, Fail, Reply
    <3>2. Quiet
      BY <3>1, ReadyTableFacts DEF Quiet
    <3>3. \A fd \in Fds : fd >= 3 => fd \in OpenFds
      BY <3>1, ReadyTableFacts DEF FreeFds, OpenFds
    <3>4. 3 .. MAX_FDS - 1 \subseteq OpenFds
      BY <3>3, TableAssumption
    <3> QED
      BY <3>1, <3>2, <3>4, QuietCall DEF FullStep
  <2>2. CASE OpenTooBig(inode)
    <3>1. /\ FreeFds # {} /\ ret'.val = -1 /\ errno' = "EFBIG"
          /\ fdt' = [ReadyTable EXCEPT ![NewFd].fd_inode = Inode(inode)]
      BY <2>2 DEF OpenTooBig, Fail, Reply
    <3>2. /\ NewFd \in Fds /\ fdt[NewFd].state # "OPEN"
          /\ ReadyTable \in [Fds -> Descriptor]
      BY <3>1, NewFdFacts, ReadyTableFacts
    <3>3. /\ \A fd \in Fds \ {NewFd} : fdt'[fd] = ReadyTable[fd]
          /\ fdt'[NewFd].state = ReadyTable[NewFd].state
      BY <3>1, <3>2 DEF Descriptor
    <3>4. Quiet
      BY <3>2, <3>3, ReadyTableFacts DEF Quiet
    <3> QED
      BY <3>1, <3>4, QuietCall DEF FullStep
  <2>3. CASE OpenSlot(inode)
    <3>1. /\ FreeFds # {} /\ errno' = "0"
          /\ ret'.call = "open" /\ ret'.val = NewFd
          /\ fdt' = [ReadyTable EXCEPT ![NewFd] = Opened(@, inode)]
      BY <2>3 DEF OpenSlot, Succeed, Reply
    <3>2. /\ NewFd \in Fds /\ NewFd >= 3 /\ fdt[NewFd].state # "OPEN"
          /\ \A fd \in 3 .. NewFd - 1 : fdt[fd].state = "OPEN"
          /\ ReadyTable \in [Fds -> Descriptor]
      BY <3>1, NewFdFacts, ReadyTableFacts
    <3>3. inode \in Inodes
      BY <1>4, PathIsInode DEF OpenFound, InodeLookup, InodeRead, TInv
    <3>4. fdt'[NewFd].state = "OPEN"
      BY <3>1, <3>2, <3>3, OpenedFacts
    <3>5. /\ \A fd \in Fds \ {NewFd} : fdt'[fd] = ReadyTable[fd]
          /\ \A fd \in Fds \ {NewFd} : fdt'[fd].state = "OPEN" <=> fdt[fd].state = "OPEN"
          /\ \A fd \in OpenFds : fdt'[fd] = fdt[fd]
      BY <3>1, <3>2, ReadyTableFacts DEF OpenFds
    <3>6. OpenFds' = OpenFds \cup {NewFd}
      BY <3>2, <3>4, <3>5 DEF OpenFds
    <3>7. KeepsStep
      BY <3>5 DEF KeepsStep, OpenFds, TInv, TableShape
    <3>8. NewFd \in Nat
      BY <3>2, TableAssumption
    <3>9. LedgerStep
      BY <3>1, <3>6, <3>8 DEF LedgerStep
    <3>10. \A fd \in 3 .. NewFd - 1 : fd \in Fds
      BY <3>2, TableAssumption
    <3>11. FreshStep
      BY <3>1, <3>2, <3>10 DEF FreshStep, OpenFds
    <3>12. FullStep
      BY <3>1 DEF FullStep
    <3> QED
      BY <3>7, <3>9, <3>11, <3>12 DEF Steps
  <2> QED
    BY <1>4, <2>1, <2>2, <2>3 DEF OpenFound
<1> QED
  BY <1>0, <1>1, <1>2, <1>3, <1>4 DEF KOpen

LEMMA CloseSteps ==
    ASSUME TInv, NEW fd, KClose(fd)
    PROVE  Steps
<1>1. CASE fd \in Fds /\ fdt[fd].state = "OPEN"
  <2>1. /\ fdt' = [fdt EXCEPT ![fd] =
                     [@ EXCEPT !.state = "UNUSED", !.inode = 0, !.offset = 0,
                               !.fd_inode = NoImage]]
        /\ ret'.call = "close" /\ ret'.fd = fd /\ ret'.val = 0
    BY <1>1 DEF KClose, Succeed, Reply
  <2>2. fdt \in [Fds -> Descriptor]
    BY DEF TInv, TypeOK
  <2>3. /\ fdt'[fd].state = "UNUSED"
        /\ \A g \in Fds \ {fd} : fdt'[g] = fdt[g]
    BY <1>1, <2>1, <2>2 DEF Descriptor
  <2>4. OpenFds' = OpenFds \ {fd}
    BY <1>1, <2>3 DEF OpenFds
  <2>5. KeepsStep
    BY <2>3 DEF KeepsStep, OpenFds, TInv, TableShape
  <2> QED
    BY <2>1, <2>4, <2>5 DEF Steps, LedgerStep, FreshStep, FullStep
<1>2. CASE ~(fd \in Fds /\ fdt[fd].state = "OPEN")
  <2>1. Quiet /\ ret'.val = -1 /\ FullStep
    BY <1>2 DEF KClose, Fail, Reply, Quiet, FullStep
  <2> QED
    BY <2>1, QuietCall
<1> QED
  BY <1>1, <1>2

\* The calls that move an offset or set a flag change nothing Steps looks at.
LEMMA MoveIsQuiet ==
    ASSUME TInv, NEW fd \in Fds, NEW v,
           \/ fdt' = fdt
           \/ fdt' = [fdt EXCEPT ![fd].offset = v]
           \/ fdt' = [fdt EXCEPT ![fd].nonblock = v]
    PROVE  Quiet
<1>1. fdt \in [Fds -> Descriptor] /\ fdt[fd] \in Descriptor
  BY DEF TInv, TypeOK
<1>2. \A g \in Fds : /\ fdt'[g].state = fdt[g].state
                     /\ fdt'[g].inode = fdt[g].inode
                     /\ fdt'[g].fd_inode = fdt[g].fd_inode
                     /\ fdt'[g].fs = fdt[g].fs
  <2>1. CASE fdt' = fdt
    BY <2>1
  <2>2. CASE fdt' = [fdt EXCEPT ![fd].offset = v]
    <3>1. fdt' = [fdt EXCEPT ![fd] = [fdt[fd] EXCEPT !.offset = v]]
      BY <2>2
    <3> QED
      BY <1>1, <3>1 DEF Descriptor
  <2>3. CASE fdt' = [fdt EXCEPT ![fd].nonblock = v]
    <3>1. fdt' = [fdt EXCEPT ![fd] = [fdt[fd] EXCEPT !.nonblock = v]]
      BY <2>3
    <3> QED
      BY <1>1, <3>1 DEF Descriptor
  <2> QED
    BY <2>1, <2>2, <2>3
<1> QED
  BY <1>2 DEF Quiet

\* Calls tell who they are.
LEMMA ReadNamed ==
    ASSUME NEW fd, NEW count, KRead(fd, count)
    PROVE  ret'.call = "read"
<1>1. CASE ReadConsole(fd, count) \/ ReadNull(fd, count) \/ Hang("read", fd)
  BY <1>1 DEF ReadConsole, ReadNull, Hang, Fail, Keep, Succeed, Reply
<1>2. CASE ReadOutOfRange(fd) \/ ReadEof(fd) \/ ReadUnmapped(fd, count)
  BY <1>2 DEF ReadOutOfRange, ReadEof, ReadUnmapped, Hang, Fail, Keep, Reply
<1>3. CASE ReadData(fd, count)
  BY <1>3 DEF ReadData, Reply
<1> QED
  BY <1>1, <1>2, <1>3 DEF KRead

LEMMA SeekNamed ==
    ASSUME NEW fd, NEW by, NEW whence, KLseek(fd, by, whence)
    PROVE  ret'.call = "lseek"
BY DEF KLseek, SeekEnd, SeekCur, SeekSet, Hang, Fail, Keep, Succeed, Reply

LEMMA ReadSteps ==
    ASSUME TInv, NEW fd, NEW count \in ByteCounts, KRead(fd, count)
    PROVE  Steps
<1>1. ret'.call = "read"
  BY ReadNamed
<1>2. CASE UNCHANGED fdt
  BY <1>1, <1>2, QuietCall DEF Quiet, FullStep
<1>3. CASE fd \in Fds /\ \E o : fdt' = [fdt EXCEPT ![fd].offset = o]
  BY <1>1, <1>3, MoveIsQuiet, QuietCall DEF FullStep
<1> QED
  BY <1>2, <1>3 DEF KRead, ReadConsole, ReadNull, ReadOutOfRange, ReadEof,
                    ReadData, ReadUnmapped

LEMMA SeekSteps ==
    ASSUME TInv, NEW fd, NEW by \in Displacements,
           NEW whence \in {"SET", "CUR", "END", "?"}, KLseek(fd, by, whence)
    PROVE  Steps
<1>1. ret'.call = "lseek"
  BY SeekNamed
<1>2. CASE UNCHANGED fdt
  BY <1>1, <1>2, QuietCall DEF Quiet, FullStep
<1>3. CASE fd \in Fds /\ \E o : fdt' = [fdt EXCEPT ![fd].offset = o]
  BY <1>1, <1>3, MoveIsQuiet, QuietCall DEF FullStep
<1> QED
  BY <1>2, <1>3 DEF KLseek, SeekEnd, SeekCur, SeekSet, SeekTo

LEMMA FcntlSteps ==
    ASSUME TInv, NEW fd, NEW cmd \in {"F_GETFL", "F_SETFL"},
           NEW nonblock \in NonblockFlags, KFcntl(fd, cmd, nonblock)
    PROVE  Steps
<1>1. ret'.call = "fcntl"
  BY DEF KFcntl, Hang, Keep, Reply
<1>2. CASE UNCHANGED fdt
  BY <1>1, <1>2, QuietCall DEF Quiet, FullStep
<1>3. CASE fd \in Fds /\ fdt' = [fdt EXCEPT ![fd].nonblock = nonblock]
  BY <1>1, <1>3, MoveIsQuiet, QuietCall DEF FullStep
<1> QED
  BY <1>2, <1>3 DEF KFcntl

LEMMA OtherSteps ==
    ASSUME TInv, UNCHANGED fdt, ret'.call \in {"write", "chdir", "stat", "blkdev"}
    PROVE  Steps
BY QuietCall DEF Quiet, FullStep

LEMMA SystemCallSteps ==
    ASSUME TInv, SystemCall
    PROVE  Steps
<1>1. ASSUME NEW fd, NEW count, KWrite(fd, count)
      PROVE  Steps
  <2>1. UNCHANGED fdt /\ ret'.call = "write"
    BY <1>1 DEF KWrite, Keep, Fail, Reply, table
  <2> QED
    BY <2>1, OtherSteps
<1>2. ASSUME NEW path \in Paths, KChdir(path) \/ KStat(path) PROVE Steps
  <2>1. UNCHANGED fdt /\ ret'.call \in {"chdir", "stat"}
    BY <1>2 DEF KChdir, ChdirRefused, ChdirDone, KStat, Hang, Keep, Fail, Succeed,
                Reply, table
  <2> QED
    BY <2>1, OtherSteps
<1>3. CASE \E path \in Paths, creat \in BOOLEAN : KOpen(path, creat)
  BY <1>3, OpenSteps
<1>4. CASE \E fd \in Fildes : KClose(fd)
  BY <1>4, CloseSteps
<1>5. CASE \E fd \in Fildes, count \in ByteCounts : KRead(fd, count) \/ KWrite(fd, count)
  BY <1>1, <1>5, ReadSteps
<1>6. CASE \E fd \in Fildes, by \in Displacements, whence \in {"SET", "CUR", "END", "?"} :
              KLseek(fd, by, whence)
  BY <1>6, SeekSteps
<1>7. CASE \E fd \in Fildes, cmd \in {"F_GETFL", "F_SETFL"}, nonblock \in NonblockFlags :
              KFcntl(fd, cmd, nonblock)
  BY <1>7, FcntlSteps
<1>8. ASSUME NEW dev, BlkdevCall(dev) PROVE Steps
  <2>1. UNCHANGED fdt /\ ret'.call = "blkdev"
    BY <1>8 DEF BlkdevCall, BlkdevSeekRead, BlkdevWrite, BlkdevNull, Hang, Keep,
                Reply, table
  <2> QED
    BY <2>1, OtherSteps
<1> QED
  BY <1>2, <1>3, <1>4, <1>5, <1>6, <1>7, <1>8 DEF SystemCall

LEMMA CallSteps == IInv /\ [Next]_vars => Steps \/ UNCHANGED vars
BY SystemCallSteps DEF IInv, TInv, Next, Halted

-----------------------------------------------------------------------------
\* No call replaces the file of a descriptor that stays open: not a failing
\* kopen(), which does write the slot it found, and not a close of another one.
THEOREM KeepsFile == Spec => OpenKeepsFile
<1>1. IInv /\ [Next]_vars => [KeepsStep]_vars
  BY CallSteps DEF Steps
<1> QED
  BY <1>1, Invariant, PTL DEF Spec, OpenKeepsFile, KeepsStep

\* Descriptors are opened by kopen() alone and closed by kclose() alone, one at
\* a time, and both tell the program which.
THEOREM Ledger == Spec => DescriptorLedger
<1>1. IInv /\ [Next]_vars => [LedgerStep]_vars
  BY CallSteps DEF Steps
<1> QED
  BY <1>1, Invariant, PTL DEF Spec, DescriptorLedger, LedgerStep

\* kopen() returns the lowest descriptor above the console's that is not open.
THEOREM ReturnsFresh == Spec => OpenReturnsFresh
<1>1. IInv /\ [Next]_vars => [FreshStep]_vars
  BY CallSteps DEF Steps
<1> QED
  BY <1>1, Invariant, PTL DEF Spec, OpenReturnsFresh, FreshStep

\* No slot is lost: EMFILE means that every descriptor above 2 is open.
THEOREM FullIsFull == Spec => FullMeansAllOpen
<1>1. IInv /\ [Next]_vars => [FullStep]_vars
  BY CallSteps DEF Steps
<1> QED
  BY <1>1, Invariant, PTL DEF Spec, FullMeansAllOpen, FullStep

-----------------------------------------------------------------------------
\* open(O_CREAT) and the bitmap.

\* The bit ext2_next_free_inode() leads to: the lowest clear one, or the last.
LEMMA BitFacts ==
    ASSUME NEW bits \in SUBSET Bits
    PROVE  LET b == BitOf(NextFree(bits))
           IN  /\ b \in Bits
               /\ \/ \A c \in Bits \ bits : b <= c
                  \/ b = BitmapBits - 1 /\ 0 .. BITMAP_BYTES - 1 \subseteq bits
<1>1. CASE NextFree(bits) = 0 /\ 0 .. BITMAP_BYTES - 1 \subseteq bits
  <2>1. BitOf(0) = BitmapBits - 1
    <3>1. \A n \in Nat \ {0} : (0 - 1) % n = n - 1
      BY Z3
    <3> QED
      BY <3>1, BitmapSize DEF BitOf
  <2> QED
    BY <1>1, <2>1, BitOfInBits
<1>2. CASE /\ NextFree(bits) \in 1 .. BITMAP_BYTES
           /\ \A c \in Bits \ bits : NextFree(bits) - 1 <= c
  <2> DEFINE k == NextFree(bits)
  <2>1. BitOf(k) = k - 1
    <3>1. \A m \in Nat, n \in Nat \ {0} : m < n => m % n = m
      BY Z3
    <3>2. k - 1 \in Nat /\ k - 1 < BitmapBits
      BY <1>2, BitmapSize, BitmapAssumption
    <3> QED
      BY <3>1, <3>2, BitmapSize DEF BitOf
  <2>2. BitOf(k) \in Bits
    BY <1>2, BitOfInBits, BitmapAssumption
  <2> QED
    BY <1>2, <2>1, <2>2
<1> QED
  BY <1>1, <1>2, NextFreeFacts

CreateStep ==
    bitmap' # bitmap /\ ret'.call # "blkdev" =>
        \E b \in Bits \ bitmap[drive] :
            /\ bitmap' = [bitmap EXCEPT ![drive] = @ \cup {b}]
            /\ \/ \A c \in Bits \ bitmap[drive] : b <= c
               \/ b = BitmapBits - 1 /\ 0 .. BITMAP_BYTES - 1 \subseteq bitmap[drive]
            /\ ret'.call = "create"

LEMMA CallCreates == IInv /\ [Next]_vars => CreateStep
<1> SUFFICES ASSUME IInv, [Next]_vars, bitmap' # bitmap, ret'.call # "blkdev"
             PROVE  CreateStep
  BY DEF CreateStep
<1>0. ASSUME NEW dev, BlkdevCall(dev) PROVE FALSE
  BY <1>0 DEF BlkdevCall, BlkdevSeekRead, BlkdevWrite, BlkdevNull, Hang, Keep, Reply
<1>1. PICK path \in Paths : OpenCreate(path)
  BY <1>0 DEF Next, SystemCall, Halted, KOpen, OpenHangs, OpenMissing, OpenNotLive,
         OpenFound, KClose, KRead, KWrite, KLseek, KFcntl, KChdir, KStat, alloc, vars
<1>2. NewInode /\ ret'.call = "create"
  BY <1>1 DEF OpenCreate, Fail, Reply, alloc
<1> DEFINE b == BitOf(NextFree(bitmap[drive]))
<1>3. b \notin bitmap[drive] /\ bitmap' = [bitmap EXCEPT ![drive] = @ \cup {b}]
  BY <1>2 DEF NewInode, TakeInode, alloc
<1>4. bitmap[drive] \in SUBSET Bits
  BY DEF IInv, TypeOK
<1> QED
  BY <1>2, <1>3, <1>4, BitFacts DEF CreateStep

\* A create marks one inode that was free, in the bitmap of the selected drive,
\* and no other call writes a bitmap, but for _blkdevwrite(), which writes what
\* the program likes.
THEOREM CreateTakesOne == Spec => CreateTakesFreeInode
<1>1. IInv /\ [Next]_vars => [CreateStep]_vars
  BY CallCreates
<1> QED
  BY <1>1, Invariant, PTL DEF Spec, CreateTakesFreeInode, CreateStep

-----------------------------------------------------------------------------
\* The assertions that stop the machine.

\* On a sound volume that no program wrote raw, every path is looked up: the
\* current directory is a live one, and so is all that a walk from it meets.
LEMMA SoundPaths ==
    ASSUME IInv, drive \notin raw, Sound(content[drive]), NEW path \in Paths
    PROVE  ~FindHangs(path) /\ (active => ~ChdirAsserts(path))
<1> DEFINE inode == PathToInode(path)
<1>1. active => cwd_inode \in Inodes /\ Inode(cwd_inode).mode = "dir"
  BY DEF IInv, TypeOK, CwdSet, VolumeShape
<1>2. Inode(ROOT_INODE).mode = "dir" /\ ~OtherGroup(ROOT_INODE)
  BY DEF Sound, Inode
<1>3. CASE path = RootPath
  <2>1. inode = ROOT_INODE /\ ~PathHangs(path) /\ ROOT_INODE # 0
    BY <1>3, TableAssumption DEF PathToInode, PathHangs
  <2> QED
    BY <1>1, <1>2, <2>1, TableAssumption
       DEF FindHangs, ChdirAsserts, LookupHangs, InodeLookup, InodeRead
<1>4. CASE path # RootPath /\ ~active
  <2>1. inode = 0 /\ ~PathHangs(path)
    BY <1>4 DEF PathToInode, PathHangs
  <2> QED
    BY <1>4, <2>1 DEF FindHangs, LookupHangs
<1>5. CASE path # RootPath /\ active
  <2> DEFINE w == WalkOf(path)
  <2>1. content[drive] \in Contents
    BY DEF IInv, TypeOK
  <2>2. ~w.asserts /\ \A i \in w.looks : ~OtherGroup(i)
    BY <1>1, <1>5 DEF Sound, Inode, WalkOf
  <2>3. ~PathHangs(path) /\ inode = w.inode
    BY <1>5, <2>2 DEF PathHangs, LookupHangs, PathToInode
  <2>4. w.inode # 0 /\ ~w.asserts =>
            w.inode \in w.looks /\ OnDisk[content[drive]][w.inode].mode # "none"
    BY <1>1, <1>5, <2>1, WalkAssumption DEF WalkOf
  <2> HIDE DEF w
  <2>5. inode # 0 => ~OtherGroup(inode) /\ Inode(inode).mode # "none"
    BY <2>2, <2>3, <2>4 DEF Inode
  <2> QED
    BY <1>1, <1>5, <2>3, <2>5, TableAssumption
       DEF FindHangs, ChdirAsserts, LookupHangs, InodeLookup, InodeRead
<1> QED
  BY <1>3, <1>4, <1>5

LEMMA HangStep ==
    ASSUME IInv, HangsOnlyOnMisuse, [Next]_vars
    PROVE  HangsOnlyOnMisuse'
<1>1. TInv
  BY DEF IInv, TInv
<1>2. CASE UNCHANGED vars
  BY <1>2 DEF HangsOnlyOnMisuse, OpenFds, Sound, OtherGroup, vars
<1>3. CASE hung' = hung /\ SystemCall
  <2>1. ~hung
    BY <1>3 DEF SystemCall, KOpen, KClose, KRead, KWrite, KLseek, KFcntl, KChdir,
                KStat, BlkdevCall
  <2> QED
    BY <1>3, <2>1 DEF HangsOnlyOnMisuse
<1>4. CASE hung' # hung /\ SystemCall
  <2>1. ASSUME NEW fd, fd \notin OpenFds', ret'.fd = fd,
               ret'.call \in {"read", "lseek", "fcntl"}
        PROVE  HangsOnlyOnMisuse'
    BY <2>1 DEF HangsOnlyOnMisuse
  <2>2. ASSUME NEW path \in Paths,
               FindHangs(path) \/ (active /\ ChdirAsserts(path)),
               ret'.call \in {"open", "chdir", "stat"},
               UNCHANGED <<drive, per_group, content, raw>>
        PROVE  HangsOnlyOnMisuse'
    <3>1. drive \in raw \/ ~Sound(content[drive])
      BY <2>2, SoundPaths
    <3>2. drive' \in raw' \/ ~Sound(content[drive])'
      BY <2>2, <3>1 DEF Sound, OtherGroup
    <3> QED
      BY <2>2, <3>2 DEF HangsOnlyOnMisuse
  <2>3. ASSUME NEW fd \in Fildes, NEW count \in ByteCounts, KRead(fd, count)
        PROVE  HangsOnlyOnMisuse'
    <3>0. ret'.call = "read"
      BY <2>3, ReadNamed
    <3>1. CASE fd \notin Fds
      BY <2>1, <2>3, <3>0, <3>1 DEF KRead, Hang, Keep, Reply, OpenFds
    <3>2. CASE fd \in Fds /\ ReadNull(fd, count)
      <4>1. ret'.fd = fd /\ fdt'[fd].state # "OPEN"
        BY <1>1, <3>2 DEF ReadNull, Hang, Fail, Keep, Succeed, Reply, TInv, TableShape
      <4> QED
        BY <2>1, <3>0, <4>1 DEF OpenFds
    <3>3. CASE fd \in Fds /\ ReadUnmapped(fd, count)
      <4>1. ret'.fd = fd /\ fdt'[fd].fd_inode = fdt[fd].fd_inode
        BY <1>1, <3>3 DEF ReadUnmapped, Hang, Keep, Reply, TInv, TypeOK, Descriptor
      <4>2. fdt[fd].fd_inode.size > MappableSize
        BY <1>1, <3>3, UnmappedFacts
      <4> QED
        BY <3>0, <4>1, <4>2 DEF HangsOnlyOnMisuse
    <3> QED
      BY <1>4, <2>3, <3>1, <3>2, <3>3
         DEF KRead, ReadConsole, ReadOutOfRange, ReadEof, ReadData
  <2>4. ASSUME NEW fd \in Fildes, NEW by \in Displacements,
               NEW whence \in {"SET", "CUR", "END", "?"}, KLseek(fd, by, whence)
        PROVE  HangsOnlyOnMisuse'
    <3>1. ret'.call = "lseek" /\ ret'.fd = fd /\ UNCHANGED fdt
      BY <1>4, <2>4 DEF KLseek, Hang, Keep, Reply
    <3>2. fd \notin Fds \/ LookupHangs(fdt[fd].inode)
      BY <1>4, <2>4 DEF KLseek
    <3>3. fd \notin OpenFds
      BY <3>2 DEF IInv, VolumeShape, LookupHangs, InodeRead, OpenFds
    <3> QED
      BY <2>1, <3>1, <3>3 DEF OpenFds
  <2>5. ASSUME NEW fd \in Fildes, NEW cmd \in {"F_GETFL", "F_SETFL"},
               NEW nonblock \in NonblockFlags, KFcntl(fd, cmd, nonblock)
        PROVE  HangsOnlyOnMisuse'
    BY <1>4, <2>1, <2>5 DEF KFcntl, Hang, Keep, Reply, OpenFds
  <2>6. ASSUME NEW path \in Paths, NEW creat \in BOOLEAN, KOpen(path, creat)
        PROVE  HangsOnlyOnMisuse'
    <3>1. FindHangs(path) /\ OpenHangs(path)
      BY <1>4, <2>6 DEF KOpen, OpenMissing, OpenCreate, OpenNotLive, OpenFound
    <3>2. ret'.call = "open" /\ UNCHANGED <<drive, per_group, content, raw>>
      BY <2>6, <3>1 DEF KOpen, OpenHangs, Hang, Keep, Reply, volume
    <3> QED
      BY <2>2, <3>1, <3>2
  <2>7. ASSUME NEW path \in Paths, KChdir(path) PROVE HangsOnlyOnMisuse'
    <3>1. active /\ (ChdirAsserts(path) \/ FindHangs(path)) /\ Hang("chdir", -1)
      BY <1>4, <2>7 DEF KChdir, ChdirRefused, ChdirDone
    <3>2. ret'.call = "chdir" /\ UNCHANGED <<drive, per_group, content, raw>>
      BY <2>7, <3>1 DEF KChdir, Hang, Keep, Reply
    <3> QED
      BY <2>2, <3>1, <3>2
  <2>8. ASSUME NEW path \in Paths, KStat(path) PROVE HangsOnlyOnMisuse'
    <3>1. FindHangs(path) /\ Hang("stat", -1)
      BY <1>4, <2>8 DEF KStat
    <3>2. ret'.call = "stat" /\ UNCHANGED <<drive, per_group, content, raw>>
      BY <2>8, <3>1 DEF KStat, Hang, Keep, Reply, volume
    <3> QED
      BY <2>2, <3>1, <3>2
  <2>9. ASSUME NEW dev \in BlockDevices, BlkdevCall(dev) PROVE HangsOnlyOnMisuse'
    <3>1. ~Registered(dev) /\ Hang("blkdev", dev)
      BY <1>4, <2>9 DEF BlkdevCall, BlkdevSeekRead, BlkdevWrite, BlkdevNull
    <3>2. ret'.call = "blkdev" /\ ret'.fd = dev
      BY <3>1 DEF Hang, Keep, Reply
    <3> QED
      BY <3>1, <3>2 DEF HangsOnlyOnMisuse, Registered
  <2> QED
    BY <1>4, <2>3, <2>4, <2>5, <2>6, <2>7, <2>8, <2>9
       DEF SystemCall, KClose, KWrite
<1> QED
  BY <1>2, <1>3, <1>4 DEF Next, Halted

\* On a sound volume that no program writes raw, a program that uses only
\* descriptors it opened, on files the block map reaches, and the one block
\* device there is, never stops the machine: no sequence of calls leaves an open,
\* a chdir, a stat or a lseek with a lookup that does not end.
THEOREM HangsOnMisuse == Spec => []HangsOnlyOnMisuse
<1>1. Init => HangsOnlyOnMisuse
  BY DEF Init, HangsOnlyOnMisuse
<1> QED
  BY <1>1, HangStep, Invariant, PTL DEF Spec
=============================================================================
