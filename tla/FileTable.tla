------------------------------ MODULE FileTable -----------------------------
(***************************************************************************)
(* The descriptor table of the BDOS and the system calls that work on it:   *)
(* kopen, kclose, kread, klseek, kfcntl, kwrite, kchdir and kernel_stat; and *)
(* blkdevseek, blkdevread and blkdevwrite, which go to the disk behind its   *)
(* back.  One call is one step: the machine has one processor and no         *)
(* interrupt handler touches this state.  The block loop inside kread is     *)
(* FileRead.                                                                *)
(*                                                                          *)
(* What a drive holds is one of Contents.  Names are abstract: Walk says     *)
(* what ext2_path_to_inode() does for a path, from a directory (Ext2Path is  *)
(* the lookup itself).                                                       *)
(***************************************************************************)
EXTENDS Ext2Layout, InodeBitmap, FiniteSets

CONSTANTS MAX_FDS,       \* descriptors in the table (16)
          WORD,          \* number of values of a uint32_t (2^32)
          Drives,        \* drives a volume can be in
          Contents,      \* what the bytes of a drive can be
          FirstContent,  \* FirstContent[drive]: what they are at boot
          RawContents,   \* what a program's own writes can make of them
          RawBitmaps,    \* and of the bitmap among them
          Inodes,        \* inode numbers, without 0
          ROOT_INODE,    \* EXT2_ROOT_INODE (2)
          Paths,         \* the paths programs name
          RootPath,      \* the path "/"
          Walk,          \* Walk[content][directory][path]: see Walks
          BlockLists,    \* the i_block arrays of inodes
          NoBlocks,      \* the array with no block, as memset leaves it
          OnDisk,        \* OnDisk[content][inode]: the inode in the inode table
          PerGroup,      \* PerGroup[content]: s_inodes_per_group
          Mountable,     \* the contents ext2_probe() mounts
          BootDrive,     \* the drive bdos_init() selects
          FirstBitmap,   \* FirstBitmap[drive]: what its bitmap holds at boot
          FirstCount,    \* FirstCount[content]: s_free_inodes_count on disk
          Fildes,        \* the descriptor numbers programs pass
          ByteCounts,    \* the counts programs pass to read and write
          Displacements, \* the offsets programs pass to lseek
          NonblockFlags, \* the values of O_NONBLOCK programs pass to fcntl
          BlockDevices   \* the device numbers programs pass to _blkdev calls

Fds == 0 .. MAX_FDS - 1
Word == 0 .. WORD - 1
FdStates == {"UNUSED", "STDIN", "STDOUT", "STDERR", "OPEN"}
Image == [mode : {"none", "file", "dir"}, size : Word, blocks : BlockLists]
Descriptor ==
    [state : FdStates, inode : Inodes \cup {0}, offset : Word,
     fd_inode : Image, fs : BOOLEAN, nonblock : BOOLEAN]
NoImage == [mode |-> "none", size |-> 0, blocks |-> NoBlocks]

\* One run of ext2_path_to_inode(): the inode it returns, or 0; the inodes it
\* looks up on the way; and whether one of its assertions fails.
Walks == [inode : Inodes \cup {0}, looks : SUBSET Inodes, asserts : BOOLEAN]

ASSUME TableAssumption ==
    /\ MAX_FDS \in Nat /\ MAX_FDS >= 3
    /\ WORD \in Nat \ {0}
    /\ MaxFileSize \in Word
    /\ Inodes \subseteq Nat \ {0}
    /\ ROOT_INODE \in Inodes
    /\ RootPath \in Paths
    /\ FirstContent \in [Drives -> Contents]
    /\ RawContents \subseteq Contents
    /\ RawBitmaps \subseteq SUBSET Bits
    /\ Walk \in [Contents -> [Inodes -> [Paths -> Walks]]]
    /\ NoBlocks \in BlockLists
    /\ OnDisk \in [Contents -> [Inodes -> Image]]
    /\ PerGroup \in [Contents -> Nat \ {0}]
    /\ Mountable \subseteq Contents
    /\ BootDrive \in Drives
    /\ FirstBitmap \in [Drives -> SUBSET Bits]
    /\ FirstCount \in [Contents -> Counts]
    /\ Fildes \subseteq Int
    /\ ByteCounts \subseteq Nat
    /\ Displacements \subseteq Int
    /\ NonblockFlags \subseteq BOOLEAN
    /\ BlockDevices \subseteq 0 .. 255

\* The inode a lookup ends with is one it has looked up and found live.
ASSUME WalkAssumption ==
    \A c \in Contents, i \in Inodes, p \in Paths :
        LET w == Walk[c][i][p]
        IN  w.inode # 0 /\ ~w.asserts =>
                w.inode \in w.looks /\ OnDisk[c][w.inode].mode # "none"

\* A volume that was not written raw has a root directory.
ASSUME VolumeAssumption ==
    \A d \in Drives :
        FirstContent[d] \in Mountable =>
            OnDisk[FirstContent[d]][ROOT_INODE].mode = "dir"

VARIABLES fdt,          \* file_descriptor[]
          below,        \* what file_descriptor[-1].fd_inode overlays
          table_ready,  \* file_table_initialized
          active,       \* ext2_rootfs.active
          drive,        \* the drive the disk controller reads and writes
          cwd_inode,    \* ext2_rootfs.cwd_inode
          per_group,    \* ext2_rootfs.inodes_per_group
          content,      \* what each drive holds
          raw,          \* the drives a program has written by _blkdevwrite
          bitmap,       \* the inode bitmap area of each drive
          free_count,   \* ext2_rootfs.blck.s_free_inodes_count
          errno,
          ret,          \* the call that returned last, and what it returned
          hung          \* an assertion failed: _ASSERT() loops for ever

table == <<fdt, below, table_ready>>
volume == <<active, drive, cwd_inode, per_group, content, raw>>
alloc == <<bitmap, free_count>>
vars == <<fdt, below, table_ready, active, drive, cwd_inode, per_group, content,
          raw, bitmap, free_count, errno, ret, hung>>

\* bss: every byte of the table is zero, and state 0 is FD_STATE_STDIN.
ZeroDescriptor ==
    [state |-> "STDIN", inode |-> 0, offset |-> 0, fd_inode |-> NoImage,
     fs |-> FALSE, nonblock |-> FALSE]

\* What a call returned; for a read, also the inode image it was served from
\* and the offset it started at.
Reply(call, fd, val) ==
    [call |-> call, fd |-> fd, val |-> val, src |-> NoImage, from |-> 0]

\* The table as bss, and the volume as bdos_init()'s select_disk("0") leaves it.
Init ==
    /\ fdt = [fd \in Fds |-> ZeroDescriptor]
    /\ below = NoImage
    /\ table_ready = FALSE
    /\ drive = BootDrive
    /\ content = FirstContent
    /\ raw = {}
    /\ bitmap = FirstBitmap
    /\ active = (FirstContent[BootDrive] \in Mountable)
    /\ IF active
       THEN /\ cwd_inode = ROOT_INODE
            /\ per_group = PerGroup[content[drive]]
            /\ free_count = FirstCount[content[drive]]
       ELSE cwd_inode = 0 /\ per_group = 0 /\ free_count = 0
    /\ errno = "0"
    /\ ret = Reply("boot", 0, 0)
    /\ hung = FALSE

Succeed(call, fd, val) == errno' = "0" /\ ret' = Reply(call, fd, val)
Fail(call, fd, error) == errno' = error /\ ret' = Reply(call, fd, -1)
Keep(call, fd, val) == UNCHANGED errno /\ ret' = Reply(call, fd, val)

\* assert() on what a program passed or a disk holds.
Hang(call, fd) == hung' = TRUE /\ Keep(call, fd, -1)

-----------------------------------------------------------------------------
\* The file system below the table.

\* ext2_inode_lookup() knows the first block group only: for an inode of
\* another one it loops for ever.  It finds a live inode, and it has filled in
\* the caller's buffer whenever it got as far as reading one.
OtherGroup(inode) == (inode - 1) \div per_group # 0
LookupHangs(inode) == active /\ inode # 0 /\ OtherGroup(inode)
\* Slip: it forgets to ask whether a volume is mounted.
InodeRead_Unmounted(inode) == inode # 0 /\ ~OtherGroup(inode)
InodeRead(inode) == active /\ inode # 0 /\ ~OtherGroup(inode)
Inode(inode) == OnDisk[content[drive]][inode]
InodeLookup(inode) == InodeRead(inode) /\ Inode(inode).mode # "none"

\* ext2_inode_size(): 0 for an inode that is not there.
InodeSize(inode) == IF InodeLookup(inode) THEN Inode(inode).size ELSE 0

\* ext2_path_to_inode() answers "/" before it looks at active.
WalkOf(path) == Walk[content[drive]][cwd_inode][path]
PathToInode(path) ==
    IF path = RootPath THEN ROOT_INODE ELSE IF active THEN WalkOf(path).inode ELSE 0
PathHangs(path) ==
    /\ path # RootPath /\ active
    /\ WalkOf(path).asserts \/ \E i \in WalkOf(path).looks : LookupHangs(i)

\* Its callers look the answer up.
FindHangs(path) == PathHangs(path) \/ LookupHangs(PathToInode(path))

\* The errno ext2_path_to_inode() leaves behind.
PathErrno(path) ==
    IF PathToInode(path) # 0 THEN errno
    ELSE IF active THEN "ENOENT" ELSE "EIO"

\* The table as fcntl_find_free_fd() finds it: initialized by its first use.
InitialState(fd) ==
    CASE fd = 0 -> "STDIN" [] fd = 1 -> "STDOUT" [] fd = 2 -> "STDERR"
      [] OTHER -> "UNUSED"
\* Slip: file_table_initialized is never set.
ReadyTable_Always == [fd \in Fds |-> [fdt[fd] EXCEPT !.state = InitialState(fd)]]
ReadyTable ==
    IF table_ready THEN fdt
    ELSE [fd \in Fds |-> [fdt[fd] EXCEPT !.state = InitialState(fd)]]
FreeFds == {fd \in Fds : ReadyTable[fd].state = "UNUSED"}
\* Slip: the scan keeps the last free slot it sees.
NewFd_Last == CHOOSE fd \in FreeFds : \A g \in FreeFds : g <= fd
NewFd == CHOOSE fd \in FreeFds : \A g \in FreeFds : fd <= g

-----------------------------------------------------------------------------
\* kopen()

\* No such file, and no O_CREAT.
OpenMissing(path) ==
    /\ PathToInode(path) = 0
    /\ Fail("open", -1, PathErrno(path))
    /\ UNCHANGED <<table, alloc, hung>>

\* ext2_set_inode_bitmap_state(): the bitmap is written back, the superblock is
\* changed in memory only.
TakeInode(bit) ==
    /\ bitmap' = [bitmap EXCEPT ![drive] = @ \cup {bit}]
    /\ free_count' = DecCount(free_count)

\* fcntl_new_inode(): take an inode in the bitmap, then fail all the same.
NewInode ==
    LET bit == BitOf(NextFree(bitmap[drive]))
    IN  IF bit \in bitmap[drive] THEN UNCHANGED alloc ELSE TakeInode(bit)

\* No such file, with O_CREAT: kopen() does not ask whether a volume is mounted.
OpenCreate(path) ==
    /\ PathToInode(path) = 0
    /\ IF free_count # 0
       THEN /\ NewInode
            /\ fdt' = ReadyTable
            /\ table_ready' = TRUE
            /\ Fail("create", -1, "EIO")
       ELSE /\ Fail("create", -1, "EPERM")
            /\ UNCHANGED <<fdt, table_ready, alloc>>
    /\ UNCHANGED <<below, hung>>

\* fcntl_open_inode(): its first lookup goes to file_descriptor[-1].
OpenNotLive(path) ==
    LET inode == PathToInode(path)
    IN  /\ inode # 0
        /\ ~InodeLookup(inode)
        /\ below' = IF InodeRead(inode) THEN Inode(inode) ELSE below
        /\ Fail("open", -1, "ENOENT")
        /\ UNCHANGED <<fdt, table_ready, alloc, hung>>

\* Slip: the inode number is not recorded.
Opened_NoNumber(d, inode) ==
    [d EXCEPT !.state = "OPEN", !.offset = 0,
              !.fd_inode = Inode(inode), !.fs = TRUE]

\* The descriptor fcntl_open_inode() fills in for an inode; tflags stay as the
\* last user of the slot left them.
Opened(d, inode) ==
    [d EXCEPT !.state = "OPEN", !.inode = inode, !.offset = 0,
              !.fd_inode = Inode(inode), !.fs = TRUE]

\* The table is full; the file is too large, but its inode stays in the slot;
\* or the slot is taken.
OpenFull ==
    /\ FreeFds = {}
    /\ fdt' = ReadyTable
    /\ Fail("open", -1, "EMFILE")

\* Slip: the slot is taken before the size is looked at.
OpenTooBig_Taken(inode) ==
    /\ FreeFds # {} /\ Inode(inode).size > MaxFileSize
    /\ fdt' = [ReadyTable EXCEPT ![NewFd] = Opened(@, inode)]
    /\ Fail("open", -1, "EFBIG")
OpenTooBig(inode) ==
    /\ FreeFds # {} /\ Inode(inode).size > MaxFileSize
    /\ fdt' = [ReadyTable EXCEPT ![NewFd].fd_inode = Inode(inode)]
    /\ Fail("open", -1, "EFBIG")

OpenSlot(inode) ==
    /\ FreeFds # {} /\ Inode(inode).size <= MaxFileSize
    /\ fdt' = [ReadyTable EXCEPT ![NewFd] = Opened(@, inode)]
    /\ Succeed("open", NewFd, NewFd)

OpenFound(path) ==
    LET inode == PathToInode(path)
    IN  /\ InodeLookup(inode)
        /\ below' = Inode(inode)
        /\ table_ready' = TRUE
        /\ OpenFull \/ OpenTooBig(inode) \/ OpenSlot(inode)
        /\ UNCHANGED <<alloc, hung>>

OpenHangs(path) ==
    Hang("open", -1) /\ UNCHANGED <<table, alloc>>

KOpen(path, creat) ==
    /\ ~hung
    /\ IF FindHangs(path) THEN OpenHangs(path)
       ELSE \/ ~creat /\ OpenMissing(path)
            \/ creat /\ OpenCreate(path)
            \/ OpenNotLive(path)
            \/ OpenFound(path)
    /\ UNCHANGED volume

-----------------------------------------------------------------------------
\* Slips in fcntl_close(): the cached inode is kept; the whole descriptor is
\* zeroed, its state with it; the state is not looked at.
CloseWith(fd, closable, closed) ==
    /\ ~hung
    /\ IF fd \in Fds /\ closable
       THEN fdt' = [fdt EXCEPT ![fd] = closed] /\ Succeed("close", fd, 0)
       ELSE Fail("close", fd, "EBADF") /\ UNCHANGED fdt
    /\ UNCHANGED <<below, table_ready, volume, alloc, hung>>
KClose_KeepInode(fd) ==
    CloseWith(fd, fdt[fd].state = "OPEN",
              [fdt[fd] EXCEPT !.state = "UNUSED", !.inode = 0, !.offset = 0])
KClose_ZeroAll(fd) ==
    CloseWith(fd, fdt[fd].state = "OPEN", ZeroDescriptor)
KClose_AnyState(fd) ==
    CloseWith(fd, TRUE,
              [fdt[fd] EXCEPT !.state = "UNUSED", !.inode = 0, !.offset = 0,
                              !.fd_inode = NoImage])

\* kclose()
KClose(fd) ==
    /\ ~hung
    /\ IF fd \in Fds /\ fdt[fd].state = "OPEN"
       THEN /\ fdt' = [fdt EXCEPT ![fd] =
                         [@ EXCEPT !.state = "UNUSED", !.inode = 0, !.offset = 0,
                                   !.fd_inode = NoImage]]
            /\ Succeed("close", fd, 0)
       ELSE /\ Fail("close", fd, "EBADF")
            /\ UNCHANGED fdt
    /\ UNCHANGED <<below, table_ready, volume, alloc, hung>>
-----------------------------------------------------------------------------
\* kread()

\* Descriptor 0 is the keyboard; everything else takes the file system's path.
IsConsole(fd) == fd = 0 /\ fdt[fd].state = "STDIN"

\* Cooked: up to count characters, fewer when one of them is a return.
\* Non-blocking: one character whatever the count, or -1 with errno untouched.
ReadConsole(fd, count) ==
    /\ IsConsole(fd)
    /\ \E n \in -1 .. count + 1 :
          /\ IF fdt[fd].nonblock THEN n \in {-1, 1}
             ELSE (n = 0 /\ count = 0) \/ n \in 1 .. count
          /\ Keep("read", fd, n)
    /\ UNCHANGED <<fdt, hung>>

\* A descriptor that was never opened has no file system: block_size is read
\* through a null pointer, so the range check may take either way, and a read
\* that gets past the size calls through a wild device.
ReadNull(fd, count) ==
    /\ ~IsConsole(fd) /\ ~fdt[fd].fs
    /\ \/ Fail("read", fd, "EIO") /\ UNCHANGED hung
       \/ /\ fdt[fd].offset >= fdt[fd].fd_inode.size
          /\ Keep("read", fd, 0) /\ UNCHANGED hung
       \/ /\ fdt[fd].offset < fdt[fd].fd_inode.size /\ count = 0
          /\ Succeed("read", fd, 0) /\ UNCHANGED hung
       \/ /\ fdt[fd].offset < fdt[fd].fd_inode.size /\ count > 0
          /\ Hang("read", fd)
    /\ UNCHANGED fdt

\* kread() trusts the cached inode and never looks at the state.
Available(fd) == fdt[fd].fd_inode.size - fdt[fd].offset
\* Slip: the request is not cut to what is there.
Transfer_All(fd, count) == count
Transfer(fd, count) == IF count < Available(fd) THEN count ELSE Available(fd)

\* The first offset whose block ext2_get_inode_block() refuses.
MappableSize == MappableBlocks * BLOCK_SIZE

ReadOutOfRange(fd) ==
    /\ fdt[fd].offset >= MaxFileSize
    /\ Fail("read", fd, "EIO")
    /\ UNCHANGED <<fdt, hung>>

ReadEof(fd) ==
    /\ fdt[fd].offset < MaxFileSize /\ Available(fd) <= 0
    /\ Keep("read", fd, 0)
    /\ UNCHANGED <<fdt, hung>>

ReadData(fd, count) ==
    LET n == Transfer(fd, count)
        from == fdt[fd].offset
    IN  /\ from < MaxFileSize /\ Available(fd) > 0
        /\ n = 0 \/ from + n <= MappableSize
        /\ fdt' = [fdt EXCEPT ![fd].offset = from + n]
        /\ errno' = "0"
        /\ ret' = [Reply("read", fd, n) EXCEPT !.src = fdt[fd].fd_inode,
                                               !.from = from]
        /\ UNCHANGED hung

\* Slip: the assertion in ext2_get_inode_block() is off by one.
ReadUnmapped_OffByOne(fd, count) ==
    /\ fdt[fd].offset < MaxFileSize /\ Available(fd) > 0
    /\ fdt[fd].offset + Transfer(fd, count) >= MappableSize
    /\ UNCHANGED fdt
    /\ Hang("read", fd)

\* The blocks the loop can map are transferred before it stops.
ReadUnmapped(fd, count) ==
    LET n == Transfer(fd, count)
        from == fdt[fd].offset
    IN  /\ from < MaxFileSize /\ Available(fd) > 0
        /\ n # 0 /\ from + n > MappableSize
        /\ fdt' = [fdt EXCEPT ![fd].offset =
                      IF from < MappableSize THEN MappableSize ELSE from]
        /\ Hang("read", fd)

KRead(fd, count) ==
    /\ ~hung
    /\ \/ fd \notin Fds /\ Hang("read", fd) /\ UNCHANGED fdt
       \/ fd \in Fds /\ ReadConsole(fd, count)
       \/ fd \in Fds /\ ReadNull(fd, count)
       \/ /\ fd \in Fds /\ ~IsConsole(fd) /\ fdt[fd].fs
          /\ \/ ReadOutOfRange(fd)
             \/ ReadEof(fd)
             \/ ReadData(fd, count)
             \/ ReadUnmapped(fd, count)
    /\ UNCHANGED <<below, table_ready, volume, alloc>>

-----------------------------------------------------------------------------
\* klseek(): offsets are uint32_t, the result an off_t of the same width.
AsSigned(w) == IF 2 * w >= WORD THEN w - WORD ELSE w

\* Slip: the sum is kept in a wider integer.
SeekTo_Wide(fd, position) ==
    fdt' = [fdt EXCEPT ![fd].offset = position]
SeekTo(fd, position) ==
    fdt' = [fdt EXCEPT ![fd].offset = position % WORD]

\* The size comes from the volume, not from the cached inode.
SeekEnd(fd, by) ==
    LET to == InodeSize(fdt[fd].inode) + by
    IN  /\ SeekTo(fd, to)
        /\ errno' = IF InodeLookup(fdt[fd].inode) THEN errno ELSE "ENOENT"
        /\ ret' = Reply("lseek", fd, AsSigned(to % WORD))

SeekCur(fd, by) ==
    LET to == fdt[fd].offset + by
    IN  SeekTo(fd, to) /\ Keep("lseek", fd, AsSigned(to % WORD))

SeekSet(fd, by) ==
    SeekTo(fd, by) /\ Succeed("lseek", fd, AsSigned(by % WORD))

KLseek(fd, by, whence) ==
    /\ ~hung
    /\ \/ fd \notin Fds /\ Hang("lseek", fd) /\ UNCHANGED fdt
       \/ /\ fd \in Fds
          /\ IF whence = "END" /\ LookupHangs(fdt[fd].inode)
             THEN Hang("lseek", fd) /\ UNCHANGED fdt
             ELSE /\ \/ whence = "END" /\ SeekEnd(fd, by)
                     \/ whence = "CUR" /\ SeekCur(fd, by)
                     \/ whence = "SET" /\ SeekSet(fd, by)
                     \/ /\ whence \notin {"END", "CUR", "SET"}
                        /\ Fail("lseek", fd, "EINVAL") /\ UNCHANGED fdt
                  /\ UNCHANGED hung
    /\ UNCHANGED <<below, table_ready, volume, alloc>>

\* kfcntl(): the only flag anything reads is O_NONBLOCK.
KFcntl(fd, cmd, nonblock) ==
    /\ ~hung
    /\ \/ fd \notin Fds /\ Hang("fcntl", fd) /\ UNCHANGED fdt
       \/ /\ fd \in Fds /\ cmd = "F_SETFL"
          /\ fdt' = [fdt EXCEPT ![fd].nonblock = nonblock]
          /\ Keep("fcntl", fd, 0) /\ UNCHANGED hung
       \/ /\ fd \in Fds /\ cmd = "F_GETFL"
          /\ Keep("fcntl", fd, IF fdt[fd].nonblock THEN 1 ELSE 0)
          /\ UNCHANGED <<fdt, hung>>
    /\ UNCHANGED <<below, table_ready, volume, alloc>>

\* kwrite(): the console by number, whatever the table says; no file at all.
KWrite(fd, count) ==
    /\ ~hung
    /\ IF fd \in {1, 2} THEN Keep("write", fd, count) ELSE Fail("write", fd, "EPERM")
    /\ UNCHANGED <<table, volume, alloc, hung>>

-----------------------------------------------------------------------------
\* kchdir() and kernel_stat()
ChdirRefused(path) ==
    /\ \/ ~active /\ Fail("chdir", -1, "EFAULT")
       \/ active /\ PathToInode(path) = 0 /\ Fail("chdir", -1, "ENOENT")
       \/ /\ InodeLookup(PathToInode(path))
          /\ Inode(PathToInode(path)).mode = "file"
          /\ Fail("chdir", -1, "ENOTDIR")
    /\ UNCHANGED <<cwd_inode, hung>>
ChdirDone(path) ==
    /\ InodeLookup(PathToInode(path))
    /\ Inode(PathToInode(path)).mode = "dir"
    /\ cwd_inode' = PathToInode(path)
    /\ Succeed("chdir", -1, 0)
    /\ UNCHANGED hung
\* A current directory of 0, and an answer isdirectory() finds no live inode for.
ChdirAsserts(path) ==
    \/ cwd_inode = 0
    \/ PathToInode(path) # 0 /\ ~InodeLookup(PathToInode(path))
KChdir(path) ==
    /\ ~hung
    /\ IF active /\ (ChdirAsserts(path) \/ FindHangs(path))
       THEN Hang("chdir", -1) /\ UNCHANGED cwd_inode
       ELSE ChdirRefused(path) \/ ChdirDone(path)
    /\ UNCHANGED <<table, active, drive, per_group, content, raw, alloc>>

KStat(path) ==
    /\ ~hung
    /\ IF FindHangs(path) THEN Hang("stat", -1)
       ELSE /\ IF InodeLookup(PathToInode(path)) THEN Keep("stat", -1, 0)
               ELSE Fail("stat", -1, "ENOENT")
            /\ UNCHANGED hung
    /\ UNCHANGED <<table, volume, alloc>>

-----------------------------------------------------------------------------
\* blkdevseek(), blkdevread() and blkdevwrite(): dev_register() has filled in
\* the first entry of devices[], and in any other the pointers are null.
Registered(dev) == dev = 0

\* A seek moves the offset of the device, which every other user sets before it
\* reads; a read changes the program's memory only.
BlkdevSeekRead(dev) ==
    /\ Registered(dev)
    /\ Keep("blkdev", dev, 0)
    /\ UNCHANGED <<content, raw, bitmap, hung>>

\* A write may make other inodes, directories and a superblock of what is on
\* the drive, and any bitmap; what the kernel has in memory it leaves alone.
BlkdevWrite(dev) ==
    /\ Registered(dev)
    /\ \E c \in RawContents \cup {content[drive]} :
           content' = [content EXCEPT ![drive] = c]
    /\ \E b \in RawBitmaps \cup {bitmap[drive]} :
           bitmap' = [bitmap EXCEPT ![drive] = b]
    /\ raw' = raw \cup {drive}
    /\ Keep("blkdev", dev, 0)
    /\ UNCHANGED hung

BlkdevNull(dev) ==
    /\ ~Registered(dev)
    /\ Hang("blkdev", dev)
    /\ UNCHANGED <<content, raw, bitmap>>

BlkdevCall(dev) ==
    /\ ~hung
    /\ BlkdevSeekRead(dev) \/ BlkdevWrite(dev) \/ BlkdevNull(dev)
    /\ UNCHANGED <<table, active, drive, cwd_inode, per_group, free_count>>

\* _ASSERT() never returns.
Halted == hung /\ UNCHANGED vars

SystemCall ==
    \/ \E path \in Paths, creat \in BOOLEAN : KOpen(path, creat)
    \/ \E fd \in Fildes : KClose(fd)
    \/ \E fd \in Fildes, count \in ByteCounts : KRead(fd, count) \/ KWrite(fd, count)
    \/ \E fd \in Fildes, by \in Displacements, whence \in {"SET", "CUR", "END", "?"} :
           KLseek(fd, by, whence)
    \/ \E fd \in Fildes, cmd \in {"F_GETFL", "F_SETFL"}, nonblock \in NonblockFlags :
           KFcntl(fd, cmd, nonblock)
    \/ \E path \in Paths : KChdir(path) \/ KStat(path)
    \/ \E dev \in BlockDevices : BlkdevCall(dev)

Next == SystemCall \/ Halted

Spec == Init /\ [][Next]_vars
-----------------------------------------------------------------------------
\* Properties

OpenFds == {fd \in Fds : fdt[fd].state = "OPEN"}

TypeOK ==
    /\ fdt \in [Fds -> Descriptor]
    /\ below \in Image
    /\ table_ready \in BOOLEAN
    /\ active \in BOOLEAN
    /\ drive \in Drives
    /\ cwd_inode \in Inodes \cup {0}
    /\ per_group \in Nat /\ (active => per_group # 0)
    /\ content \in [Drives -> Contents]
    /\ raw \subseteq Drives
    /\ bitmap \in [Drives -> SUBSET Bits]
    /\ free_count \in Counts
    /\ hung \in BOOLEAN

\* Descriptors 0, 1 and 2 never stand for a file, and once the table has been
\* initialized they stay the console: no close() gives them away to open().
StandardStreamsKept ==
    /\ \A fd \in OpenFds : fd >= 3
    /\ table_ready => \A fd \in 0 .. 2 : fdt[fd].state = InitialState(fd)

\* While a descriptor is open it stands for one file: no call on another
\* descriptor, and no failing open(), replaces the inode kread() works from.
OpenKeepsFile ==
    [][\A fd \in OpenFds : fd \in OpenFds' =>
           /\ fdt'[fd].inode = fdt[fd].inode
           /\ fdt'[fd].fd_inode = fdt[fd].fd_inode
           /\ fdt'[fd].fs]_vars

\* The ledger of descriptors: a successful open() adds the descriptor it
\* returns, which was not open; a successful close() removes its argument;
\* nothing else, an open() that fails half way included, opens or closes one.
DescriptorLedger ==
    [][OpenFds' = IF ret'.val < 0 THEN OpenFds
                  ELSE IF ret'.call = "open" THEN OpenFds \cup {ret'.val}
                  ELSE IF ret'.call = "close" THEN OpenFds \ {ret'.fd}
                  ELSE OpenFds]_vars
OpenReturnsFresh ==
    [][ret'.call = "open" /\ ret'.val >= 0 =>
           /\ ret'.val \notin OpenFds
           /\ \A fd \in 3 .. ret'.val - 1 : fd \in OpenFds]_vars

\* open() runs out of descriptors only when every one of them is open: closing
\* a file and failing on a file that is too large both give their slot back.
FullMeansAllOpen ==
    [][ret'.call = "open" /\ ~hung' /\ errno' = "EMFILE" /\ ret'.val = -1 =>
           3 .. MAX_FDS - 1 \subseteq OpenFds]_vars

\* kread() never looks at the state of a descriptor; what keeps it from serving
\* a closed file is that fcntl_close() clears the cached inode.  Bytes come from
\* an open descriptor's own file, or from a file open() refused as too large.
ServedFileIsOpen ==
    ret.call = "read" /\ ret.src # NoImage /\ ret.src.size <= MaxFileSize =>
        ret.fd \in OpenFds /\ ret.src = fdt[ret.fd].fd_inode

\* A read stays inside the file whatever lseek() did to the offset before, and
\* leaves the offset at the end of what it returned.
ReadInsideFile ==
    ret.call = "read" /\ ret.src # NoImage =>
        /\ ret.val >= 0
        /\ ret.from + ret.val <= ret.src.size
        /\ fdt[ret.fd].offset = ret.from + ret.val

\* The inode cached in an open descriptor is the one its inode number names on
\* the disk, so kread()'s end of file and klseek()'s SEEK_END agree, unless a
\* program wrote the drive behind the kernel's back.  A raw write does not let
\* a larger file in.
CachedInodeCurrent ==
    \A fd \in OpenFds :
        /\ drive \notin raw => /\ InodeLookup(fdt[fd].inode)
                              /\ fdt[fd].fd_inode = Inode(fdt[fd].inode)
        /\ fdt[fd].fd_inode.size <= MaxFileSize

\* What the invariants above rest on.  An open descriptor has a file system; one
\* that is not open caches nothing, or a file that was refused as too large;
\* and before the table is initialized nothing is open.
TableShape ==
    \A fd \in Fds :
        /\ fdt[fd].state = "OPEN" => table_ready /\ fdt[fd].fs
        /\ fdt[fd].state # "OPEN" =>
               fdt[fd].fd_inode = NoImage \/ fdt[fd].fd_inode.size > MaxFileSize
        /\ table_ready /\ fd >= 3 => fdt[fd].state \in {"UNUSED", "OPEN"}

\* A volume in use has a current directory, a live one unless the drive was
\* written raw; and the inodes of the open descriptors have been looked up.
CwdSet == active => cwd_inode # 0
VolumeShape ==
    /\ active /\ drive \notin raw => Inode(cwd_inode).mode = "dir"
    /\ \A fd \in OpenFds : InodeRead(fdt[fd].inode)
IInv ==
    /\ TypeOK
    /\ CwdSet
    /\ VolumeShape
    /\ StandardStreamsKept
    /\ CachedInodeCurrent
    /\ TableShape
    /\ ServedFileIsOpen
    /\ ReadInsideFile

\* A volume on which every lookup ends: its root and all that its directories
\* name is live, of an ordinary type and in the first block group.
Sound(c) ==
    /\ OnDisk[c][ROOT_INODE].mode = "dir" /\ ~OtherGroup(ROOT_INODE)
    /\ \A dir \in Inodes, path \in Paths :
           OnDisk[c][dir].mode = "dir" =>
               /\ ~Walk[c][dir][path].asserts
               /\ \A i \in Walk[c][dir][path].looks : ~OtherGroup(i)

\* What stops the machine: a call on a descriptor that is not open, or a read
\* past the blocks ext2_get_inode_block() accepts; a path on a volume that is
\* not sound, or was written raw; a device that is not there.  Whatever calls
\* came before, no call stops it otherwise, and no close, write or create does.
HangsOnlyOnMisuse ==
    hung => \/ /\ ret.call \in {"read", "lseek", "fcntl"}
               /\ ret.fd \notin OpenFds
            \/ /\ ret.call = "read"
               /\ fdt[ret.fd].fd_inode.size > MappableSize
            \/ /\ ret.call \in {"open", "chdir", "stat"}
               /\ drive \in raw \/ ~Sound(content[drive])
            \/ ret.call = "blkdev" /\ ~Registered(ret.fd)

\* "anything else is too large" (fcntl_open_inode): no byte of a file above
\* the size limit is ever served.
TooBigNeverServed ==
    ret.call = "read" /\ ret.val > 0 => ret.src.size <= MaxFileSize

\* A create takes one inode that was free, the lowest one or, when the scanned
\* part is full, the last one of the bitmap; no other call writes the bitmap,
\* but for a program that writes the blocks of the drive itself.
CreateTakesFreeInode ==
    [][bitmap' # bitmap /\ ret'.call # "blkdev" =>
           \E b \in Bits \ bitmap[drive] :
               /\ bitmap' = [bitmap EXCEPT ![drive] = @ \cup {b}]
               /\ \/ \A c \in Bits \ bitmap[drive] : b <= c
                  \/ b = BitmapBits - 1 /\ 0 .. BITMAP_BYTES - 1 \subseteq bitmap[drive]
               /\ ret'.call = "create"]_vars

\* "decrease the free inode count in the superblock": on a mounted volume the
\* count in memory goes down by one with every inode that is taken.
CountMatchesBitmap ==
    active /\ drive \notin raw =>
        free_count + Cardinality(bitmap[drive]) =
        FirstCount[content[drive]] + Cardinality(FirstBitmap[drive])
=============================================================================
