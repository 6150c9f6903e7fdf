------------------------------- MODULE Session ------------------------------
(***************************************************************************)
(* The shell and the programs it runs, around the file table.  The shell    *)
(* selects disks, loads ELF programs and copies files to memory; a program  *)
(* makes system calls until it returns, and its descriptors stay open.      *)
(* The commands that need BDOS_DEBUG_CMDS are not in the default build and  *)
(* not here.                                                                *)
(***************************************************************************)
EXTENDS FileTable, Ext2Mount

CONSTANTS DiskNumbers,   \* the arguments of the disk command (0 to 15)
          DriveOf,       \* DriveOf[n]: devices[n].min, 0 for no device
          FirstBlocks    \* FirstBlocks[content]: superblocks in its first blocks

ASSUME SessionAssumption ==
    /\ DriveOf \in [DiskNumbers -> Drives]
    /\ FirstBlocks \in [Contents ->
           [0 .. BUFFER_BLOCKS - 1 -> Superblock \cup {NoMagic}]]
    /\ Mountable = {c \in Contents : "mounted" \in ProbeOutcomes(FirstBlocks[c])}

VARIABLES mode,          \* what has the processor
          lfd            \* elf_fd of loadelf() and load_fd of load()

session == <<mode, lfd>>
allvars == <<vars, mode, lfd>>

SInit ==
    /\ Init
    /\ mode = "shell"
    /\ lfd = 0

-----------------------------------------------------------------------------
\* select_disk(): the drive changes whatever ext2_probe() finds on it.  A probe
\* that fails leaves cwd_inode and the old superblock where they are; no
\* descriptor is closed.
Mounted_KeepCwd(c) ==    \* slip: mounting does not go back to the root
    /\ active' = TRUE
    /\ free_count' = FirstCount[c]
    /\ per_group' = PerGroup[c]
    /\ UNCHANGED <<cwd_inode, hung>>
Mounted(c) ==
    /\ active' = TRUE
    /\ cwd_inode' = ROOT_INODE
    /\ free_count' = FirstCount[c]
    /\ per_group' = PerGroup[c]
    /\ UNCHANGED hung
Stopped(c) ==
    /\ free_count' = FirstCount[c]
    /\ per_group' \in {per_group, PerGroup[c]}
    /\ hung' = TRUE
    /\ UNCHANGED <<active, cwd_inode>>
Refused ==
    /\ active' = FALSE
    /\ UNCHANGED <<cwd_inode, free_count, per_group, hung>>
Probe(d) ==
    LET c == content[d]
        outcomes == ProbeOutcomes(FirstBlocks[c])
    IN  \/ "mounted" \in outcomes /\ Mounted(c)
        \/ "stopped" \in outcomes /\ Stopped(c)
        \/ "refused" \in outcomes /\ Refused

SelectDisk_ProbeFirst(n) ==    \* slip: the drive is changed behind the probe
    /\ ~hung /\ mode = "shell"
    /\ drive' = DriveOf[n]
    /\ Probe(drive)
    /\ Keep("disk", -1, 0)
    /\ UNCHANGED <<table, bitmap, content, raw, session>>
SelectDisk(n) ==
    /\ ~hung /\ mode = "shell"
    /\ drive' = DriveOf[n]
    /\ Probe(DriveOf[n])
    /\ Keep("disk", -1, 0)
    /\ UNCHANGED <<table, bitmap, content, raw, session>>

\* search_path() asks kernel_stat() about each directory of PATH.
SearchPath(path) ==
    /\ mode = "shell"
    /\ KStat(path)
    /\ UNCHANGED session

\* loadelf() and load() start with kopen(); what fails here ends the command.
StartReading_Unchecked(path, next) ==    \* slip: -1 is not looked for
    /\ mode = "shell"
    /\ KOpen(path, FALSE)
    /\ mode' = next /\ lfd' = ret'.val
StartReading(path, next) ==
    /\ mode = "shell"
    /\ KOpen(path, FALSE)
    /\ IF ret'.val = -1 THEN UNCHANGED session ELSE mode' = next /\ lfd' = ret'.val
LoadElf(path) == StartReading(path, "loading")
Load(path) == StartReading(path, "copying")

\* elf_load_binary(): reads and absolute seeks, in an order the file decides.
\* An assertion about the file's headers may stop the machine.
LoadStep ==
    /\ mode = "loading"
    /\ \/ \E count \in ByteCounts : KRead(lfd, count)
       \/ \E by \in Displacements : KLseek(lfd, by, "SET")
       \/ ~hung /\ Hang("exec", lfd) /\ UNCHANGED <<table, volume, alloc>>
    /\ UNCHANGED session

\* loadelf() closes the file whatever elf_load_binary() says of it; only what
\* reads as an ELF executable runs.
LoadDone_Leak(elf_ok) ==    \* slip: only an executable is closed
    /\ mode = "loading"
    /\ ~hung
    /\ IF elf_ok THEN KClose(lfd)
       ELSE Keep("exec", lfd, 0) /\ UNCHANGED <<table, volume, alloc, hung>>
    /\ mode' = IF elf_ok /\ fdt[lfd].fd_inode.mode = "file" THEN "program" ELSE "shell"
    /\ UNCHANGED lfd
LoadDone(elf_ok) ==
    /\ mode = "loading"
    /\ KClose(lfd)
    /\ mode' = IF elf_ok /\ fdt[lfd].fd_inode.mode = "file" THEN "program" ELSE "shell"
    /\ UNCHANGED lfd

\* load() reads until 0 and then closes; when a read fails it returns at once,
\* and when one stops the machine it stays in it.
LoadCopy(count) ==
    /\ mode = "copying"
    /\ KRead(lfd, count)
    /\ mode' = CASE hung' \/ ret'.val > 0 -> "copying"
                 [] ~hung' /\ ret'.val = 0 -> "closing"
                 [] OTHER -> "shell"
    /\ UNCHANGED lfd
LoadClose ==
    /\ mode = "closing"
    /\ KClose(lfd)
    /\ mode' = "shell"
    /\ UNCHANGED lfd

\* A program makes any call; exec_run() returns when it does, and neither
\* closes its descriptors nor resets the flags of descriptor 0.
ProgramCall ==
    /\ mode = "program"
    /\ SystemCall
    /\ UNCHANGED session
ProgramReturn ==
    /\ ~hung /\ mode = "program"
    /\ mode' = "shell"
    /\ ret' = Reply("run", -1, 0)
    /\ UNCHANGED <<table, volume, alloc, errno, hung, lfd>>

SHalted == Halted /\ UNCHANGED session

SNext ==
    \/ \E n \in DiskNumbers : SelectDisk(n)
    \/ \E path \in Paths : SearchPath(path) \/ LoadElf(path) \/ Load(path)
    \/ LoadStep
    \/ \E elf_ok \in BOOLEAN : LoadDone(elf_ok)
    \/ \E count \in ByteCounts \ {0} : LoadCopy(count)
    \/ LoadClose
    \/ ProgramCall
    \/ ProgramReturn
    \/ SHalted

SSpec == SInit /\ [][SNext]_allvars

-----------------------------------------------------------------------------
\* Properties

CommandModes == {"loading", "copying", "closing"}
Modes == CommandModes \cup {"shell", "program"}
STypeOK == TypeOK /\ mode \in Modes /\ lfd \in Fds

\* Only the shell runs without a mounted volume, so kopen(O_CREAT), which does
\* not ask for one, never writes its bitmap over a disk that was not mounted.
RunsOnlyMounted == mode # "shell" => active

\* What can be in a drive with a mounted volume: what ext2_probe() mounts, or
\* what a program made of it since by writing the drive raw.
Served == Mountable \cup IF raw = {} THEN {} ELSE RawContents

\* What a create writes is the bitmap of the mounted volume.
CreateOnlyOnMounted ==
    [][bitmap' # bitmap => active /\ content[drive] \in Served]_allvars

\* The current directory is a live directory of the mounted volume, whatever
\* was selected, mounted or refused before, unless a program wrote the drive
\* raw: kchdir()'s assertion holds.
CwdIsLiveDirectory ==
    active /\ ~hung => /\ cwd_inode # 0
                       /\ drive \notin raw => Inode(cwd_inode).mode = "dir"

\* The shell's own commands leak no descriptor: when loadelf() or load() comes
\* back, the descriptors open are those that were, without the command's own.
CommandClosesItsFile ==
    [][(mode \in CommandModes /\ mode' \notin CommandModes) =>
           OpenFds' = OpenFds \ {lfd}]_allvars

\* The descriptor a command works with is open until the command is done.
CommandFileOpen ==
    /\ STypeOK
    /\ mode \in CommandModes => lfd \in OpenFds

\* A drive with a volume of one block group and blocks of 1024 bytes mounts
\* whenever it is selected, and what was mounted before makes no difference.
HealthyVolumesMount ==
    [][~hung /\ ret'.call = "disk" /\ Healthy(FirstBlocks[content[drive']]) =>
           active' /\ ~hung' /\ cwd_inode' = ROOT_INODE]_allvars

\* "FATAL: ext2_rootfs.block_groups != 1" (ext2_probe): what is mounted has one
\* block group, the one whose descriptor is read.
MountedHasOneGroup ==
    active /\ ~hung /\ drive \notin raw => TrueGroups(FirstBlocks[content[drive]][1]) = 1

\* Every open descriptor caches an inode of a volume that was mounted, also
\* after the disk has been changed under it.
CachedFromMounted ==
    \A fd \in OpenFds : \E c \in Served :
        fdt[fd].fd_inode = OnDisk[c][fdt[fd].inode]
=============================================================================
