# A verification of the 68000 BDOS

This directory models the core of the 68000 BDOS (`src/`): its descriptor table
and system calls, its read path through an ext2 inode down to the sectors of
the simulated disk, its path lookup, its inode allocation, mounting, the shell
session around them, the command line, and the library of the kernel: the
environment, `strtoul`, `printf`, the ELF loader, the checksum. TLC checks every
model on small instances; TLAPS proves, for all instances, the invariants of
the descriptor table, the session, the read loop, the device driver, the path
lookup and the command line, that the read loop, the driver, the path lookup and
the command line implement their abstract specifications, and of the library what the environment,
the search of PATH, `strtoul`, the buffer of `snprintf`, the loader and the
checksum answer.

The program is single threaded. No interrupt handler touches its state, so a
system call runs from its first statement to its last before anything else
does. What makes it hard is not interleaving but long sequences of legal calls:
descriptors and disks outlive the programs and the volumes they belong to,
state is cached at open and used much later, several limits on the same
quantity disagree, and every failed assertion stops the machine for good.

## Inventory

| Component | State | Operations | Hard behaviour |
|---|---|---|---|
| Descriptor table: `fcntl.c`, `kopen.c`, `kclose.c`, `kread.c`, `klseek.c`, `kwrite.c`, `kstat.c`, `kchdir.c` | `file_descriptor[]`, `file_table_initialized`, `errno` | open, close, read, lseek, fcntl, write, stat, chdir | lazy initialization; slots written before the call can fail; inodes cached at open; 32 bit offsets; assertions on arguments |
| Block map and read loop: `kread.c`, `ext2_get_inode_block()` | the descriptor's offset, the device's offset | map a file block, transfer what the block holds | three limits on file size; the device offset moves while a block is mapped |
| Inode bitmap: `ext2_next_free_inode()`, `ext2_get/set_inode_bitmap_state()` | the bitmap on disk, the free count in memory | find a free inode, test and set its bit | numbering from 1, a bound in the wrong unit, byte order |
| Mounting: `ext2_probe()` | `ext2_rootfs` | find the superblock, copy it, check the geometry | failure leaves the old superblock; some volumes stop the machine |
| Paths and directories: `ext2_path_to_inode()`, `ext2_get_inode_from_dirent()`, `ext2_inode_lookup()` | none | walk the elements of a path, scan a directory block, read an inode | slashes, files in mid-path, entries beyond the first block; an inode outside the first block group is waited for without end; the caller's string is cut in place |
| Block device: `cpmsim_seek/read/write()`, `disk.c`, `blkdev.c`, `devices.c` | the device's offset, the controller's DMA and drive registers | byte requests over whole sectors, from the kernel and from programs | partial first and last sectors; a DMA register shared by reads and writes; programs that write behind the kernel's caches |
| Shell: `shim.c` | the command buffer, the token, the selected disk | edit a line, parse it, run a built-in command or a program | buffers without bounds; commands that must give their descriptor back |
| ELF loader: `elf.c` | none | read headers, load sections | short reads; offsets and sizes from the file |
| Environment: `kputenv.c`, `kgetenv.c` | a 1024 byte block, its insertion offset | add a definition, find one | the block's limit |
| Terminal: `ktermios.c` | one structure | get, set | none |
| Boot: `bootldr.c`, `bdos_init()` | none | copy the image, initialize | order of initialization |
| Pure code: `fletcher16.c`, `kstrtoul.c`, `kstr*.c`, `kmem*.c`, `endian.c` | none | | deferred reduction, overflow |

How they interact: a program, the loader and the shell's commands make system
calls on the descriptor table; open, chdir and stat ask the path walk for an
inode; open copies the inode into the descriptor; read maps each file block
through the inode and asks the block device for bytes; the device moves whole
sectors of whatever drive is selected; `select_disk()` changes that drive and
mounts again, and knows nothing of descriptors.

What makes each component correct:

* table: an open descriptor stands for one file, opens and closes balance, the
  console keeps its descriptors, nothing closed is served, reads stay inside
  the file;
* read loop: it returns the bytes of the file, in order, and ends;
* bitmap: a create takes one inode that was free, and the count follows;
* device: byte requests behave as on an array of bytes;
* session: only a mounted volume is written, the current directory is live,
  commands give back what they open;
* path lookup: a path names the inode its elements lead to, from the directory
  of the last chdir, or none; on a sound volume the lookup ends;
* mounting: a volume of one block group mounts, whatever was mounted;
* command line: a program is called by the words that were typed, every line is parsed
  to its end, and the editor, the parser and the argument vector stay in their
  buffers, or it is known which lines make them leave;
* environment: a name has the value it was first given;
* loader: what is run is in memory as its file says, and a file cut short is not
  run;
* library: `strtoul`, `printf` and the checksum compute what their definitions
  say, at the ends of their ranges too.

## Modules

| Module | Models | Correspondence |
|---|---|---|
| `Ext2Layout` | the three size limits and the route to a block | `MaxFileSize` is the test of `fcntl_open_inode()` and `kread()`; `MappableBlocks` the assertion of `ext2_get_inode_block()`, with C's exclusive or |
| `InodeBitmap` | the bitmap's operators | a bitmap is the set of its set bits; the count is two digits in base `COUNT_RADIX`, for the four bytes of the code |
| `FileTable` | the table, the calls on files and the raw block calls | one action per call: `KOpen`, `KClose`, `KRead`, `KWrite`, `KLseek`, `KFcntl`, `KChdir`, `KStat`, `BlkdevCall`; one variable per global; `content` is what each drive holds, `raw` which drives a program has written; `ret` is what the last call returned |
| `Session` | the shell, the loader and programs over `FileTable` | `mode` says which of them runs; `lfd` is the descriptor of `loadelf()` or `load()`; their calls are `FileTable`'s actions |
| `FileStream` | abstract: what read promises | a file is a sequence of bytes with a position |
| `FileRead` | the loop of `kread()` over blocks | one step maps a block, one transfers; implements `FileStream` |
| `ByteDisk` | abstract: what the device promises | an array of bytes |
| `CpmDevice` | `cpmsim_seek/read/write()` over sectors | one step per sector; implements `ByteDisk` |
| `PathLookup` | abstract: what a lookup promises | names resolve one by one, from a directory, on a volume |
| `Ext2Path` | `ext2_path_to_inode()`, `ext2_get_inode_from_dirent()` and their callers | one step enters an element, one reads a record, one goes down; the recursion is `pc` going back to `enter`, with the path that is left; implements `PathLookup` |
| `Ext2Mount` | `ext2_probe()`, the byte order and the geometry of a superblock | operators on the first blocks of a drive; `ProbeOutcomes` is what the probe may do with them; `Session` applies the outcomes |
| `Shell` | abstract: what the command line promises | a line that is typed, the words the program that runs gets |
| `CommandLine` | the line editor, the recursive parser and `exec_run()` over the one command buffer | one step per key, per token, per operator; `mode` says what runs; the recursion is the count of open parentheses; implements `Shell` |
| `Environ` | `kputenv()`, `kgetenv()`, `search_path()` | the block is a function from offsets to characters; what is read behind it is a NUL |
| `Strtoul` | `kernel_strtoul()` | characters are their codes; `Reference` is C's definition, `BarePrefix` where the code parts from it |
| `Printf` | `kprintf.c`: `_vsnprintf()` and the ways into it | a format is read directive by directive; a double is the dyadic number it holds, of `MANTISSA` bits, to which the product with the power of ten is rounded; `CNumber`, `CString`, `Nearest` are C's definitions |
| `ElfLoader` | `elf_load_binary()` | a file is what it holds at each offset, in units of a section header; `Image` is the memory its headers ask for |
| `Fletcher16` | `fletcher16()` | one step per byte, one per reduction, beside the sums as Fletcher defines them |
| `Library` | the composition of `Environ`, `Strtoul`, `Printf`, `ElfLoader`, `Fletcher16` | after the BDOS has put its strings into the environment one function is called after the other; `call` is the call and its answer |
| `Numbers` | lemmas | least elements, induction over a set of numbers, the history of a loop, quotients |
| `FileTableProofs` | proofs | the inductive invariant and the safety properties; the action properties, bitmap and assertions |
| `SessionProofs` | proofs | the mounted volume, the caches and the commands' descriptors, through disks and programs |
| `FileReadProofs` | proofs | the read loop's counters; a read is a read of `FileStream` |
| `CpmDeviceProofs` | proofs | the driver's loops; a request is one of `ByteDisk` |
| `Ext2PathProofs` | proofs | which volumes stop a lookup; what it answers is live, and what its path names |
| `CommandLineProofs` | proofs | what the parser reaches of the buffer; the argument vector; the command line implements `Shell` |
| `LibraryProofs` | proofs | what each function of the library answers, whatever it is asked |
| `MC*` | instances | the values of the constants and the bounds |

`FileTable` takes names as given: `Walk[content][directory][path]` is the inode
`ext2_path_to_inode()` finds, or 0, with the inodes it looks up on the way and
whether it runs into an assertion; how it comes to that is `Ext2Path`. An inode is
its kind, its size and the identity of its block array. `ext2_inode_lookup()` knows
the first block group only (`ext2.c:335`): `LookupHangs` stops the call, whichever
it is, that looks up an inode of another.

The vector at `bdos.c:42-57` is what programs call. `_blkdevseek`, `_blkdevread`
and `_blkdevwrite` go to the disk past the file system. What a raw write makes of
a drive is a choice among `RawContents`, for the superblock, the inodes and the
directories, and `RawBitmaps`; what the kernel holds of the drive it leaves alone.
A seek moves only the offset of the device, which every other user sets before it
transfers, and a read changes only the program's memory. A device that was never
registered has null pointers. Of the other entries `_time` and `_getenv` change no
state, and the terminal attributes none of this. `hung` stands for `_ASSERT()`, which never
returns; nothing is enabled after it but stuttering. A descriptor whose `fs`
was never set reads through a null pointer: the model lets the range check go
either way and stops at the first use of the device.

The element at index -1 that `fcntl_open_inode()` writes is the variable
`below`; what the linker placed there is not known, so its effect on other data
is not modelled, only that it is written.

`ImplementsLookup` promises the meaning of names for what the code was written
for; `Covered` says what that is, and each condition is a limit of the code:

* `Plain`: no empty element. The loop over leading slashes (`ext2.c:501`) moves
  `path` and leaves behind `p`, which the lookup goes on with, so that `//a` is
  not found; and the recursive call takes what follows one slash for a whole
  path, so that `a//b` is `/b`. A path of slashes alone is chomped to nothing.
* `ThroughFile`: a file in mid-path is the answer, whatever follows its name.
* `Tidy`: the scan takes a record longer than an entry for the last one, so that
  after a removal, which lengthens the record before, the names behind it are
  not found; it goes on behind a block that is full; and it asserts that every
  record it passes names a live file or directory.
* `OneGroup`: no directory leads to an inode outside the first block group. The code
  mounts other volumes (`MountedHasOneGroup`), and a lookup that comes to such an
  inode never returns.
* `Listed`: no name is in a directory twice, and no record is empty. No limit of
  the code but what a file system keeps: of two files of one name none is the one
  the name means.

What `ImplementsShell` promises is stated for lines that are `Plain`: `(`, `+` and
`*` are operators of the parser, and a line with one may run more than one
program. The values the parser computes are not modelled: nothing uses them.
`ext2_path_to_inode()` cuts the slashes at the end of its path where the path is
(`ext2.c:493`): in `parseString`, when a program is typed with its path, so that
`/bin/ls/` runs as `/bin/ls` (`Called`), and in the line, behind a command that takes
a path (`PathCut`). Of a token of two or more slashes alone it leaves nothing and
goes on with what is in front of `parseString`, which the model counts as lost
(`TooShort`). `OwnText` and `LostOnlyByTheLine` are stated for every line, and name what
breaks them: a line that fills the buffer, a word that fills `parseString`, a name
that begins with two slashes, and a
parenthesis, behind whose content the parser skips one character unseen
(`shim.c:326`), at the end of the line its terminator.

Outside `Covered` the abstract lookup promises nothing, not even an answer;
`HangsOnlyOnOddVolumes` and `AnswersAreLive` are stated for every path, and the
second for every volume. Names longer than the 256 bytes of `path_element` are
not modelled.

Definitions called *slips* in the modules are plausible mistakes in the code
they stand next to; a property is known to depend on the code because it fails
when the slip takes the definition's place.

## Runs

| Run | Question | Result |
|---|---|---|
| `MCFileTable.cfg` | do opens, closes, reads and seeks in any order keep the table's promises? | holds |
| `MCFileTableWild.cfg` | and when programs pass descriptors they never opened, set `O_NONBLOCK`, create, and write the drive raw? | the console is safe; what stops the machine has a cause in the call or the volume; a create takes one free inode; caches are current until a raw write |
| `MCFileTableTooBig.cfg` | is a file above the size limit ever served? | yes: the refused inode stays in the free slot |
| `MCCreateCount.cfg` | does the free count follow? | no: byte order |
| `MCSession.cfg` | do disk changes, and programs that leak descriptors or write a drive raw, break the session? | holds |
| `MCFileRead.cfg` | does a read of whatever open accepts return the file's bytes, and end? | holds up to the last block that can be mapped, with liveness; beyond it the machine may stop |
| `MCFileReadOpenable.cfg` | can everything that opens be read? | no: the assertion of the block map |
| `MCCpmDevice.cfg` | is the device an array of bytes? | holds, for reads of any and writes of whole sectors, with liveness |
| `MCExt2Path.cfg` | does a lookup find what the path names, and end? | holds, with liveness, on what `Covered` covers; elsewhere it stays safe |
| `MCMountGroups.cfg` | has a mounted volume one block group? | no: byte order |
| `MCCommandLine.cfg` | are programs called by the words that were typed, whatever earlier lines left in the buffer, and does the parser end? | holds, with liveness |
| `MCLibrary.cfg` | do the functions of the library compute what they are defined to? | holds |

The runs with the answer "no" check a sentence of the source against what the
code does:

* `MCFileTableTooBig`: `fcntl_open_inode()` copies the inode into the slot before
  it refuses it, and `kread()` does not ask for the state of a descriptor.
* `MCCreateCount`: `ext2_set_inode_bitmap_state()` decrements the count in the
  disk's byte order.
* `MCFileReadOpenable`: `EXT2_NDIR_BLOCKS^2` is an exclusive or.
* `MCMountGroups`: `ext2_probe()` stops at any number of block groups but one, and
  computes it with a divisor in the wrong byte order (`ext2.c:135`). A healthy
  volume comes out as 1 all the same (`HealthyVolumesMount`), and so do others.

Other deviations are in the models, and a property is stated around them:

* an open writes at index -1 of the table first (`fcntl.c:79`);
* `ext2_next_free_inode()` stops after as many inodes as the bitmap has bytes
  (`ext2.c:704`), then takes the last one it knows an address for:
  `CreateTakesFreeInode` says which inode a create takes;
* a doubled slash goes on at the root (`ext2.c:574`), see `Plain` above;
* a read that finds no key, with `O_NONBLOCK`, leaves the last key in the buffer,
  and the editor takes it once more (`ReadNothing`);
* a hole of a file reads as the boot block (`kread.c:140`);
* `printf` gives the sign, or a prefix, the place of the last digit it converted
  when the number fills its field (`kprintf.c:191-207`): `Collides`, which the
  kernel's own formats do not ask for;
* a value of %f of which exactly a half is left behind nothing but nines is rounded
  up without the carry (`kprintf.c:327-330`) and shown with a digit too many:
  `HalfOfNines`. The percentages of a mount can be such: 199 of 20000 blocks are
  `0.100%` where 0.99 or 1.00 would do;
* `strtoul("0x")`, to base 0 or 16, finds no number (`kstrtoul.c:117-123,156`); C
  says that the zero is one. The value is the same, the end is not: `BarePrefix`;
* `snprintf()` returns the length of the whole text (`kprintf.c:714`) where
  `printf.h:76-77` has it return the size of the buffer when the text is cut.
  `BufferKept` asks for what both give, an answer not below the size;
* a path of slashes alone, as `//`, is cut in front of its first byte
  (`ext2.c:492-496`): `TooShort`;
* the section names of a program may take 4095 bytes, their buffer has 2048
  (`elf.c:192`): the answer `"lost"`; of neither read of the headers is it checked
  how much came; sections that are not `WellFormed` are loaded as the buffer has
  them;
* the last directory of PATH is copied beyond its NUL into the next variable
  (`shim.c:780`), to no effect: `FirstOnPath`.

### Bounds

* `MCFileTable`: `MAX_FDS` 5, so the table fills after two opens and slots are
  reused; offsets have eight values (`WORD`), so seeks wrap within two steps;
  `NDIR_BLOCKS` 2 and `IND_BLOCKS` 1 with blocks of one byte make the three
  limits differ as they do in the code (`MappableBlocks` below the file limit),
  with files below, between and above them.
* `MCFileTableWild`: `MAX_FDS` 4, one slot beside the console, and the numbers
  -1, 0 and 3, so that a program meets every kind of descriptor; device 0, which is
  registered, and 1, which is not. A raw write leaves the drive as it was made or
  spoiled, with one name that finds another file and others whose lookup asserts,
  and its bitmap as it is or full. Five values of an offset (`WORD`) hold
  the three limits; seeks move by 0 only, to the start, the end or nowhere: the other
  displacements are `MCFileTable`'s. Its bitmap, and
  that of `MCCreate*`, has four bytes of two bits: `BITMAP_BYTES` stands for 256
  in its three roles at once (bytes read, bytes written, bound of the search),
  which is what makes the search stop early, at half of the inodes; the counts
  are two digits, enough for the most and the least significant to be different.
* `MCSession`: four drives, one with a volume of one block group, one with a
  volume of two, whose program is in the second, one without a file system and one whose volume stops the probe,
  so that every order of mounting, refusal and remounting is reached; the fields
  of a superblock are of two digits in base 4, so that the two byte orders of a
  number differ; without a magic number the probe reads two blocks behind its
  buffer; a program, a directory on one of the volumes only, a file with more
  blocks than can be mapped, at which loading it stops, and a name on neither; a table of two usable descriptors, which a program that
  leaks one fills. A raw write spoils a drive: a volume still, with its
  directory gone and its file in ruins.
* `MCFileRead`: blocks of two bytes, three direct, two indirect and four double
  indirect ones, of which seven can be mapped, so that a read can start and end
  in every region and cross each boundary; every length that open accepts and
  every position is tried. One block is a hole.
* `MCCpmDevice`: three sectors of two bytes; requests of up to two sectors at
  every offset are inside a sector, across one boundary, and across two.
* `MCExt2Path`: every path of at most five symbols over the slash, two names and
  `..`, which is three elements, or two with a doubled or trailing slash; eight
  volumes with up to three directories in blocks of eight units, of which an
  entry takes two: a tidy one, the same with a file in a second block group, one with a lengthened record, three whose block
  is full (nothing, a short and a long record behind it), one with a symbolic
  link, one with a name whose inode has been cleared.

* `MCCommandLine`: a buffer of six characters, tokens of four, two arguments, so
  that each of the three limits is met by itself, and a line with a parenthesis
  reaches what a longer line left; the keys are a letter, a blank, the slash, the
  parenthesis, an operator, a digit, and the controls that enter, erase and
  quit. The key that clears a line is left to the proofs, which hold for every keyboard.
* `MCLibrary`: integers of 8 bits (`long long` 12), so that the largest value and
  the first beyond it are numerals of three digits; every numeral of up to four
  characters of nine kinds; fields of up to eight and decimals of up to three
  digits, over values at the ends of the ranges and halfway between decimals; doubles
  of eleven bits (`MANTISSA`), dense near 0, 1/2 and 1, so that products with 100
  and 1000 have to be rounded and the carry goes through one, two and three nines;
  buffers of one character, of nine, and of none; the strings the BDOS boots
  with, shortened to two directories, names that begin alike, every way in which the
  two exist and hold commands, each its own, a command with a slash at its end,
  commands that fit the path's buffer behind one directory only or neither; files of
  two to six headers and sections, whole, cut short, beyond the block map (`MAPPED`)
  or where `kread()` answers -1 (`READ_END`), over five cells of memory; chunks of
  three bytes and data of up to seven, in a word that just holds a chunk's sums.

The quantities are scaled, never removed: each bound keeps every comparison of
the code able to go both ways.

### Fairness

`FileRead`, `CpmDevice` and `Ext2Path` assume weak fairness of the running call:
nothing preempts the kernel and the controller answers at once, so a call that
can take a step takes one. Their abstract specifications ask for an answer to
every call they cover; `CommandLine`, of the parser, which has all it needs once a
line is entered: users need not type and programs need not return; `FileStream`, to every read that ends at or before
`Sure`, the last byte of the last block that can be mapped. Callers are under no fairness: a program need not make a call.
The other modules state safety only.

## Proofs

The theorems hold for every value of the constants that the named assumptions
of the modules allow:

* `LayoutAssumption`, `MapAssumption`, `BitmapAssumption`, `TableAssumption`: types;
  the file limit fits the word; the exclusive or of the block map is below the
  blocks of one indirect page, as it is in the code (14 < 256);
* `SessionAssumption`: disk numbers lead to drives, and a drive may mount only if
  its first blocks say so;
* `ReadAssumption`: types; the blocks that an inode and its double indirect block
  point to as blocks of pointers are such;
* `DeviceAssumption`: types and sizes; the memory in view is large enough for a
  request and the rest of a sector behind it;
* `WalkAssumption`: a path ends at an inode that was looked up on the way and is
  live; `VolumeAssumption`: a volume has a root directory, before it is
  written raw;
* `PathAssumption`: paths are sequences of names and slashes, with a slash between
  two names, volumes have a root directory in the first block group, and the records of
  a directory's block lie end to end;
* `LineAssumption`: sizes are not 0 and NUL is no key;
* `ChunkAssumption`: twice a word is more than twice what the larger sum can be
  after a chunk;
* `EnvironAssumption`, `StrtoulAssumption`, `ElfAssumption`: types; the
  table of section names is smaller than the buffer for the section headers; the
  block map ends before the offsets that `kread()` refuses, and behind that buffer;
* `LibraryAssumption`: the strings of the BDOS name variables and fit the block,
  which `bdos_init()` sees to; what the functions are given is of their type; no
  call prints a NUL;
* `SearchAssumption`: one of those strings is PATH, its directories are not empty
  and have one slash in front at most; behind it no string has a colon, at which
  the copy of the last directory would end too early; a command does not begin with
  a slash; and what a path names is one command in one directory.

No theorem knows a size the code has.

`FileTableProofs` proves `IInv` inductive. The properties are not inductive by
themselves. That a read serves only open files (`ServedFileIsOpen`) needs
`TableShape`: a descriptor that is not open caches either nothing or a file that
was refused as too large. Preserving that needs, for open, that the slot found
is free (`NewFdFacts`), and, for the first open, that initializing the table
closes nothing (`ReadyTableFacts`). That the slot is found at all rests on
`LeastElement`, which says that a non-empty set of naturals has a least element,
from the well-foundedness of inclusion on finite sets. `CwdSet` is there because
the path walk is defined from a directory, and `VolumeShape` because what a lookup
passed once, of a current directory or an open descriptor, it passes again: the
block group is computed from `per_group`, which no call changes. The action properties follow from
`IInv`: every call either leaves the open descriptors as they are (`Quiet`) or is
the open or the close that says so. `CreateTakesOne` rests on `BitFacts`, what the
search and the bit address of an inode yield together; `HangsOnMisuse` is an
induction of its own over `IInv`: `Sound` says of which volumes every lookup returns,
from every directory, and of a volume that was not written raw the current
directory is one (`SoundPaths`), so a path that does not return is on another.

`SessionProofs` has two invariants. `SInv` is about the volume: it adds
`ActiveMounted`, an active superblock is that of the selected drive, or what a raw
write left of it (`Served`), except after a probe that never came back, and
`Untouched`, a drive that was not written raw holds what it did at boot. Every call
keeps the drive and the mount (`CallKeepsVolume`), so only `SelectDisk` has a case for each outcome of the probe;
that a create finds a mounted volume rests on where it can come from, a program,
which an open without `O_CREAT` let in (`ReadingOpen`). `FInv` is about the
descriptors. A change of disk breaks the table's `CachedInodeCurrent`; what it
leaves of `IInv` is `TInv`, kept by every call (`TStep`) and by the probe. On it
rest `CommandFileOpen`, for which a command must know that the descriptor of its
file is still the one it opened while it reads and seeks, and `CachedFromMounted`:
what an open adds comes from the drive that is mounted then (`FilesFromMounted`),
or from what was made of it.

`FileReadProofs` proves that the read loop's counters agree (`BooksBalance`) and
that a read delivers the bytes that `FileStream` promises (`ReadIsStream`). The
step that maps a block moves the device; the invariant `RInv` says, between the
two steps of a turn, which block was mapped and where the device is. `MapIsFile`
is the route itself: the block that the direct, indirect and double indirect
arithmetic leads to is the one of that number in the file. `ChunkIsFile` says
that the bytes of a turn are the next ones of the file.

`CpmDeviceProofs` does the same for the sectors of the driver: `DInv` says what of
the request is done, what of the buffer or the disk holds it, and that the rest
is as it was, which a partial first or last sector must not change. Both rest on
`Numbers`: a quotient is the one number of whole blocks that fits
(`QuotientUnique`).

`Ext2PathProofs` proves what holds of every lookup, on volumes that may be
damaged. A directory's offset is known to be at the start of a record or behind
the block (`PInv`), from records that lie end to end; that a tidy directory stops
nothing needs that the scan ends at its last record (`LastRecord`) before it can
meet anything else. `LookupIsPathLookup` is the refinement: where a lookup is
`Covered`, what it answers is what a walk over the whole path leads to. `Walking`
says, at each step, which element of the path is being looked up, that what is
left of the path is what follows it, that the directory searched is where the
elements before it have led (`Led`), and that no record the scan has passed bears
the name; it is inductive with `Calls`, what the lookup remembers of its caller.
The answer may be given early: a path that leads nowhere leads nowhere with
whatever follows (`LedOn`), and that a file in mid-path is not what is covered
follows from where the beginning of the path leads (`LedPrefix`).

`CommandLineProofs` proves `CInv` inductive. `OwnText` needs `LineKept`: while a line
is parsed the buffer holds what was typed, but for the blanks `exec_run()` cut, and
a NUL behind it, at which every scan stops (`TokenEnds`); and what a returning
program leaves of the line has no operator (`LineDone`). The number of arguments
is a loop over the rest of the buffer, a recursive function in the model:
`Iterates` gives its history, `ScanHistory` that it keeps to the states in which
the word at hand still has a place in the vector.

`ShellImplemented` is the whole refinement, since `Shell` has no fairness. A key
types, erases or clears (`HandleRefines`), the parser stutters until it is done
(`ParseRefines`), and the step to argue about is the program's. A plain line has
one factor, and until that is parsed the buffer holds the line as it was typed
(`OneFactor`), so the token is its first word (`TokenIsWord`). In front of each cell
the loop has begun just the words that begin there, and has cut the blanks behind
words and no others (`HasRead`); it ends at the end of the line or with a full
vector (`ScanReads`); and a string that begins at a word then ends where the word
does (`StringIsWord`), whatever earlier lines left behind. `Words` of `Shell` is a
recursive function over the line for the sake of this proof: the definition with
a sorted sequence could not be expanded.

`LibraryProofs` takes the functions one by one. What has been answered is what the
function is of its arguments (`Answered`); what is left is what that is. Loops are
recursive functions in the models. Where a loop goes from state to state,
`Iterates` gives its history, and the theorem is an induction along it; where it
only stores, a closed form is shown to be the function.

* Environment: `Booting` says that the strings still to be put are the last ones
  and that the others lie one behind the other with NULs between them (`Laid`),
  from where every string and every length is known (`StringIs`). `kgetenv()`
  passes from one to the next until one defines the name: `Descends` is a loop over
  a table of offsets that grow. `FirstIsFound` follows with what `matchenv()`
  compares (`MatchIs`).
* Path search: `PlacingIs` says where each directory is in the value of PATH,
  `CutWhole` that cutting the whole cuts the command,
  `ValueOfPath` that no colon comes behind, so that every piece cut from it, the
  last one too, leaves one directory in the buffer (`PieceIs`). After n turns the
  walk is at directory n, or one before has ended it (`Walked`), from which
  `FirstIsRun` follows.
* `strtoul`: the accumulator is the value of the digits so far, or has stuck at the
  largest (`AccumulateIs`); that the test with a cutoff and its last digit is the
  comparison with the largest value is `OverflowsIs`.
* `snprintf`: after n characters the buffer is what `Filled` says.
* Loader: after n sections the memory is what the last section over each address
  asks for (`ShownNext`).
* Checksum: the sums reduced once in a chunk are congruent to the definition's
  (`DeferredReduction`), and what is returned is the checksum
  (`ChecksumIsFletchers`), also between calls of the others
  (`ChecksumOfTheLibrary`). The strengthening is `Bounded`: after i bytes of a chunk
  the first sum is at most 254 + 255 i and the second at most 254 + 254 i +
  255 i (i + 1) / 2, stated without the division; `ChunkAssumption` is what makes
  that fit the word, and `ChunkOfTheCode` says that it holds of 5802 and 2^32.

Where a proof needs induction, it is over a set of numbers (`Induct`), by its
least missing element: the induction theorems of the library take a predicate.

Some attempts failed because the model was wrong. `LoadCopy` of `Session` let the
loader go on after a read that had stopped at an assertion: no file of the run
was large enough to show it, and now one is. `Tidy` of `Ext2Path` looked at the
kind of a record whose inode number is 0, which is none. `WellFormed` of `ElfLoader`
did not say where the table of section names is, without which the loader may look
for it outside its buffer; `DigitsOf` of `Printf` had no value in a buffer without
room; `FirstDefinition` compared characters behind the end of a string.

Model-checked only: liveness (`ParseEnds` and the fairness of the refinements, out
of the prover's reach); what a whole format shows (`FormatsAsC`, `DecimalsNearest`),
for which the calls would have to be described by their formats, character by
character; and the violations.

## Not modelled

* The terminal attributes (`ktermios.c`): one structure copied in and out; only
  echo depends on it.
* The boot loader (`bootldr.c`): one loop over a fixed range of sectors.
* What only shows text: `ext2_list_directory()`, `kperror.c`, `kstrerror.c`, the
  statistics of the mount, and `dump.c` (which the shell's `dump` calls with a
  limit of 0, so that it shows nothing).
* The module list, the time, the exit vector: no state of their own.
* The other string and memory helpers, with their usual meaning.
* The commands of `BDOS_DEBUG_CMDS`, not in the default build, and the retired
  code under `attic/`, `linux/`, `old/` and `fuzix/`.

Headers that the sources include but the repository does not hold (`ext2.h`,
`stdio.h`, the C library) are marked external.

## Plan

What is left, in order of importance:

1. A theorem on `FormatsAsC`, from a description of the formats.
2. `MountedHasOneGroup` turned around: which volumes, of all superblocks, mount.
