\* What ext2_probe() says of block groups, on a drive whose volume has two.
CONSTANTS
    BLOCK_SIZE = 1
    NDIR_BLOCKS = 2
    IND_BLOCKS = 1
    BITMAP_BYTES = 2
    BYTE_BITS = 1
    COUNT_RADIX = 4
    MAX_FDS = 5
    WORD = 8
    ROOT_INODE = 2
    mounted = mounted
    second = second
    blank = blank
    foreign = foreign
    spoiled = spoiled
    root = root
    absent = absent
    sub = sub
    prog = prog
    Drives <- MCDrives
    Contents <- MCContents
    FirstContent <- MCFirstContent
    RawContents = {spoiled}
    RawBitmaps = {}
    PerGroup <- MCPerGroup
    Mountable <- MCMountable
    FirstBlocks <- MCFirstBlocks
    MIN_BLOCK = 4
    INODE_SIZE = 1
    BUFFER_BLOCKS = 4
    SCAN = 6
    BootDrive <- MCBoot
    DiskNumbers <- MCDiskNumbers
    DriveOf <- MCDriveOf
    Inodes <- MCInodes
    Paths = {root, absent, sub, prog}
    RootPath = root
    Walk <- MCWalk
    BlockLists <- MCBlockLists
    NoBlocks = 0
    OnDisk <- MCOnDisk
    FirstBitmap <- MCFirstBitmap
    FirstCount <- MCFirstCount
    Fildes = {3}
    ByteCounts = {2}
    Displacements = {0}
    NonblockFlags = {FALSE}
    BlockDevices = {0}
SPECIFICATION SSpec
INVARIANT
    MountedHasOneGroup
