\* One usable descriptor beside the console, numbers no table has, and creates
\* until the scanned half of the bitmap is full, and then some.
CONSTANTS
    BLOCK_SIZE = 1
    NDIR_BLOCKS = 2
    IND_BLOCKS = 1
    BITMAP_BYTES = 4
    BYTE_BITS = 2
    COUNT_RADIX = 4
    MAX_FDS = 4
    WORD = 5
    ROOT_INODE = 2
    mounted = mounted
    fresh = fresh
    spoiled = spoiled
    root = root
    absent = absent
    sub = sub
    small = small
    exact = exact
    long = long
    big = big
    Drives <- MCDrives
    Contents <- MCContents
    FirstContent <- MCFirstContent
    RawContents <- MCContents
    RawBitmaps <- MCFullBitmap
    PerGroup <- MCPerGroup
    Mountable <- MCMountable
    BootDrive <- MCBoot
    Inodes <- MCInodes
    Paths = {root, absent, exact}
    RootPath = root
    Walk <- MCWalk
    BlockLists <- MCBlockLists
    NoBlocks = 0
    OnDisk <- MCOnDisk
    FirstBitmap <- MCPartBitmap
    FirstCount <- MCFirstCount
    Fildes <- MCWildFildes
    ByteCounts = {0, 2}
    NonblockFlags = {FALSE, TRUE}
    BlockDevices = {0, 1}
    Displacements = {0}
SPECIFICATION Spec
INVARIANTS
    StandardStreamsKept
    HangsOnlyOnMisuse
    CachedInodeCurrent
PROPERTIES
    CreateTakesFreeInode
