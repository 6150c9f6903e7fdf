\* Two usable descriptors, four files of every size class.
CONSTANTS
    BLOCK_SIZE = 1
    NDIR_BLOCKS = 2
    IND_BLOCKS = 1
    BITMAP_BYTES = 2
    BYTE_BITS = 1
    COUNT_RADIX = 4
    MAX_FDS = 5
    WORD = 8
    ROOT_INODE = 2
    mounted = mounted
    fresh = fresh
    spoiled = spoiled
    root = root
    absent = absent
    sub = sub
    small = small
    exact = exact
    long = long
    big = big
    Drives <- MCDrives
    Contents = {fresh}
    FirstContent <- MCFirstContent
    RawContents = {}
    RawBitmaps = {}
    PerGroup <- MCPerGroup
    Mountable <- MCMountable
    BootDrive <- MCBoot
    Inodes <- MCInodes
    Paths = {root, absent, long, big}
    RootPath = root
    Walk <- MCWalk
    BlockLists <- MCBlockLists
    NoBlocks = 0
    OnDisk <- MCOnDisk
    FirstBitmap <- MCFirstBitmap
    FirstCount <- MCFirstCount
    Fildes = {3, 4}
    ByteCounts = {0, 2}
    NonblockFlags = {FALSE}
    BlockDevices = {}
    Displacements <- MCDisplacements
SPECIFICATION Spec
INVARIANTS
    TypeOK
    ServedFileIsOpen
    ReadInsideFile
PROPERTIES
    OpenKeepsFile
    DescriptorLedger
    OpenReturnsFresh
    FullMeansAllOpen
