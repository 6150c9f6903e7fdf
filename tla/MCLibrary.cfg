CONSTANTS
    MAX_ENVIRON = 40
    MAX_PATH = 16
    ULONG_MAX = 255
    NTOA_BUFFER = 8
    FTOA_BUFFER = 32
    UCHARS = 32
    USHORTS = 128
    ULONGS = 256
    ULLONGS = 4096
    POINTER_WIDTH = 4
    MANTISSA = 11
    ELF_BUFFER = 4
    READ_END = 6
    MAPPED = 5
    STRINGS = 2
    NO_OFFSET = 99
    CHUNK = 3
    WORD32 = 2547
    Bytes = {0, 1, 255}
    Lengths = {0, 2, 3, 7}
    Bases = {0, 8, 10, 16}
    Counts = {0, 1, 3, 9}
    BootStrings <- MCBootStrings
    PathDirs <- MCPathDirs
    Names <- MCNames
    Commands <- MCCommands
    Numerals <- MCNumerals
    Prints <- MCPrints
    Headers <- MCHeaders
    Files <- MCFiles
    Addresses <- MCAddresses
SPECIFICATION Spec
INVARIANTS
    FirstDefinition
    FirstOnPath
    StrtoulExact
    BufferKept
    FormatsAsC
    DecimalsNearest
    ImageLoaded
    ChecksumExact
