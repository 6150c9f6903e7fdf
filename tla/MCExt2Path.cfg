\* Every path of five symbols on every kind of volume.
CONSTANTS
    Inodes = {2, 3, 4, 5, 6, 7}
    ROOT_INODE = 2
    Symbols <- MCSymbols
    Paths <- MCPaths
    Volumes <- MCVolumes
    BLOCK = 8
    ENTRY = 2
SPECIFICATION Spec
INVARIANTS
    TypeOK
    HangsOnlyOnOddVolumes
    AnswersAreLive
PROPERTIES
    ImplementsLookup
