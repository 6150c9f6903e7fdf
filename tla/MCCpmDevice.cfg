CONSTANTS
    SECTOR_SIZE = 2
    SECTORS = 3
    BUFFER = 5
    Values = {0, 1}
    FirstDisk <- MCFirstDisk
    Sizes <- MCSizes
    Contents <- MCContents
SPECIFICATION Spec
INVARIANTS
    TypeOK
    LoopInRequest
PROPERTIES
    ImplementsByteDisk
