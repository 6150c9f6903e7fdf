\* Blocks of two bytes; XorTwo(3) = 1, so 7 of the 9 blocks can be mapped.
\* Every file that open() accepts.
CONSTANTS
    BLOCK_SIZE = 2
    NDIR_BLOCKS = 3
    IND_BLOCKS = 2
    IBlock <- MCIBlock
    Pointers <- MCPointers
    Lengths <- MCOpenable
    Requests = {0, 1, 3, 5, 15}
    Positions <- MCPositions
SPECIFICATION Spec
INVARIANTS
    BooksBalance
PROPERTIES
    ImplementsStream
