\* Every file open() accepts, up to all 9 blocks.
CONSTANTS
    BLOCK_SIZE = 2
    NDIR_BLOCKS = 3
    IND_BLOCKS = 2
    IBlock <- MCIBlock
    Pointers <- MCPointers
    Lengths <- MCOpenable
    Requests = {0, 1, 3, 5, 15}
    Positions <- MCPositions
SPECIFICATION Spec
INVARIANT OpenableIsReadable
