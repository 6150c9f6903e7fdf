------------------------------ MODULE FileRead ------------------------------
(***************************************************************************)
(* The loop of kread() over the blocks of a file, with the block map of     *)
(* ext2_get_inode_block() and the seek and read calls on the block device.  *)
(* One step maps a block, one transfers from it.  A byte of the disk stands *)
(* for itself: it is its address, so the buffer says where it came from.    *)
(***************************************************************************)
EXTENDS Ext2Layout, Sequences

CONSTANTS IBlock,     \* i_block[]: direct, indirect and double indirect
          Pointers,   \* Pointers[b][k]: word k of block b, an indirect block
          Lengths,    \* the i_size of files
          Requests,   \* counts
          Positions   \* offsets

\* A block that is used for pointers holds as many as a block can; the numbers
\* in them are any.
ASSUME ReadAssumption ==
    /\ IBlock \in [0 .. NDIR_BLOCKS + 1 -> Nat]
    /\ \A b \in DOMAIN Pointers : Pointers[b] \in [0 .. IND_BLOCKS - 1 -> Nat]
    /\ {IBlock[NDIR_BLOCKS], IBlock[NDIR_BLOCKS + 1]} \subseteq DOMAIN Pointers
    /\ \A k \in 0 .. IND_BLOCKS - 1 :
           Pointers[IBlock[NDIR_BLOCKS + 1]][k] \in DOMAIN Pointers
    /\ Lengths \subseteq Nat /\ Requests \subseteq Nat /\ Positions \subseteq Nat

VARIABLES pc,         \* where kread() is
          length,     \* fd_inode.i_size
          offset,     \* descriptor->offset
          count,      \* what the caller asked for
          remaining,  \* of it
          block,      \* fs_block_id
          device,     \* the device's offset: where its next read starts
          buf,        \* what has been written to the caller's buffer
          result      \* what kread() returned

vars == <<pc, length, offset, count, remaining, block, device, buf, result>>

Init ==
    /\ pc = "idle"
    /\ length \in Lengths
    /\ offset = 0
    /\ count = 0
    /\ remaining = 0
    /\ block = 0
    /\ device = 0
    /\ buf = <<>>
    /\ result = 0

-----------------------------------------------------------------------------
\* ext2_get_inode_block(): the pointer block it ends at, and the block it finds.
LastPointers(i) ==
    IF IsDouble(i) THEN Pointers[IBlock[NDIR_BLOCKS + 1]][DoublePage(i)]
    ELSE IBlock[NDIR_BLOCKS]
GetInodeBlock(i) ==
    IF IsDirect(i) THEN IBlock[i]
    ELSE IF IsDouble(i) THEN Pointers[LastPointers(i)][DoubleIndex(i)]
    ELSE Pointers[LastPointers(i)][IndirectIndex(i)]

\* devices[].seek() sets the offset, devices[].read() leaves it alone.
StillAvailable ==
    IF remaining < length - offset THEN remaining ELSE length - offset
\* Slip: the last block is taken whole.
InThisBlock_Room == BLOCK_SIZE - (offset % BLOCK_SIZE)
InThisBlock ==
    LET room == BLOCK_SIZE - (offset % BLOCK_SIZE)
    IN  IF room > StillAvailable THEN StillAvailable ELSE room

Return(val) == pc' = "idle" /\ result' = val

\* The caller: one process, so it does nothing else until the read returns.
Seek(p) ==
    /\ pc = "idle"
    /\ offset' = p
    /\ UNCHANGED <<pc, length, count, remaining, block, device, buf, result>>
Call(n) ==
    /\ pc = "idle"
    /\ pc' = "entry"
    /\ count' = n
    /\ buf' = <<>>
    /\ UNCHANGED <<length, offset, remaining, block, device, result>>

Enter ==
    /\ pc = "entry"
    /\ \/ offset >= MaxFileSize /\ Return(-1)
       \/ offset < MaxFileSize /\ offset >= length /\ Return(0)
       \/ /\ offset < MaxFileSize /\ offset < length
          /\ pc' = "loop" /\ UNCHANGED result
    /\ remaining' = count
    /\ UNCHANGED <<length, offset, count, block, device, buf>>

MapBlock ==
    LET i == offset \div BLOCK_SIZE
    IN  /\ pc = "loop" /\ remaining > 0 /\ StillAvailable > 0
        /\ IF i >= NDIR_BLOCKS /\ i >= MappableBlocks
           THEN pc' = "hung" /\ UNCHANGED <<block, device>>
           ELSE /\ block' = GetInodeBlock(i)
                /\ device' = IF IsDirect(i) THEN device ELSE LastPointers(i) * BLOCK_SIZE
                /\ pc' = "transfer"
        /\ UNCHANGED <<length, offset, count, remaining, buf, result>>

\* Slip: no seek back from the pointer block that was just read.
Transfer_NoSeek ==
    LET n == InThisBlock
    IN  /\ pc = "transfer"
        /\ buf' = buf \o [k \in 1 .. n |-> device + k - 1]
        /\ offset' = offset + n
        /\ remaining' = remaining - n
        /\ pc' = "loop"
        /\ UNCHANGED <<length, count, block, device, result>>

Transfer ==
    LET n == InThisBlock
    IN  /\ pc = "transfer"
        /\ device' = block * BLOCK_SIZE + (offset % BLOCK_SIZE)
        /\ buf' = buf \o [k \in 1 .. n |-> device' + k - 1]
        /\ offset' = offset + n
        /\ remaining' = remaining - n
        /\ pc' = "loop"
        /\ UNCHANGED <<length, count, block, result>>

Finish ==
    /\ pc = "loop" /\ ~(remaining > 0 /\ StillAvailable > 0)
    /\ Return(Len(buf))
    /\ UNCHANGED <<length, offset, count, remaining, block, device, buf>>

Halted == pc = "hung" /\ UNCHANGED vars

Running == Enter \/ MapBlock \/ Transfer \/ Finish
Next ==
    \/ \E p \in Positions : Seek(p)
    \/ \E n \in Requests : Call(n)
    \/ Running
    \/ Halted

\* Nothing preempts kread(): it runs until it returns or stops.
Spec == Init /\ [][Next]_vars /\ WF_vars(Running)

-----------------------------------------------------------------------------
\* Properties

\* The blocks of the longest file the layout allows, as ext2 defines them: the
\* direct ones, those of the indirect block, those of each block of the double
\* indirect block.  FileBytes is what a file of that length contains.
Beyond(i) == i - NDIR_BLOCKS - IND_BLOCKS
FileBlocks ==
    [i \in 0 .. NDIR_BLOCKS + IND_BLOCKS + IND_BLOCKS * IND_BLOCKS - 1 |->
        IF i < NDIR_BLOCKS THEN IBlock[i]
        ELSE IF Beyond(i) < 0 THEN Pointers[IBlock[NDIR_BLOCKS]][i - NDIR_BLOCKS]
        ELSE LET page == CHOOSE q \in 0 .. IND_BLOCKS - 1 :
                             /\ q * IND_BLOCKS <= Beyond(i)
                             /\ Beyond(i) < (q + 1) * IND_BLOCKS
             IN  Pointers[Pointers[IBlock[NDIR_BLOCKS + 1]][page]]
                         [Beyond(i) - page * IND_BLOCKS]]
FileBytes ==
    [k \in 1 .. MaxFileSize |->
        FileBlocks[(k - 1) \div BLOCK_SIZE] * BLOCK_SIZE + ((k - 1) % BLOCK_SIZE)]

TypeOK ==
    /\ pc \in {"idle", "entry", "loop", "transfer", "hung"}
    /\ length \in Nat /\ offset \in Nat /\ count \in Nat /\ remaining \in Nat
    /\ block \in Nat /\ device \in Nat
    /\ buf \in Seq(Nat)
    /\ result \in Int

\* One transfer never crosses a block: its bytes are consecutive on the disk
\* because they lie in the one block that was mapped.
TransferInOneBlock ==
    pc = "transfer" =>
        /\ InThisBlock > 0
        /\ (offset % BLOCK_SIZE) + InThisBlock <= BLOCK_SIZE

\* The caller's buffer is never overrun, and the loop's books balance: what is
\* left of the request plus what has been delivered is the request, the offset
\* never passes the end of the file, and a transfer is within a block.
BooksBalance ==
    /\ TypeOK
    /\ pc \in {"loop", "transfer"} =>
           /\ Len(buf) + remaining = count
           /\ offset <= length
    /\ TransferInOneBlock

\* "we can only handle files with direct and indirect blocks, anything else is
\* too large" (fcntl_open_inode): what open() accepts, read() can read.
OpenableIsReadable == length <= MaxFileSize => pc # "hung"

\* The loop implements the stream of bytes: its steps are invisible until it
\* returns, and then the buffer holds the file's bytes in order.  It does
\* return when every byte it wants lies in a block that can be mapped.
Stream ==
    INSTANCE FileStream WITH
        Bytes <- FileBytes, Limit <- MaxFileSize,
        Sure <- MappableBlocks * BLOCK_SIZE,
        position <- IF pc = "idle" THEN offset ELSE offset - Len(buf),
        request <- IF pc = "idle" THEN -1 ELSE count,
        reply <- IF pc # "idle" THEN [val |-> 0, bytes |-> <<>>]
                 ELSE [val |-> result, bytes |-> buf]
ImplementsStream == Stream!StreamSpec
=============================================================================
