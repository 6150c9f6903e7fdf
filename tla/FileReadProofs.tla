--------------------------- MODULE FileReadProofs ---------------------------
(***************************************************************************)
(* The read loop, for every file, every block map and every request: its    *)
(* books balance, and what it delivers is the stream of the file's bytes.   *)
(***************************************************************************)
EXTENDS FileRead, Numbers, SequenceTheorems, TLAPS

\* The route from a position to its byte, and the position the read began at.
Block == offset \div BLOCK_SIZE
Start == offset - Len(buf)
Mappable(i) == i < NDIR_BLOCKS \/ i < MappableBlocks

\* What has been delivered are the file's bytes from Start on.
BufferIsFile == \A k \in 1 .. Len(buf) : buf[k] = FileBytes[Start + k]
Underway ==
    /\ Len(buf) + remaining = count
    /\ Start \in Nat /\ Start < MaxFileSize /\ Start < length
    /\ offset <= length /\ offset <= MaxFileSize
    /\ BufferIsFile
Mapped ==
    /\ remaining > 0 /\ offset < length
    /\ Mappable(Block) /\ block = GetInodeBlock(Block)
RInv ==
    /\ TypeOK
    /\ pc = "entry" => buf = <<>>
    /\ pc \in {"loop", "transfer", "hung"} => Underway
    /\ pc = "transfer" => Mapped

-----------------------------------------------------------------------------
\* The block map.

Blocks == NDIR_BLOCKS + IND_BLOCKS + IND_BLOCKS * IND_BLOCKS

LEMMA LimitsInBlocks ==
    /\ Blocks \in Nat /\ MaxFileSize = Blocks * BLOCK_SIZE /\ MaxFileSize \in Nat
    /\ MappableBlocks \in Int /\ MappableBlocks <= Blocks
<1>1. XorTwo(NDIR_BLOCKS) \in Int
  BY LayoutAssumption DEF XorTwo
<1>2. XorTwo(NDIR_BLOCKS) * IND_BLOCKS <= IND_BLOCKS * IND_BLOCKS
  <2> XorTwo(NDIR_BLOCKS) <= IND_BLOCKS
    BY <1>1, LayoutAssumption, MapAssumption
  <2> QED
    BY <1>1, LayoutAssumption, LessTimes
<1>3. \A m, r \in Nat : m * r \in Nat
  OBVIOUS
<1>4. \A m \in Int : \A r \in Nat : m * r \in Int
  OBVIOUS
<1>5. IND_BLOCKS * IND_BLOCKS \in Nat /\ XorTwo(NDIR_BLOCKS) * IND_BLOCKS \in Int
  BY <1>1, <1>3, <1>4, LayoutAssumption
<1>6. Blocks \in Nat
  BY <1>5, LayoutAssumption DEF Blocks
<1> QED
  BY <1>2, <1>3, <1>5, <1>6, LayoutAssumption DEF Blocks, MaxFileSize, MappableBlocks

\* A block that ext2_get_inode_block() maps is the block that ext2 means, by
\* way of a pointer block whose number is on the disk.
LEMMA MapIsFile ==
    ASSUME NEW i \in Nat, Mappable(i)
    PROVE  /\ i < Blocks
           /\ GetInodeBlock(i) \in Nat /\ FileBlocks[i] = GetInodeBlock(i)
           /\ ~IsDirect(i) => LastPointers(i) \in Nat
<1> USE LayoutAssumption
<1>1. i < Blocks
  <2>1. IND_BLOCKS * IND_BLOCKS \in Nat
    OBVIOUS
  <2> QED
    BY <2>1, LimitsInBlocks DEF Mappable, Blocks
<1>2. i \in 0 .. NDIR_BLOCKS + IND_BLOCKS + IND_BLOCKS * IND_BLOCKS - 1
  BY <1>1, LimitsInBlocks DEF Blocks
<1>3. CASE IsDirect(i)
  <2>1. i \in 0 .. NDIR_BLOCKS + 1
    BY <1>3 DEF IsDirect
  <2>2. IBlock[i] \in Nat
    BY <2>1, ReadAssumption
  <2> QED
    BY <1>1, <1>2, <1>3, <2>2 DEF IsDirect, GetInodeBlock, FileBlocks
<1>4. CASE ~IsDirect(i) /\ ~IsDouble(i)
  <2>1. IBlock[NDIR_BLOCKS] \in Nat /\ IBlock[NDIR_BLOCKS] \in DOMAIN Pointers
    BY ReadAssumption
  <2>2. i - NDIR_BLOCKS \in 0 .. IND_BLOCKS - 1 /\ Beyond(i) < 0
    BY <1>4 DEF IsDirect, IsDouble, Beyond
  <2>3. Pointers[IBlock[NDIR_BLOCKS]][i - NDIR_BLOCKS] \in Nat
    BY <2>1, <2>2, ReadAssumption
  <2> QED
    BY <1>1, <1>2, <1>4, <2>1, <2>2, <2>3
       DEF IsDirect, IsDouble, IndirectIndex, LastPointers, GetInodeBlock, FileBlocks
<1>5. CASE ~IsDirect(i) /\ IsDouble(i)
  <2> DEFINE b == Beyond(i)
             p == b \div IND_BLOCKS
             Page(q) == q * IND_BLOCKS <= b /\ b < (q + 1) * IND_BLOCKS
  <2>1. b \in Nat /\ i - (IND_BLOCKS + NDIR_BLOCKS) = b
    BY <1>5 DEF IsDouble, Beyond
  <2>2. b < IND_BLOCKS * IND_BLOCKS
    <3>1. IND_BLOCKS * IND_BLOCKS \in Nat
      OBVIOUS
    <3> QED
      BY <1>1, <3>1, LimitsInBlocks DEF Blocks, Beyond
  <2>3. DoublePage(i) = p /\ DoubleIndex(i) = b % IND_BLOCKS
    BY <2>1 DEF DoublePage, DoubleIndex
  <2>4. p \in Nat /\ b % IND_BLOCKS \in 0 .. IND_BLOCKS - 1
        /\ b = p * IND_BLOCKS + (b % IND_BLOCKS)
    <3> HIDE DEF b
    <3> QED
      BY <2>1, Division
  <2>5. p \in 0 .. IND_BLOCKS - 1
    <3> HIDE DEF b
    <3>1. IND_BLOCKS \in Nat
      OBVIOUS
    <3>2. (b \div IND_BLOCKS < IND_BLOCKS) <=> (b < IND_BLOCKS * IND_BLOCKS)
      BY <2>1, <3>1, QuotientBelow, Zenon
    <3> QED
      BY <2>2, <2>4, <3>2
  <2> HIDE DEF b, p
  <2>6. p * IND_BLOCKS <= b /\ b < (p + 1) * IND_BLOCKS
    <3>1. (p + 1) * IND_BLOCKS = p * IND_BLOCKS + IND_BLOCKS /\ p * IND_BLOCKS \in Nat
      BY <2>5
    <3> QED
      BY <2>4, <3>1
  <2>7. \A q \in 0 .. IND_BLOCKS - 1 : Page(q) => q = p
    BY <2>1, QuotientUnique DEF p
  <2>8. p = CHOOSE q \in 0 .. IND_BLOCKS - 1 : Page(q)
    BY <2>5, <2>6, <2>7
  <2>9. b - p * IND_BLOCKS = b % IND_BLOCKS
    <3>1. p \in Nat
      BY <2>5
    <3> QED
      BY <2>1, <2>6, <3>1, QuotientUnique, Zenon
  <2> DEFINE page == Pointers[IBlock[NDIR_BLOCKS + 1]][p]
  <2>10. page \in DOMAIN Pointers /\ page \in Nat
    BY <2>5, ReadAssumption
  <2>11. Pointers[page][b % IND_BLOCKS] \in Nat
    BY <2>4, <2>10, ReadAssumption
  <2>12. FileBlocks[i] = Pointers[page][b - p * IND_BLOCKS]
    BY <1>2, <1>5, <2>1, <2>8 DEF FileBlocks, IsDirect, b
  <2>13. LastPointers(i) = page
    BY <1>5, <2>3 DEF LastPointers
  <2>14. GetInodeBlock(i) = Pointers[page][b % IND_BLOCKS]
    BY <1>5, <2>3, <2>13 DEF GetInodeBlock
  <2> QED
    BY <1>1, <2>9, <2>10, <2>11, <2>12, <2>13, <2>14
<1> QED
  BY <1>3, <1>4, <1>5
-----------------------------------------------------------------------------
\* What one transfer takes.

\* At least a byte, no more than is asked for and there, and all in one block.
LEMMA Chunk ==
    ASSUME TypeOK, remaining > 0, offset < length
    PROVE  /\ InThisBlock \in Nat /\ InThisBlock > 0
           /\ InThisBlock <= remaining /\ InThisBlock <= length - offset
           /\ (offset % BLOCK_SIZE) + InThisBlock <= BLOCK_SIZE
<1>1. /\ offset \in Nat /\ length \in Nat /\ remaining \in Nat
      /\ BLOCK_SIZE \in Nat \ {0}
  BY LayoutAssumption DEF TypeOK
<1>2. (offset % BLOCK_SIZE) \in 0 .. BLOCK_SIZE - 1
  BY <1>1, Division
<1> QED
  BY <1>1, <1>2 DEF InThisBlock, StillAvailable

\* The bytes of the mapped block from the offset on are the file's next bytes.
LEMMA ChunkIsFile ==
    ASSUME TypeOK, remaining > 0, offset < length, Mappable(Block)
    PROVE  /\ offset + InThisBlock <= MaxFileSize
           /\ \A k \in 1 .. InThisBlock :
                  FileBytes[offset + k] = GetInodeBlock(Block) * BLOCK_SIZE
                                          + (offset % BLOCK_SIZE) + k - 1
<1> DEFINE R == BLOCK_SIZE
           m == offset % R
           n == InThisBlock
<1>1. offset \in Nat /\ R \in Nat \ {0}
  BY LayoutAssumption DEF TypeOK
<1>2. Block \in Nat /\ m \in 0 .. R - 1 /\ offset = Block * R + m
  BY <1>1, Division DEF Block
<1>3. n \in Nat /\ n > 0 /\ m + n <= R
  BY Chunk
<1>4. /\ Block < Blocks /\ FileBlocks[Block] = GetInodeBlock(Block)
      /\ GetInodeBlock(Block) \in Nat
  BY <1>2, MapIsFile
<1>5. Block * R + R <= MaxFileSize
  BY <1>1, <1>2, <1>4, LimitsInBlocks, LessTimes
<1>6. Block * R \in Nat
  BY <1>1, <1>2
<1> HIDE DEF R, m, n
<1>7. offset + n <= MaxFileSize
  BY <1>1, <1>2, <1>3, <1>5, <1>6, LimitsInBlocks
<1>8. ASSUME NEW k \in 1 .. n
      PROVE  FileBytes[offset + k] = GetInodeBlock(Block) * R + m + k - 1
  <2> DEFINE j == offset + k - 1
  <2>1. j \in Nat /\ j = Block * R + (m + k - 1)
    BY <1>1, <1>2, <1>6
  <2>2. (Block + 1) * R = Block * R + R
    BY <1>1, <1>2
  <2>3. Block * R <= j /\ j < (Block + 1) * R
    BY <1>2, <1>3, <1>6, <2>1, <2>2, <1>1
  <2>4. Block = j \div R /\ j - Block * R = j % R
    <3> HIDE DEF j
    <3> QED
      BY <1>1, <1>2, <2>1, <2>3, QuotientUnique, Zenon
  <2>5. j % R = m + k - 1
    <3> DEFINE x == Block * R
    <3>1. x \in Nat /\ j = x + (m + k - 1) /\ j % R = j - x
      BY <1>6, <2>1, <2>4
    <3> HIDE DEF j, x
    <3> QED
      BY <1>2, <2>1, <3>1
  <2>6. offset + k \in 1 .. MaxFileSize
    BY <1>1, <1>3, <1>7, LimitsInBlocks
  <2>7. FileBytes[offset + k] = FileBlocks[j \div R] * R + (j % R)
    <3>1. \A t \in 1 .. MaxFileSize :
              FileBytes[t] = FileBlocks[(t - 1) \div R] * R + ((t - 1) % R)
      BY Zenon DEF FileBytes, R
    <3>2. (offset + k) - 1 = j
      BY <1>1
    <3> QED
      BY <2>6, <3>1, <3>2, Zenon
  <2>8. GetInodeBlock(Block) * R \in Nat
    BY <1>1, <1>4
  <2> HIDE DEF j
  <2> QED
    BY <1>2, <1>4, <2>4, <2>5, <2>7, <2>8
<1> QED
  BY <1>7, <1>8 DEF R, m, n

-----------------------------------------------------------------------------
\* Every step keeps the invariant.

LEMMA RInit == Init => RInv
<1> SUFFICES ASSUME Init PROVE RInv
  OBVIOUS
<1>1. TypeOK
  BY ReadAssumption DEF Init, TypeOK
<1> QED
  BY <1>1 DEF Init, RInv

LEMMA SeekKeeps ==
    ASSUME RInv, NEW p \in Positions, Seek(p)
    PROVE  RInv'
BY ReadAssumption DEF RInv, Seek, TypeOK

LEMMA CallKeeps ==
    ASSUME RInv, NEW n \in Requests, Call(n)
    PROVE  RInv'
BY ReadAssumption DEF RInv, Call, TypeOK

LEMMA EnterKeeps ==
    ASSUME RInv, Enter
    PROVE  RInv'
<1>1. TypeOK'
  BY DEF RInv, Enter, Return, TypeOK
<1>2. ASSUME pc' \in {"loop", "transfer", "hung"} PROVE Underway'
  <2>1. /\ pc' = "loop" /\ offset < MaxFileSize /\ offset < length
        /\ remaining' = count /\ buf' = <<>>
        /\ UNCHANGED <<length, offset, count>>
    BY <1>2 DEF RInv, Enter, Return
  <2>2. Start' = offset /\ Len(buf') = 0
    BY <2>1 DEF RInv, TypeOK, Start
  <2>3. BufferIsFile'
    BY <2>2 DEF BufferIsFile
  <2> QED
    BY <2>1, <2>2, <2>3, LimitsInBlocks DEF RInv, TypeOK, Underway
<1>3. pc' # "transfer" /\ (pc' # "entry")
  BY DEF Enter, Return
<1> QED
  BY <1>1, <1>2, <1>3 DEF RInv

LEMMA MapBlockKeeps ==
    ASSUME RInv, MapBlock
    PROVE  RInv'
<1> DEFINE i == offset \div BLOCK_SIZE
<1>1. /\ TypeOK /\ Underway /\ pc = "loop" /\ remaining > 0 /\ StillAvailable > 0
      /\ pc' \in {"hung", "transfer"}
      /\ UNCHANGED <<length, offset, count, remaining, buf, result>>
  BY DEF RInv, MapBlock
<1>2. i \in Nat
  BY <1>1, LayoutAssumption, Division DEF TypeOK
<1>3. offset < length
  BY <1>1 DEF TypeOK, StillAvailable
<1>4. Underway'
  BY <1>1 DEF Underway, Start, BufferIsFile
<1>5. CASE pc' = "hung"
  <2>1. UNCHANGED <<block, device>>
    BY <1>5 DEF MapBlock
  <2> QED
    BY <1>1, <1>4, <1>5, <2>1 DEF RInv, TypeOK
<1>6. CASE pc' = "transfer"
  <2>1. /\ Mappable(i) /\ block' = GetInodeBlock(i)
        /\ device' = IF IsDirect(i) THEN device ELSE LastPointers(i) * BLOCK_SIZE
    BY <1>2, <1>6, LayoutAssumption, LimitsInBlocks DEF MapBlock, Mappable
  <2> HIDE DEF i
  <2>2. block' \in Nat /\ device' \in Nat
    <3>1. \A a, b \in Nat : a * b \in Nat
      OBVIOUS
    <3> QED
      BY <1>1, <1>2, <2>1, <3>1, MapIsFile, LayoutAssumption DEF TypeOK
  <2>3. TypeOK'
    BY <1>1, <1>6, <2>2 DEF TypeOK
  <2>4. Block' = i /\ Block = i
    BY <1>1 DEF Block, i
  <2>5. block' = GetInodeBlock(Block')
    BY <2>1, <2>4
  <2>6. Mapped'
    BY <1>1, <1>3, <2>1, <2>4 DEF Mapped, GetInodeBlock, LastPointers
  <2> QED
    BY <1>1, <1>4, <1>6, <2>3, <2>6 DEF RInv
<1> QED
  BY <1>1, <1>5, <1>6
LEMMA TransferKeeps ==
    ASSUME RInv, Transfer
    PROVE  RInv'
<1> DEFINE n == InThisBlock
           m == offset % BLOCK_SIZE
           from == block * BLOCK_SIZE + m
           chunk == [k \in 1 .. n |-> from + k - 1]
<1>1. /\ TypeOK /\ Underway /\ Mapped /\ pc' = "loop"
      /\ device' = from /\ buf' = buf \o chunk
      /\ offset' = offset + n /\ remaining' = remaining - n
      /\ UNCHANGED <<length, count, block, result>>
  BY DEF RInv, Transfer
<1>2. /\ n \in Nat /\ n > 0 /\ n <= remaining /\ n <= length - offset
      /\ m + n <= BLOCK_SIZE
  BY <1>1, Chunk DEF Mapped
<1>3. /\ offset + n <= MaxFileSize
      /\ \A k \in 1 .. n : FileBytes[offset + k] = from + k - 1
  BY <1>1, ChunkIsFile DEF Mapped
<1>4. from \in Nat
  <2>1. offset \in Nat /\ block \in Nat /\ BLOCK_SIZE \in Nat \ {0}
    BY <1>1, LayoutAssumption DEF TypeOK
  <2>2. m \in Nat /\ block * BLOCK_SIZE \in Nat
    BY <2>1, Division
  <2> QED
    BY <2>2
<1> HIDE DEF n, m, from
<1>5. chunk \in Seq(Nat) /\ Len(chunk) = n
  BY <1>2, <1>4
<1>6. buf \in Seq(Nat)
  BY <1>1 DEF TypeOK
<1>7. /\ buf' \in Seq(Nat) /\ Len(buf') = Len(buf) + n
      /\ \A k \in 1 .. Len(buf) : buf'[k] = buf[k]
      /\ \A k \in 1 .. n : buf'[Len(buf) + k] = from + k - 1
  <2>1. \A k \in 1 .. n : chunk[k] = from + k - 1
    OBVIOUS
  <2> HIDE DEF chunk
  <2>2. Len(buf) \in Nat
    BY <1>6
  <2>3. /\ buf \o chunk \in Seq(Nat) /\ Len(buf \o chunk) = Len(buf) + n
        /\ \A k \in 1 .. Len(buf) + n :
               (buf \o chunk)[k] = IF k <= Len(buf) THEN buf[k] ELSE chunk[k - Len(buf)]
    BY <1>5, <1>6, ConcatProperties
  <2>4. ASSUME NEW k \in 1 .. n PROVE (buf \o chunk)[Len(buf) + k] = chunk[k]
    <3> Len(buf) + k \in 1 .. Len(buf) + n /\ ~(Len(buf) + k <= Len(buf))
        /\ (Len(buf) + k) - Len(buf) = k
      BY <1>2, <2>2
    <3> QED
      BY <2>3
  <2>5. ASSUME NEW k \in 1 .. Len(buf) PROVE (buf \o chunk)[k] = buf[k]
    BY <1>2, <2>2, <2>3
  <2> QED
    BY <1>1, <2>1, <2>3, <2>4, <2>5
<1> HIDE DEF chunk
<1>8. /\ offset \in Nat /\ length \in Nat /\ count \in Nat /\ remaining \in Nat
      /\ Len(buf) \in Nat /\ Start = offset - Len(buf) /\ Start \in Nat
      /\ Len(buf) + remaining = count
  BY <1>1, <1>6 DEF TypeOK, Underway, Start
<1>9. TypeOK'
  BY <1>1, <1>2, <1>4, <1>7, <1>8 DEF TypeOK
<1>10. Start' = Start
  BY <1>1, <1>2, <1>7, <1>8 DEF Start
<1>11. BufferIsFile'
  <2> SUFFICES ASSUME NEW k \in 1 .. Len(buf') PROVE buf'[k] = FileBytes[Start + k]
    BY <1>10 DEF BufferIsFile
  <2>1. CASE k <= Len(buf)
    <3>1. k \in 1 .. Len(buf)
      BY <1>7, <1>8, <2>1
    <3> QED
      BY <1>1, <1>7, <3>1 DEF Underway, BufferIsFile
  <2>2. CASE k > Len(buf)
    <3> DEFINE j == k - Len(buf)
    <3>1. j \in 1 .. n /\ Len(buf) + j = k /\ offset + j = Start + k
      BY <1>2, <1>7, <1>8, <2>2
    <3> HIDE DEF j
    <3> QED
      BY <1>3, <1>7, <3>1
  <2>3. k <= Len(buf) \/ k > Len(buf)
    BY <1>8, <1>7
  <2> QED
    BY <2>1, <2>2, <2>3
<1>12. Underway'
  <2> Len(buf') = Len(buf) + n /\ remaining' = remaining - n /\ offset' = offset + n
      /\ UNCHANGED <<length, count>>
    BY <1>1, <1>7
  <2>1. Len(buf') + remaining' = count' /\ offset' <= length'
    BY <1>2, <1>8
  <2>2. Start' \in Nat /\ Start' < MaxFileSize /\ Start' < length'
    BY <1>1, <1>8, <1>10 DEF Underway
  <2> QED
    BY <1>1, <1>3, <1>11, <2>1, <2>2 DEF Underway
<1> QED
  BY <1>1, <1>9, <1>12 DEF RInv

LEMMA FinishKeeps ==
    ASSUME RInv, Finish
    PROVE  RInv'
<1>1. TypeOK' /\ pc' = "idle"
  BY DEF RInv, Finish, Return, TypeOK
<1> QED
  BY <1>1 DEF RInv

LEMMA RNext == RInv /\ [Next]_vars => RInv'
<1> SUFFICES ASSUME RInv, [Next]_vars PROVE RInv'
  OBVIOUS
<1>1. ASSUME NEW p \in Positions, Seek(p) PROVE RInv'
  BY <1>1, SeekKeeps
<1>2. ASSUME NEW n \in Requests, Call(n) PROVE RInv'
  BY <1>2, CallKeeps
<1>3. CASE Enter
  BY <1>3, EnterKeeps
<1>4. CASE MapBlock
  BY <1>4, MapBlockKeeps
<1>5. CASE Transfer
  BY <1>5, TransferKeeps
<1>6. CASE Finish
  BY <1>6, FinishKeeps
<1>7. CASE UNCHANGED vars
  BY <1>7 DEF vars, RInv, TypeOK, Underway, Mapped, Start, Block, BufferIsFile,
              GetInodeBlock, LastPointers
<1>8. Halted => UNCHANGED vars
  BY DEF Halted
<1> QED
  BY <1>1, <1>2, <1>3, <1>4, <1>5, <1>6, <1>7, <1>8 DEF Next, Running

LEMMA ReadInvariant == Spec => []RInv
<1>1. Init => RInv
  BY RInit
<1>2. RInv /\ [Next]_vars => RInv'
  BY RNext
<1> QED
  BY <1>1, <1>2, PTL DEF Spec

-----------------------------------------------------------------------------
\* What the loop promises.

LEMMA RInvBalances == RInv => BooksBalance
<1> SUFFICES ASSUME RInv PROVE BooksBalance
  OBVIOUS
<1>1. pc = "transfer" => TransferInOneBlock
  BY Chunk DEF RInv, Mapped, TransferInOneBlock
<1> QED
  BY <1>1 DEF RInv, BooksBalance, Underway, TransferInOneBlock

\* Whatever the file, its map and the request: the buffer is never overrun, the
\* offset never passes the end of the file and no transfer crosses a block.
THEOREM ReadBooksBalance == Spec => []BooksBalance
<1>1. RInv => BooksBalance
  BY RInvBalances
<1> QED
  BY <1>1, ReadInvariant, PTL
-----------------------------------------------------------------------------
\* The loop implements the stream: seek, call and return are its steps, the
\* others leave what the caller sees alone.

LEMMA StreamInits == Init => Stream!StreamInit
BY DEF Init, Stream!StreamInit, Stream!Answered

LEMMA SeekIsSeekTo ==
    ASSUME RInv, NEW p \in Positions, Seek(p)
    PROVE  Stream!StreamNext
<1>1. Stream!SeekTo(p)
  BY DEF Seek, Stream!SeekTo
<1> QED
  BY <1>1 DEF Stream!StreamNext

LEMMA CallIsAsk ==
    ASSUME RInv, NEW n \in Requests, Call(n)
    PROVE  Stream!StreamNext
<1>1. offset \in Nat /\ offset' = offset /\ buf' = <<>>
  BY DEF RInv, TypeOK, Call
<1>2. offset' - Len(buf') = offset
  BY <1>1
<1>3. Stream!Ask(n)
  BY <1>1, <1>2 DEF Call, Stream!Ask, Stream!Answered
<1> QED
  BY <1>3 DEF Stream!StreamNext

LEMMA EnterAnswers ==
    ASSUME RInv, Enter
    PROVE  Stream!StreamNext \/ UNCHANGED Stream!streamVars
<1>1. /\ offset \in Nat /\ length \in Nat /\ count \in Nat /\ buf = <<>>
      /\ pc = "entry" /\ UNCHANGED <<length, offset, count, buf>>
  BY DEF RInv, TypeOK, Enter
<1>2. offset - Len(buf) = offset /\ offset' - Len(buf') = offset'
  BY <1>1
<1>3. CASE offset >= MaxFileSize /\ Return(-1)
  <2>1. Stream!Answer
    BY <1>1, <1>2, <1>3 DEF Return, Stream!Answer, Stream!Answered
  <2> QED
    BY <2>1 DEF Stream!StreamNext
<1>4. CASE offset < MaxFileSize /\ offset >= length /\ Return(0)
  <2>1. Stream!Answer
    BY <1>1, <1>2, <1>4 DEF Return, Stream!Answer, Stream!Answered
  <2> QED
    BY <2>1 DEF Stream!StreamNext
<1>5. CASE pc' = "loop"
  BY <1>1, <1>2, <1>5 DEF Stream!streamVars
<1> QED
  BY <1>3, <1>4, <1>5 DEF Enter

LEMMA MapBlockUnseen ==
    ASSUME RInv, MapBlock
    PROVE  UNCHANGED Stream!streamVars
BY DEF MapBlock, Stream!streamVars

LEMMA TransferUnseen ==
    ASSUME RInv, Transfer
    PROVE  UNCHANGED Stream!streamVars
<1> DEFINE n == InThisBlock
           chunk == [k \in 1 .. n |-> device' + k - 1]
<1>1. /\ TypeOK /\ Mapped /\ pc = "transfer" /\ pc' = "loop"
      /\ offset' = offset + n /\ buf' = buf \o chunk
      /\ UNCHANGED <<length, count, result>>
  BY DEF RInv, Transfer
<1>2. n \in Nat
  BY <1>1, Chunk DEF Mapped
<1>3. device' \in Nat
  BY TransferKeeps DEF RInv, TypeOK
<1> HIDE DEF n
<1>4. chunk \in Seq(Int) /\ Len(chunk) = n /\ buf \in Seq(Int)
  BY <1>1, <1>2, <1>3 DEF TypeOK
<1>5. Len(buf') = Len(buf) + n /\ Len(buf) \in Nat
  <2> HIDE DEF chunk
  <2> Len(buf \o chunk) = Len(buf) + Len(chunk) /\ Len(buf) \in Nat
    BY <1>4, ConcatProperties, LenProperties
  <2> QED
    BY <1>1, <1>4
<1>6. offset' - Len(buf') = offset - Len(buf)
  <2> offset \in Nat /\ offset' = offset + n
    BY <1>1 DEF TypeOK
  <2> QED
    BY <1>2, <1>5
<1> QED
  BY <1>1, <1>6 DEF Stream!streamVars

\* What the loop returns with is all that was wanted and there.
LEMMA FinishAnswers ==
    ASSUME RInv, Finish
    PROVE  Stream!StreamNext
<1>1. /\ TypeOK /\ Underway /\ pc = "loop" /\ pc' = "idle" /\ result' = Len(buf)
      /\ ~(remaining > 0 /\ StillAvailable > 0)
      /\ UNCHANGED <<length, offset, count, buf>>
  BY DEF RInv, Finish, Return
<1>2. /\ offset \in Nat /\ length \in Nat /\ count \in Nat /\ remaining \in Nat
      /\ Len(buf) \in Nat /\ Start \in Nat /\ Start = offset - Len(buf)
      /\ Len(buf) + remaining = count /\ offset <= length /\ offset <= MaxFileSize
      /\ Start < MaxFileSize /\ Start < length /\ MaxFileSize \in Nat
  BY <1>1, LimitsInBlocks DEF TypeOK, Underway, Start
<1>3. Len(buf) = Stream!Smaller(count, length - Start)
  BY <1>1, <1>2 DEF StillAvailable, Stream!Smaller
<1>4. buf = SubSeq(FileBytes, Start + 1, Start + Len(buf))
  <2> DEFINE S == {FileBytes[k] : k \in 1 .. MaxFileSize} \cup Nat
             part == SubSeq(FileBytes, Start + 1, Start + Len(buf))
  <2>1. \A k \in Start + 1 .. Start + Len(buf) : FileBytes[k] \in S
    BY <1>2
  <2>2. buf \in Seq(S)
    BY <1>1 DEF TypeOK
  <2> HIDE DEF S
  <2>3. /\ part \in Seq(S)
        /\ Len(part) = IF Start + 1 <= Start + Len(buf)
                       THEN Start + Len(buf) - (Start + 1) + 1 ELSE 0
        /\ \A i \in 1 .. Start + Len(buf) - (Start + 1) + 1 :
               part[i] = FileBytes[Start + 1 + i - 1]
    BY <1>2, <2>1, SubSeqProperties
  <2> HIDE DEF part
  <2>4. Len(part) = Len(buf)
    BY <1>2, <2>3
  <2>5. ASSUME NEW i \in 1 .. Len(buf) PROVE buf[i] = part[i]
    <3>1. i \in 1 .. Start + Len(buf) - (Start + 1) + 1 /\ Start + 1 + i - 1 = Start + i
      BY <1>2
    <3> QED
      BY <1>1, <2>3, <3>1 DEF Underway, BufferIsFile
  <2>6. buf = part
    BY <2>2, <2>3, <2>4, <2>5, SeqEqual
  <2> QED
    BY <2>6 DEF part
<1>5. offset = Start + Len(buf)
  BY <1>2
<1>6. Stream!Answer
  <2> DEFINE n == Stream!Smaller(count, length - Start)
             reply == [val |-> result, bytes |-> buf]
  <2>1. count >= 0 /\ Start < MaxFileSize /\ Start < length
    BY <1>2
  <2>2. reply' = Stream!Answered(n, SubSeq(FileBytes, Start + 1, Start + n))
    BY <1>1, <1>3, <1>4 DEF Stream!Answered
  <2>3. offset' = Start + n
    BY <1>1, <1>3, <1>5
  <2> HIDE DEF n
  <2>4. Start < MaxFileSize /\ Start < length
        /\ reply' = Stream!Answered(n, SubSeq(FileBytes, Start + 1, Start + n))
        /\ offset' = Start + n
    BY <2>1, <2>2, <2>3
  <2> QED
    BY <1>1, <2>1, <2>4, Zenon DEF Start, Stream!Answer, n
<1> QED
  BY <1>6 DEF Stream!StreamNext

LEMMA StreamSteps ==
    RInv /\ [Next]_vars => [Stream!StreamNext]_(Stream!streamVars)
<1> SUFFICES ASSUME RInv, [Next]_vars
             PROVE  Stream!StreamNext \/ UNCHANGED Stream!streamVars
  OBVIOUS
<1>1. ASSUME NEW p \in Positions, Seek(p) PROVE Stream!StreamNext
  BY <1>1, SeekIsSeekTo
<1>2. ASSUME NEW n \in Requests, Call(n) PROVE Stream!StreamNext
  BY <1>2, CallIsAsk
<1>3. CASE Enter
  BY <1>3, EnterAnswers
<1>4. CASE MapBlock
  BY <1>4, MapBlockUnseen
<1>5. CASE Transfer
  BY <1>5, TransferUnseen
<1>6. CASE Finish
  BY <1>6, FinishAnswers
<1>7. UNCHANGED vars => UNCHANGED Stream!streamVars
  BY DEF vars, Stream!streamVars
<1>8. Halted => UNCHANGED vars
  BY DEF Halted
<1> QED
  BY <1>1, <1>2, <1>3, <1>4, <1>5, <1>6, <1>7, <1>8 DEF Next, Running

\* read() of any file is a read of a stream of bytes: what it delivers, in how
\* many pieces however, are the file's bytes from the position on, as many as
\* asked for and there.  (That it answers is ImplementsStream's, model-checked.)
THEOREM ReadIsStream == Spec => Stream!StreamSafe
<1>1. Init => Stream!StreamInit
  BY StreamInits
<1>2. RInv /\ [Next]_vars => [Stream!StreamNext]_(Stream!streamVars)
  BY StreamSteps
<1> QED
  BY <1>1, <1>2, ReadInvariant, PTL DEF Spec, Stream!StreamSafe
=============================================================================
