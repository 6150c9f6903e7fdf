--------------------------- MODULE CpmDeviceProofs --------------------------
(***************************************************************************)
(* The driver's loop, for sectors and disks of every size and requests of   *)
(* every alignment: it stays in its request, and what it has read, and      *)
(* written when sectors are whole, is what an array of bytes would have.    *)
(***************************************************************************)
EXTENDS CpmDevice, Numbers

\* Between calls the history is the present.
AtRest == op = "none" => before = [disk |-> disk, memory |-> memory] /\ size = 0

InRequest ==
    op # "none" =>
        /\ size <= BUFFER - SECTOR_SIZE + 1 /\ d_offset + size <= DISK
        /\ ptr = 0 => current_offset = d_offset % SECTOR_SIZE

\* A read has copied the first ptr bytes, and still has its bounce buffer.
ReadSoFar ==
    op = "read" =>
        /\ dma = BOUNCE /\ disk = before.disk
        /\ \A i \in 0 .. BUFFER - 1 :
               memory[i] = IF i < ptr THEN before.disk[d_offset + i] ELSE before.memory[i]

\* A write has changed sectors of the bytes it has passed; if it began on a
\* sector's first byte those bytes are the caller's.
Passed == {d_offset + i : i \in 0 .. ptr - 1}
WrittenSoFar ==
    op = "write" =>
        /\ memory = before.memory
        /\ \A a \in 0 .. DISK - 1 : disk[a] # before.disk[a] =>
               \E b \in Passed : b \div SECTOR_SIZE = a \div SECTOR_SIZE
        /\ d_offset % SECTOR_SIZE = 0 =>
               \A i \in 0 .. ptr - 1 : disk[d_offset + i] = before.memory[i]

DInv == TypeOK /\ LoopInRequest /\ AtRest /\ InRequest /\ ReadSoFar /\ WrittenSoFar
-----------------------------------------------------------------------------
LEMMA DiskSize ==
    /\ SECTOR_SIZE \in Nat \ {0} /\ SECTORS \in Nat \ {0} /\ BUFFER \in Nat
    /\ DISK \in Nat /\ 0 \in 0 .. DISK - 1
<1>1. \A m, r \in Nat \ {0} : m * r \in Nat \ {0}
  OBVIOUS
<1> QED
  BY <1>1, DeviceAssumption DEF DISK

\* The next chunk is what is left of the sector that holds the next byte, or
\* what is left of the request.
LEMMA ChunkFacts ==
    ASSUME DInv, op # "none", remaining > 0
    PROVE  /\ Chunk \in Nat /\ Chunk > 0
           /\ current_offset + Chunk <= SECTOR_SIZE
           /\ Chunk <= remaining /\ ptr + Chunk <= size
           /\ Chunk # remaining => current_offset + Chunk = SECTOR_SIZE
           /\ current_sector < SECTORS
           /\ current_sector * SECTOR_SIZE + current_offset = d_offset + ptr
           /\ current_sector * SECTOR_SIZE \in Nat
<1>1. /\ remaining \in Nat /\ ptr \in Nat /\ size \in Nat /\ ptr + remaining = size
      /\ current_offset \in 0 .. SECTOR_SIZE - 1 /\ SECTOR_SIZE \in Nat \ {0}
      /\ current_sector \in Nat
  BY DiskSize DEF DInv, TypeOK, LoopInRequest
<1>2. current_sector * SECTOR_SIZE \in Nat
  BY <1>1
<1>3. /\ current_sector < SECTORS
      /\ current_sector * SECTOR_SIZE + current_offset = d_offset + ptr
  BY DEF DInv, LoopInRequest
<1>4. /\ Chunk \in Nat /\ Chunk > 0
      /\ current_offset + Chunk <= SECTOR_SIZE
      /\ Chunk <= remaining /\ ptr + Chunk <= size
      /\ Chunk # remaining => current_offset + Chunk = SECTOR_SIZE
  BY <1>1 DEF Chunk
<1> QED
  BY <1>2, <1>3, <1>4

\* The sector that holds the next byte is on the disk, and is its quotient.
LEMMA SectorOfByte ==
    ASSUME NEW s \in Nat, NEW o \in 0 .. SECTOR_SIZE - 1
    PROVE  /\ (s * SECTOR_SIZE + o) \div SECTOR_SIZE = s
           /\ (s * SECTOR_SIZE + o) % SECTOR_SIZE = o
           /\ s < SECTORS => s * SECTOR_SIZE + o \in 0 .. DISK - 1
<1> DEFINE j == s * SECTOR_SIZE + o
<1>1. SECTOR_SIZE \in Nat \ {0} /\ s * SECTOR_SIZE \in Nat
  BY DiskSize
<1>2. (s + 1) * SECTOR_SIZE = s * SECTOR_SIZE + SECTOR_SIZE
  BY <1>1
<1>3. j \in Nat /\ s * SECTOR_SIZE <= j /\ j < (s + 1) * SECTOR_SIZE
      /\ j - s * SECTOR_SIZE = o
  BY <1>1, <1>2
<1>4. s = j \div SECTOR_SIZE /\ o = j % SECTOR_SIZE
  <2> HIDE DEF j
  <2> QED
    BY <1>1, <1>3, QuotientUnique
<1>5. ASSUME s < SECTORS PROVE j \in 0 .. DISK - 1
  <2>1. s * SECTOR_SIZE + SECTOR_SIZE <= DISK
    BY <1>1, <1>5, DiskSize, LessTimes DEF DISK
  <2> QED
    BY <1>1, <2>1, DiskSize
<1> QED
  BY <1>4, <1>5

\* Going on to the next chunk keeps the loop in its request.
LEMMA NextChunkKeeps ==
    ASSUME DInv, op # "none", remaining > 0, NextChunk,
           UNCHANGED <<op, size, d_offset>>
    PROVE  /\ remaining' \in Nat /\ ptr' \in Nat /\ ptr' > 0
           /\ current_sector' \in Nat /\ current_offset' = 0
           /\ current_offset' \in 0 .. SECTOR_SIZE - 1
           /\ LoopInRequest' /\ InRequest'
<1>1. /\ remaining' = remaining - Chunk /\ ptr' = ptr + Chunk
      /\ current_sector' = current_sector + 1 /\ current_offset' = 0
  BY DEF NextChunk
<1>2. /\ Chunk \in Nat /\ Chunk > 0 /\ current_offset + Chunk <= SECTOR_SIZE
      /\ Chunk <= remaining /\ ptr + Chunk <= size
      /\ Chunk # remaining => current_offset + Chunk = SECTOR_SIZE
      /\ current_sector * SECTOR_SIZE + current_offset = d_offset + ptr
      /\ current_sector * SECTOR_SIZE \in Nat
  BY ChunkFacts
<1>3. /\ remaining \in Nat /\ ptr \in Nat /\ size \in Nat /\ d_offset \in Nat
      /\ ptr + remaining = size /\ d_offset + size <= DISK
      /\ size <= BUFFER - SECTOR_SIZE + 1
      /\ current_sector \in Nat /\ current_offset \in 0 .. SECTOR_SIZE - 1
      /\ SECTOR_SIZE \in Nat \ {0} /\ SECTORS \in Nat /\ DISK \in Nat
  BY DiskSize DEF DInv, TypeOK, LoopInRequest, InRequest
<1>4. /\ remaining' \in Nat /\ ptr' \in Nat /\ ptr' > 0 /\ ptr' + remaining' = size
      /\ current_sector' \in Nat /\ 0 \in 0 .. SECTOR_SIZE - 1
  BY <1>1, <1>2, <1>3
<1>5. (current_sector + 1) * SECTOR_SIZE = current_sector * SECTOR_SIZE + SECTOR_SIZE
  BY <1>3
<1>6. ASSUME remaining' > 0
      PROVE  current_sector' * SECTOR_SIZE + current_offset' = d_offset + ptr'
  <2>1. current_offset + Chunk = SECTOR_SIZE
    BY <1>1, <1>2, <1>3, <1>6
  <2>2. current_sector' * SECTOR_SIZE = current_sector * SECTOR_SIZE + SECTOR_SIZE
    BY <1>1, <1>5
  <2> HIDE DEF Chunk
  <2> QED
    BY <1>1, <1>2, <1>3, <2>1, <2>2
<1>7. ASSUME remaining' > 0 PROVE current_sector' < SECTORS
  <2> DEFINE s == current_sector + 1
             p == ptr + Chunk
  <2>1. s * SECTOR_SIZE = d_offset + p
    <3>1. s * SECTOR_SIZE + 0 = d_offset + p /\ s * SECTOR_SIZE \in Nat
      BY <1>1, <1>3, <1>4, <1>6, <1>7
    <3> QED
      BY <3>1
  <2>2. p + (remaining - Chunk) = size /\ remaining - Chunk > 0 /\ p \in Nat
        /\ remaining - Chunk \in Nat /\ s \in Nat
    BY <1>1, <1>2, <1>3, <1>4, <1>7
  <2> HIDE DEF s, p
  <2>3. d_offset + p < DISK
    BY <1>3, <2>2
  <2>4. SECTORS <= s => SECTORS * SECTOR_SIZE <= s * SECTOR_SIZE
    BY <1>3, <2>2, LessTimes
  <2>5. SECTORS <= s => DISK <= d_offset + p
    BY <2>1, <2>4 DEF DISK
  <2>6. s < SECTORS
    BY <1>3, <2>2, <2>3, <2>5
  <2> QED
    BY <1>1, <2>6 DEF s
<1>8. ChunkProgress'
  BY <1>1, <1>3, <1>4 DEF ChunkProgress, Chunk
<1>9. LoopInRequest'
  BY <1>1, <1>4, <1>6, <1>7, <1>8 DEF LoopInRequest
<1>10. InRequest'
  BY <1>3, <1>4 DEF InRequest
<1> QED
  BY <1>1, <1>4, <1>9, <1>10
-----------------------------------------------------------------------------
\* Every step keeps the invariant.

LEMMA DInit == Init => DInv
<1> SUFFICES ASSUME Init PROVE DInv
  OBVIOUS
<1>1. FirstDisk[0] \in Values
  BY DiskSize, DeviceAssumption
<1>2. (CHOOSE v \in Values : TRUE) \in Values
  BY <1>1
<1>3. bounce \in [0 .. SECTOR_SIZE - 1 -> Values]
  BY <1>2 DEF Init
<1>4. memory \in Buffers
  BY DeviceAssumption DEF Init
<1>5. TypeOK
  BY <1>3, <1>4, DiskSize, DeviceAssumption DEF Init, TypeOK, BOUNCE
<1> QED
  BY <1>5 DEF Init, DInv, LoopInRequest, ChunkProgress, AtRest, InRequest, ReadSoFar,
              WrittenSoFar

LEMMA SeekKeeps ==
    ASSUME DInv, NEW address \in 0 .. DISK - 1, CpmSeek(address)
    PROVE  DInv'
<1>1. TypeOK'
  BY DEF DInv, TypeOK, CpmSeek, loop
<1>2. AtRest'
  BY DEF DInv, AtRest, CpmSeek
<1>3. op' = "none"
  BY DEF CpmSeek
<1> QED
  BY <1>1, <1>2, <1>3 DEF DInv, LoopInRequest, ChunkProgress, InRequest, ReadSoFar,
                          WrittenSoFar

LEMMA BeginKeeps ==
    ASSUME DInv, NEW what \in {"read", "write"}, NEW n \in Sizes, NEW data \in Contents,
           Begin(what, n, data)
    PROVE  DInv'
<1>1. /\ op' = what /\ size' = n /\ remaining' = n /\ ptr' = 0 /\ dma' = BOUNCE
      /\ current_sector' = d_offset \div SECTOR_SIZE
      /\ current_offset' = d_offset % SECTOR_SIZE
      /\ memory' = data /\ before' = [disk |-> disk, memory |-> data]
      /\ UNCHANGED <<disk, bounce, d_offset>> /\ d_offset + n <= DISK
  BY DEF Begin
<1>2. /\ n \in Nat /\ n <= BUFFER - SECTOR_SIZE + 1 /\ data \in Buffers
      /\ d_offset \in 0 .. DISK - 1 /\ SECTOR_SIZE \in Nat \ {0} /\ SECTORS \in Nat
      /\ DISK \in Nat /\ BUFFER \in Nat /\ d_offset \in Nat
  BY DiskSize, DeviceAssumption DEF DInv, TypeOK
<1> DEFINE q == d_offset \div SECTOR_SIZE
           r == d_offset % SECTOR_SIZE
<1>3. q \in Nat /\ r \in 0 .. SECTOR_SIZE - 1 /\ q * SECTOR_SIZE + r = d_offset
  BY <1>2, Division
<1>4. q < SECTORS
  <2>1. (d_offset \div SECTOR_SIZE < SECTORS) <=> (d_offset < SECTORS * SECTOR_SIZE)
    BY <1>2, QuotientBelow, Zenon
  <2>2. d_offset < SECTORS * SECTOR_SIZE
    BY <1>2 DEF DISK
  <2> QED
    BY <2>1, <2>2
<1> HIDE DEF q, r
<1>5. current_sector' = q /\ current_offset' = r
  BY <1>1 DEF q, r
<1>6. TypeOK'
  BY <1>1, <1>2, <1>3, <1>5 DEF DInv, TypeOK, BOUNCE
<1>7. ChunkProgress'
  <2>1. Chunk' = IF SECTOR_SIZE - r > n THEN n ELSE SECTOR_SIZE - r
    BY <1>1, <1>5 DEF Chunk
  <2> HIDE DEF Chunk
  <2>2. n > 0 => Chunk' > 0 /\ r + Chunk' <= SECTOR_SIZE
    BY <1>2, <1>3, <2>1
  <2> QED
    BY <1>1, <1>5, <2>2 DEF ChunkProgress
<1>8. LoopInRequest'
  BY <1>1, <1>2, <1>3, <1>4, <1>5, <1>7 DEF LoopInRequest
<1>9. InRequest' /\ AtRest'
  BY <1>1, <1>2 DEF InRequest, AtRest
<1>10. ReadSoFar' /\ WrittenSoFar'
  BY <1>1, <1>2 DEF ReadSoFar, WrittenSoFar
<1> QED
  BY <1>6, <1>8, <1>9, <1>10 DEF DInv

LEMMA ReturnKeeps ==
    ASSUME DInv, Return
    PROVE  DInv'
<1>1. /\ op' = "none" /\ size' = 0 /\ before' = [disk |-> disk, memory |-> memory]
      /\ UNCHANGED <<disk, memory, bounce, dma, d_offset, loop>>
  BY DEF Return
<1>2. TypeOK'
  BY <1>1 DEF DInv, TypeOK, loop
<1>3. AtRest'
  BY <1>1 DEF AtRest
<1> QED
  BY <1>1, <1>2, <1>3 DEF DInv, LoopInRequest, ChunkProgress, InRequest, ReadSoFar,
                          WrittenSoFar
\* The sector at hand arrives in the bounce buffer, and the chunk in its place.
LEMMA ReadSectorKeeps ==
    ASSUME DInv, ReadSector
    PROVE  DInv'
<1> DEFINE s == current_sector
           o == current_offset
           n == Chunk
<1>1. /\ op = "read" /\ remaining > 0 /\ dma = BOUNCE /\ NextChunk
      /\ bounce' = Sector(s) /\ memory' = CopyOut
      /\ ptr' = ptr + n
      /\ UNCHANGED <<disk, dma, d_offset, op, size, before>>
  BY DEF DInv, ReadSoFar, ReadSector, DmaIn, NextChunk
<1>2. /\ s \in Nat /\ o \in 0 .. SECTOR_SIZE - 1 /\ ptr \in Nat /\ d_offset \in Nat
      /\ SECTOR_SIZE \in Nat /\ BUFFER \in Nat
  BY DiskSize DEF DInv, TypeOK
<1>3. /\ n \in Nat /\ n > 0 /\ o + n <= SECTOR_SIZE /\ s < SECTORS
      /\ s * SECTOR_SIZE + o = d_offset + ptr /\ s * SECTOR_SIZE \in Nat
  BY <1>1, ChunkFacts
<1>4. \A k \in 0 .. SECTOR_SIZE - 1 :
          bounce'[k] = disk[s * SECTOR_SIZE + k] /\ bounce'[k] \in Values
  <2> SUFFICES ASSUME NEW k \in 0 .. SECTOR_SIZE - 1
               PROVE  bounce'[k] = disk[s * SECTOR_SIZE + k] /\ bounce'[k] \in Values
    OBVIOUS
  <2>1. s * SECTOR_SIZE + k \in 0 .. DISK - 1
    BY <1>2, <1>3, SectorOfByte
  <2> QED
    BY <1>1, <2>1 DEF Sector, DInv, TypeOK
<1> HIDE DEF n
<1>5. ASSUME NEW i \in 0 .. BUFFER - 1, ptr <= i, i < ptr + n
      PROVE  memory'[i] = disk[d_offset + i] /\ memory'[i] \in Values
  <2> DEFINE k == o + (i - ptr)
  <2>1. k \in 0 .. SECTOR_SIZE - 1 /\ s * SECTOR_SIZE + k = d_offset + i
    BY <1>2, <1>3, <1>5
  <2>2. memory'[i] = bounce'[k]
    BY <1>1, <1>5 DEF CopyOut, n
  <2> HIDE DEF k
  <2> QED
    BY <1>4, <2>1, <2>2
<1>6. ASSUME NEW i \in 0 .. BUFFER - 1, ~(ptr <= i /\ i < ptr + n)
      PROVE  memory'[i] = memory[i]
  BY <1>1, <1>6 DEF CopyOut, n
<1>7. memory' \in Buffers
  <2>1. ASSUME NEW i \in 0 .. BUFFER - 1 PROVE memory'[i] \in Values
    <3>1. memory[i] \in Values
      BY DEF DInv, TypeOK, Buffers
    <3> QED
      BY <1>5, <1>6, <3>1
  <2>2. memory' = [i \in 0 .. BUFFER - 1 |-> memory'[i]]
    BY <1>1 DEF CopyOut
  <2> QED
    BY <2>1, <2>2 DEF Buffers
<1>8. bounce' \in [0 .. SECTOR_SIZE - 1 -> Values]
  BY <1>1, <1>4 DEF Sector
<1>9. /\ remaining' \in Nat /\ ptr' \in Nat /\ current_sector' \in Nat
      /\ current_offset' \in 0 .. SECTOR_SIZE - 1
      /\ LoopInRequest' /\ InRequest'
  BY <1>1, NextChunkKeeps
<1>10. TypeOK'
  BY <1>1, <1>7, <1>8, <1>9 DEF DInv, TypeOK
<1>11. ReadSoFar'
  <2> SUFFICES ASSUME NEW i \in 0 .. BUFFER - 1
               PROVE  memory'[i] = IF i < ptr + n THEN before.disk[d_offset + i]
                                   ELSE before.memory[i]
    BY <1>1 DEF DInv, ReadSoFar
  <2>1. /\ disk = before.disk
        /\ memory[i] = IF i < ptr THEN before.disk[d_offset + i] ELSE before.memory[i]
    BY <1>1 DEF DInv, ReadSoFar
  <2>2. CASE ptr <= i /\ i < ptr + n
    BY <1>2, <1>3, <1>5, <2>1, <2>2
  <2>3. CASE i < ptr
    BY <1>2, <1>3, <1>6, <2>1, <2>3
  <2>4. CASE ptr + n <= i
    BY <1>2, <1>3, <1>6, <2>1, <2>4
  <2> QED
    BY <1>2, <1>3, <2>2, <2>3, <2>4
<1>12. AtRest' /\ WrittenSoFar'
  BY <1>1 DEF AtRest, WrittenSoFar
<1> QED
  BY <1>9, <1>10, <1>11, <1>12 DEF DInv

\* A whole sector leaves the caller's memory; it is the sector of the next byte.
LEMMA WriteSectorKeeps ==
    ASSUME DInv, WriteSector
    PROVE  DInv'
<1> DEFINE s == current_sector
           o == current_offset
           n == Chunk
<1>1. /\ op = "write" /\ remaining > 0 /\ NextChunk /\ dma' = ptr /\ ptr' = ptr + n
      /\ disk' = [a \in 0 .. DISK - 1 |->
                     IF a \div SECTOR_SIZE = s
                     THEN memory[ptr + (a % SECTOR_SIZE)] ELSE disk[a]]
      /\ UNCHANGED <<memory, bounce, d_offset, op, size, before>>
  BY DEF WriteSector, NextChunk
<1>2. /\ s \in Nat /\ o \in 0 .. SECTOR_SIZE - 1 /\ ptr \in Nat /\ d_offset \in Nat
      /\ SECTOR_SIZE \in Nat \ {0} /\ BUFFER \in Nat /\ DISK \in Nat
      /\ remaining \in Nat /\ size \in Nat /\ size <= BUFFER - SECTOR_SIZE + 1
      /\ d_offset + size <= DISK
  BY <1>1, DiskSize DEF DInv, TypeOK, InRequest
<1>3. /\ n \in Nat /\ n > 0 /\ o + n <= SECTOR_SIZE /\ ptr + n <= size
      /\ s * SECTOR_SIZE + o = d_offset + ptr /\ s * SECTOR_SIZE \in Nat
  BY <1>1, ChunkFacts
<1>4. /\ memory = before.memory
      /\ \A a \in 0 .. DISK - 1 : disk[a] # before.disk[a] =>
             \E b \in Passed : b \div SECTOR_SIZE = a \div SECTOR_SIZE
      /\ d_offset % SECTOR_SIZE = 0 =>
             \A i \in 0 .. ptr - 1 : disk[d_offset + i] = before.memory[i]
  BY <1>1 DEF DInv, WrittenSoFar
<1> HIDE DEF n
<1>5. disk' \in [0 .. DISK - 1 -> Values]
  <2>1. ASSUME NEW a \in 0 .. DISK - 1
        PROVE  memory[ptr + (a % SECTOR_SIZE)] \in Values /\ disk[a] \in Values
    <3>1. (a % SECTOR_SIZE) \in 0 .. SECTOR_SIZE - 1
      BY <1>2, Division
    <3>2. ptr + (a % SECTOR_SIZE) \in 0 .. BUFFER - 1
      BY <1>2, <1>3, <3>1
    <3> QED
      BY <3>2 DEF DInv, TypeOK, Buffers
  <2> QED
    BY <1>1, <2>1
<1>6. /\ remaining' \in Nat /\ ptr' \in Nat /\ current_sector' \in Nat
      /\ current_offset' \in 0 .. SECTOR_SIZE - 1
      /\ LoopInRequest' /\ InRequest'
  BY <1>1, NextChunkKeeps
<1>7. dma' \in -1 .. BUFFER
  BY <1>1, <1>2, <1>3
<1>8. TypeOK'
  BY <1>1, <1>5, <1>6, <1>7 DEF DInv, TypeOK
<1>9. ASSUME NEW a \in 0 .. DISK - 1, disk'[a] # before.disk[a]
      PROVE  \E b \in {d_offset + i : i \in 0 .. (ptr + n) - 1} :
                 b \div SECTOR_SIZE = a \div SECTOR_SIZE
  <2>1. CASE a \div SECTOR_SIZE = s
    <3>1. (d_offset + ptr) \div SECTOR_SIZE = s
      BY <1>2, <1>3, SectorOfByte
    <3>2. ptr \in 0 .. (ptr + n) - 1
      BY <1>2, <1>3
    <3> QED
      BY <2>1, <3>1, <3>2
  <2>2. CASE a \div SECTOR_SIZE # s
    <3>1. disk'[a] = disk[a]
      BY <1>1, <2>2
    <3>2. PICK i \in 0 .. ptr - 1 :
              (d_offset + i) \div SECTOR_SIZE = a \div SECTOR_SIZE
      BY <1>4, <1>9, <3>1 DEF Passed
    <3>3. i \in 0 .. (ptr + n) - 1
      BY <1>2, <1>3
    <3> QED
      BY <3>2, <3>3
  <2> QED
    BY <2>1, <2>2
<1>10. ASSUME d_offset % SECTOR_SIZE = 0, NEW i \in 0 .. (ptr + n) - 1
       PROVE  disk'[d_offset + i] = before.memory[i]
  <2>1. o = 0
    BY <1>1, <1>2, <1>10 DEF DInv, LoopInRequest, InRequest
  <2>2. d_offset + i \in 0 .. DISK - 1
    BY <1>2, <1>3
  <2>3. CASE ptr <= i
    <3> DEFINE k == i - ptr
    <3>1. k \in 0 .. SECTOR_SIZE - 1 /\ s * SECTOR_SIZE + k = d_offset + i /\ ptr + k = i
      BY <1>2, <1>3, <2>1, <2>3
    <3> HIDE DEF k
    <3>2. (d_offset + i) \div SECTOR_SIZE = s /\ (d_offset + i) % SECTOR_SIZE = k
      BY <1>2, <3>1, SectorOfByte
    <3>3. disk'[d_offset + i] = memory[ptr + k]
      BY <1>1, <2>2, <3>2
    <3> QED
      BY <1>4, <3>1, <3>3
  <2>4. CASE i < ptr
    <3>1. ~((d_offset + i) \div SECTOR_SIZE = s)
      <4> DEFINE j == d_offset + i
                 q == j \div SECTOR_SIZE
      <4>1. j \in Nat /\ j < s * SECTOR_SIZE
        BY <1>2, <1>3, <2>1, <2>4
      <4> HIDE DEF j
      <4>2. q \in Nat /\ j = q * SECTOR_SIZE + (j % SECTOR_SIZE)
            /\ (j % SECTOR_SIZE) \in 0 .. SECTOR_SIZE - 1
        BY <1>2, <4>1, Division, Zenon
      <4> HIDE DEF q
      <4>3. q * SECTOR_SIZE \in Nat
        BY <1>2, <4>2
      <4>4. q # s
        BY <1>3, <4>1, <4>2, <4>3
      <4> QED
        BY <4>4 DEF q, j
    <3>2. disk'[d_offset + i] = disk[d_offset + i]
      BY <1>1, <2>2, <3>1
    <3>3. i \in 0 .. ptr - 1
      BY <1>2, <2>4
    <3> QED
      BY <1>4, <1>10, <3>2, <3>3
  <2> QED
    BY <1>2, <2>3, <2>4
<1>11. WrittenSoFar'
  BY <1>1, <1>4, <1>9, <1>10 DEF WrittenSoFar, Passed
<1>12. AtRest' /\ ReadSoFar'
  BY <1>1 DEF AtRest, ReadSoFar
<1> QED
  BY <1>6, <1>8, <1>11, <1>12 DEF DInv
LEMMA DNext == DInv /\ [Next]_vars => DInv'
<1> SUFFICES ASSUME DInv, [Next]_vars PROVE DInv'
  OBVIOUS
<1>1. ASSUME NEW address \in 0 .. DISK - 1, CpmSeek(address) PROVE DInv'
  BY <1>1, SeekKeeps
<1>2. ASSUME NEW what \in {"read", "write"}, NEW n \in Sizes, NEW data \in Contents,
             Begin(what, n, data)
      PROVE  DInv'
  BY <1>2, BeginKeeps
<1>3. CASE ReadSector
  BY <1>3, ReadSectorKeeps
<1>4. CASE WriteSector
  BY <1>4, WriteSectorKeeps
<1>5. CASE Return
  BY <1>5, ReturnKeeps
<1>6. CASE UNCHANGED vars
  BY <1>6 DEF vars, loop, DInv, TypeOK, LoopInRequest, ChunkProgress, Chunk, AtRest,
              InRequest, ReadSoFar, WrittenSoFar, Passed
<1> QED
  BY <1>1, <1>2, <1>3, <1>4, <1>5, <1>6 DEF Next, Running

LEMMA DeviceInvariant == Spec => []DInv
<1>1. Init => DInv
  BY DInit
<1>2. DInv /\ [Next]_vars => DInv'
  BY DNext
<1> QED
  BY <1>1, <1>2, PTL DEF Spec

-----------------------------------------------------------------------------
\* What the driver promises.

\* The disk, the buffers and the registers keep their types: in particular the
\* whole sectors that a write takes from the caller's memory are within the view
\* the request was checked against.
THEOREM DeviceTypes == Spec => []TypeOK
<1>1. DInv => TypeOK
  BY DEF DInv
<1> QED
  BY <1>1, DeviceInvariant, PTL

\* For every request the driver stays on the sectors it spans and in its buffer,
\* and each turn of the loop takes a chunk that is neither empty nor too long.
THEOREM LoopStaysInRequest == Spec => []LoopInRequest
<1>1. DInv => LoopInRequest
  BY DEF DInv
<1> QED
  BY <1>1, DeviceInvariant, PTL

-----------------------------------------------------------------------------
\* The device is an array of bytes: requests begin and return, and the sectors
\* in between are invisible.

LEMMA DiskInits == Init => Disk!DiskInit
BY DeviceAssumption DEF Init, Buffers, Disk!DiskInit, Disk!NoRequest, Disk!Buffers

LEMMA SeekIsSeekTo ==
    ASSUME NEW address \in 0 .. DISK - 1, CpmSeek(address), DInv
    PROVE  Disk!DiskNext
<1>1. size = 0 /\ op = "none"
  BY DEF CpmSeek, DInv, AtRest
<1>2. Disk!SeekTo(address)
  BY <1>1 DEF CpmSeek, Disk!SeekTo, Disk!NoRequest
<1> QED
  BY <1>2 DEF Disk!DiskNext, Disk!Addresses

LEMMA BeginIsAsk ==
    ASSUME DInv, NEW what \in {"read", "write"}, NEW n \in Sizes, NEW data \in Contents,
           Begin(what, n, data)
    PROVE  Disk!DiskNext
<1>1. size = 0 /\ op = "none" /\ before.disk = disk
  BY DEF Begin, DInv, AtRest
<1>2. Disk!Ask(what, n, data)
  BY <1>1 DEF Begin, Disk!Ask, Disk!NoRequest
<1>3. n \in 0 .. BUFFER /\ data \in Disk!Buffers
  BY DiskSize, DeviceAssumption DEF Buffers, Disk!Buffers
<1> QED
  BY <1>2, <1>3 DEF Disk!DiskNext

LEMMA ReturnAnswers ==
    ASSUME DInv, Return
    PROVE  Disk!DiskNext
<1>1. /\ op' = "none" /\ size' = 0 /\ d_offset' = d_offset
      /\ before' = [disk |-> disk, memory |-> memory]
      /\ op \in {"read", "write"} /\ remaining = 0
  BY DEF DInv, TypeOK, Return
<1>2. ptr = size /\ size \in Nat /\ size <= BUFFER /\ d_offset \in Nat
      /\ d_offset + size <= DISK /\ BUFFER \in Nat /\ DISK \in Nat
  <2>1. ptr + remaining = size /\ size <= BUFFER - SECTOR_SIZE + 1
        /\ d_offset + size <= DISK
    BY <1>1 DEF DInv, LoopInRequest, InRequest
  <2> QED
    BY <1>1, <2>1, DiskSize DEF DInv, TypeOK
<1>3. CASE op = "read"
  <2>1. /\ disk = before.disk
        /\ \A i \in 0 .. BUFFER - 1 :
               memory[i] = IF i < size THEN before.disk[d_offset + i] ELSE before.memory[i]
    BY <1>2, <1>3 DEF DInv, ReadSoFar
  <2>2. memory = [i \in 0 .. BUFFER - 1 |->
                     IF i < size THEN before.disk[d_offset + i] ELSE before.memory[i]]
    BY <2>1 DEF DInv, TypeOK, Buffers
  <2>3. Disk!AnswerRead
    BY <1>1, <1>3, <2>1, <2>2 DEF Disk!AnswerRead, Disk!NoRequest
  <2> QED
    BY <2>3 DEF Disk!DiskNext
<1>4. CASE op = "write"
  <2>1. /\ memory = before.memory
        /\ \A a \in 0 .. DISK - 1 : disk[a] # before.disk[a] =>
               \E b \in {d_offset + i : i \in 0 .. size - 1} :
                   b \div SECTOR_SIZE = a \div SECTOR_SIZE
        /\ d_offset % SECTOR_SIZE = 0 =>
               \A i \in 0 .. size - 1 : disk[d_offset + i] = before.memory[i]
    BY <1>2, <1>4 DEF DInv, WrittenSoFar, Passed
  <2>2. disk \in [0 .. DISK - 1 -> Values]
    BY DEF DInv, TypeOK
  <2> DEFINE asked == {a \in 0 .. DISK - 1 : d_offset <= a /\ a < d_offset + size}
  <2>3. ASSUME NEW a \in 0 .. DISK - 1, disk[a] # before.disk[a]
        PROVE  a \div SECTOR_SIZE \in {b \div SECTOR_SIZE : b \in asked}
    <3>1. PICK i \in 0 .. size - 1 : (d_offset + i) \div SECTOR_SIZE = a \div SECTOR_SIZE
      BY <2>1, <2>3
    <3>2. d_offset + i \in asked
      BY <1>2
    <3> QED
      BY <3>1, <3>2
  <2>4. ASSUME d_offset % SECTOR_SIZE = 0, NEW a \in asked
        PROVE  disk[a] = before.memory[a - d_offset]
    <3>1. a - d_offset \in 0 .. size - 1 /\ d_offset + (a - d_offset) = a
      BY <1>2
    <3> QED
      BY <2>1, <2>4, <3>1
  <2>5. Disk!AnswerWrite
    BY <1>1, <1>4, <2>1, <2>2, <2>3, <2>4
       DEF Disk!AnswerWrite, Disk!NoRequest, Disk!Requested, Disk!SectorsOf,
           Disk!Aligned, Disk!Addresses
  <2> QED
    BY <2>5 DEF Disk!DiskNext
<1> QED
  BY <1>1, <1>3, <1>4

LEMMA DiskSteps ==
    DInv /\ [Next]_vars => [Disk!DiskNext]_(Disk!diskVars)
<1> SUFFICES ASSUME DInv, [Next]_vars
             PROVE  Disk!DiskNext \/ UNCHANGED Disk!diskVars
  OBVIOUS
<1>1. ASSUME NEW address \in 0 .. DISK - 1, CpmSeek(address) PROVE Disk!DiskNext
  BY <1>1, SeekIsSeekTo
<1>2. ASSUME NEW what \in {"read", "write"}, NEW n \in Sizes, NEW data \in Contents,
             Begin(what, n, data)
      PROVE  Disk!DiskNext
  BY <1>2, BeginIsAsk
<1>3. ReadSector \/ WriteSector => UNCHANGED Disk!diskVars
  BY DEF ReadSector, WriteSector, Disk!diskVars
<1>4. CASE Return
  BY <1>4, ReturnAnswers
<1>5. UNCHANGED vars => UNCHANGED Disk!diskVars
  BY DEF vars, Disk!diskVars
<1> QED
  BY <1>1, <1>2, <1>3, <1>4, <1>5 DEF Next, Running

\* cpmsim_read() and cpmsim_write() implement an array of bytes: a read of any
\* place and size returns its bytes, a write of whole sectors stores its own, and
\* no write changes a sector outside the request.  (That every request is
\* answered is ImplementsByteDisk's, model-checked.)
THEOREM DeviceIsByteDisk == Spec => Disk!DiskSafe
<1>1. Init => Disk!DiskInit
  BY DiskInits
<1>2. DInv /\ [Next]_vars => [Disk!DiskNext]_(Disk!diskVars)
  BY DiskSteps
<1> QED
  BY <1>1, <1>2, DeviceInvariant, PTL DEF Spec, Disk!DiskSafe
=============================================================================
