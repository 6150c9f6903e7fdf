------------------------------ MODULE CpmDevice -----------------------------
(***************************************************************************)
(* The block device of the CP/M simulator as cpmsim_seek(), cpmsim_read()   *)
(* and cpmsim_write() drive it: the controller moves whole sectors between  *)
(* the disk and the memory its DMA register points at, one per step here.   *)
(* Reads go through a bounce buffer at 0xF000; writes take their sectors    *)
(* straight from the caller's buffer.                                       *)
(***************************************************************************)
EXTENDS Integers

CONSTANTS SECTOR_SIZE,  \* 128
          SECTORS,      \* sectors on the disk
          BUFFER,       \* bytes of the caller's memory in view
          Values,       \* of a byte
          FirstDisk,    \* what the disk holds at first
          Sizes,        \* the sizes of requests
          Contents      \* what the caller's memory may hold when it asks

DISK == SECTORS * SECTOR_SIZE
Buffers == [0 .. BUFFER - 1 -> Values]
BOUNCE == -1            \* the DMA address 0xF000; the others are in memory

ASSUME DeviceAssumption ==
    /\ SECTOR_SIZE \in Nat \ {0}
    /\ SECTORS \in Nat \ {0}
    /\ BUFFER \in Nat
    /\ Sizes \subseteq 0 .. BUFFER - SECTOR_SIZE + 1
    /\ Contents \subseteq Buffers
    /\ FirstDisk \in [0 .. DISK - 1 -> Values]

VARIABLES disk,         \* the bytes of the disk
          memory,       \* the caller's buffer and what follows it
          bounce,       \* the sector at 0xF000
          dma,          \* the controller's DMA register
          d_offset,     \* d->offset
          op,           \* "read", "write", or "none" between calls
          size,         \* the size asked for
          remaining, ptr, current_sector, current_offset,  \* the loop
          before        \* history: the disk and memory when the call began

loop == <<remaining, ptr, current_sector, current_offset>>
vars == <<disk, memory, bounce, dma, d_offset, op, size, remaining, ptr,
          current_sector, current_offset, before>>

Init ==
    /\ disk = FirstDisk
    /\ memory \in Contents
    /\ bounce = [i \in 0 .. SECTOR_SIZE - 1 |-> CHOOSE v \in Values : TRUE]
    /\ dma = BOUNCE
    /\ d_offset = 0
    /\ op = "none"
    /\ size = 0
    /\ remaining = 0 /\ ptr = 0 /\ current_sector = 0 /\ current_offset = 0
    /\ before = [disk |-> disk, memory |-> memory]

-----------------------------------------------------------------------------
CpmSeek(address) ==
    /\ op = "none"
    /\ d_offset' = address
    /\ UNCHANGED <<disk, memory, bounce, dma, op, size, loop, before>>

\* Slip: the DMA register is left as the last write set it.
Begin_StaleDma(what, n, data) ==
    /\ op = "none"
    /\ d_offset + n <= DISK
    /\ op' = what /\ size' = n
    /\ memory' = data
    /\ remaining' = n /\ ptr' = 0
    /\ current_sector' = d_offset \div SECTOR_SIZE
    /\ current_offset' = d_offset % SECTOR_SIZE
    /\ before' = [disk |-> disk, memory |-> data]
    /\ UNCHANGED <<disk, bounce, dma, d_offset>>

\* cpmsim_read() and cpmsim_write() up to their loops.  The caller's buffer
\* holds any bytes; requests stay on the disk, and the memory in view goes far
\* enough beyond the buffer for the whole sectors a write takes.
Begin(what, n, data) ==
    /\ op = "none"
    /\ d_offset + n <= DISK
    /\ op' = what
    /\ size' = n
    /\ memory' = data
    /\ remaining' = n
    /\ ptr' = 0
    /\ current_sector' = d_offset \div SECTOR_SIZE
    /\ current_offset' = d_offset % SECTOR_SIZE
    /\ dma' = BOUNCE
    /\ before' = [disk |-> disk, memory |-> data]
    /\ UNCHANGED <<disk, bounce, d_offset>>

\* Slips: no cut to what is left; no allowance for the offset.
Chunk_Uncut == SECTOR_SIZE - current_offset
Chunk == IF SECTOR_SIZE - current_offset > remaining THEN remaining
         ELSE SECTOR_SIZE - current_offset
\* Slip: the offset of the first sector is used for all.
NextChunk_KeepOffset ==
    /\ remaining' = remaining - Chunk
    /\ ptr' = ptr + Chunk
    /\ current_sector' = current_sector + 1
    /\ UNCHANGED current_offset
NextChunk ==
    /\ remaining' = remaining - Chunk
    /\ ptr' = ptr + Chunk
    /\ current_offset' = 0
    /\ current_sector' = current_sector + 1

\* disk_read_sector(): to wherever the DMA register points.
Sector(s) == [i \in 0 .. SECTOR_SIZE - 1 |-> disk[s * SECTOR_SIZE + i]]
DmaIn(s) ==
    IF dma = BOUNCE THEN bounce' = Sector(s)
    ELSE UNCHANGED bounce
\* kernel_memcpy() from the bounce buffer, after the sector has arrived.
CopyOut ==
    [i \in 0 .. BUFFER - 1 |->
        IF ptr <= i /\ i < ptr + Chunk THEN bounce'[current_offset + i - ptr]
        ELSE memory[i]]

ReadSector ==
    /\ op = "read" /\ remaining > 0
    /\ DmaIn(current_sector)
    /\ memory' = CopyOut
    /\ NextChunk
    /\ UNCHANGED <<disk, dma, d_offset, op, size, before>>

\* disk_write_sector(): a whole sector from the DMA address, so a chunk that
\* starts inside the sector still goes to the sector's first byte.
WriteSector ==
    /\ op = "write" /\ remaining > 0
    /\ dma' = ptr
    /\ disk' = [a \in 0 .. DISK - 1 |->
                   IF a \div SECTOR_SIZE = current_sector
                   THEN memory[dma' + (a % SECTOR_SIZE)] ELSE disk[a]]
    /\ NextChunk
    /\ UNCHANGED <<memory, bounce, d_offset, op, size, before>>

Return ==
    /\ op # "none" /\ remaining = 0
    /\ op' = "none"
    /\ size' = 0
    /\ before' = [disk |-> disk, memory |-> memory]
    /\ UNCHANGED <<disk, memory, bounce, dma, d_offset, loop>>

Running == ReadSector \/ WriteSector \/ Return
Next ==
    \/ \E address \in 0 .. DISK - 1 : CpmSeek(address)
    \/ \E what \in {"read", "write"}, n \in Sizes, data \in Contents :
           Begin(what, n, data)
    \/ Running

\* Nothing preempts the driver, and the controller answers at once.
Spec == Init /\ [][Next]_vars /\ WF_vars(Running)

-----------------------------------------------------------------------------
\* Properties

TypeOK ==
    /\ disk \in [0 .. DISK - 1 -> Values]
    /\ memory \in Buffers
    /\ bounce \in [0 .. SECTOR_SIZE - 1 -> Values]
    /\ dma \in -1 .. BUFFER
    /\ d_offset \in 0 .. DISK - 1
    /\ op \in {"none", "read", "write"}
    /\ size \in Nat /\ remaining \in Nat /\ ptr \in Nat
    /\ current_sector \in Nat
    /\ current_offset \in 0 .. SECTOR_SIZE - 1
    /\ before \in [disk : [0 .. DISK - 1 -> Values], memory : Buffers]

\* The assertion of both loops, assert(current_offset <= SECTOR_SIZE), is never
\* reached with a chunk that is empty or leaves its sector, so they end.
ChunkProgress ==
    op # "none" /\ remaining > 0 =>
        Chunk > 0 /\ current_offset + Chunk <= SECTOR_SIZE

\* The loop stays on the sectors the request spans and inside the buffer: the
\* chunks add up to the size, none is empty or leaves its sector, the sector is
\* on the disk while any is left, and after the first sector every chunk starts
\* at a sector's first byte.
LoopInRequest ==
    /\ ChunkProgress
    /\ op # "none" =>
        /\ ptr + remaining = size
        /\ remaining > 0 => current_sector < SECTORS
        /\ ptr > 0 => current_offset = 0
        /\ remaining > 0 => current_sector * SECTOR_SIZE + current_offset = d_offset + ptr

\* A request on the device is one on an array of bytes, taken when the call
\* returns: reads of any alignment are exact, writes of whole sectors are, and
\* no write touches a sector outside the request.
Disk ==
    INSTANCE ByteDisk WITH
        SectorSize <- SECTOR_SIZE, DiskSize <- DISK, BufferSize <- BUFFER,
        FirstBytes <- FirstDisk,
        bytes <- before.disk, start <- d_offset, memory <- before.memory,
        request <- [op |-> op, size |-> size]
ImplementsByteDisk == Disk!DiskSpec
=============================================================================
