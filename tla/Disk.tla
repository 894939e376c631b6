-------------------------------- MODULE Disk --------------------------------
(***************************************************************************)
(* The disk of modules/axfs/src/dev.rs, a cursor over a device that reads  *)
(* and writes whole blocks, and the loops by which fatfs and lwext4 move   *)
(* buffers of any length through it (fs/fatfs.rs, fs/lwext4_rust.rs).      *)
(***************************************************************************)
EXTENDS Integers, Sequences

CONSTANTS BLOCK_SIZE, NumBlocks, DiskBytes,
          MaxBuf    \* bound on the buffer of one call

DiskSize == NumBlocks * BLOCK_SIZE

VARIABLES
    block_id, offset, \* the cursor
    block,            \* block[b]: the contents of block b of the device
    mode,             \* the loop under way
    buf,              \* what is left of its buffer: the bytes to write, or room to read
    got               \* the bytes it has read

diskVars == <<block_id, offset, block, mode, buf, got>>

DiskInit ==
    /\ block_id = 0 /\ offset = 0
    /\ block \in [0..(NumBlocks - 1) -> [0..(BLOCK_SIZE - 1) -> DiskBytes]]
    /\ mode = "idle" /\ buf = <<>> /\ got = <<>>

Position == block_id * BLOCK_SIZE + offset

\* set_position.
SetPosition(pos) ==
    /\ block_id' = pos \div BLOCK_SIZE
    /\ offset' = pos % BLOCK_SIZE

\* seek: from the start, the cursor or the end, to any position that is not
\* negative, the end and what is beyond it included.
DiskSeek(from, off) ==
    /\ mode = "idle"
    /\ LET base == CASE from = "Start" -> 0 [] from = "Current" -> Position [] from = "End" -> DiskSize
       IN base + off >= 0 /\ base + off <= DiskSize + 1 /\ SetPosition(base + off)
    /\ UNCHANGED <<block, mode, buf, got>>

\* A call of read or write with a buffer.
DiskCall(op, b) ==
    /\ mode = "idle"
    /\ mode' = op /\ buf' = b /\ got' = <<>>
    /\ UNCHANGED <<block_id, offset, block>>

MutAdvance(count) ==
    /\ offset' = IF offset + count >= BLOCK_SIZE THEN offset + count - BLOCK_SIZE ELSE offset + count
    /\ block_id' = IF offset + count > BLOCK_SIZE THEN block_id + 1 ELSE block_id

\* The cursor after count bytes within a block.
Advance(count) ==
    /\ offset' = IF offset + count >= BLOCK_SIZE THEN offset + count - BLOCK_SIZE ELSE offset + count
    /\ block_id' = IF offset + count >= BLOCK_SIZE THEN block_id + 1 ELSE block_id

\* How many bytes read_one or write_one moves: a whole block if the cursor is at
\* its start and the buffer can take it, else what the block and the buffer share.
OneSize ==
    IF offset = 0 /\ Len(buf) >= BLOCK_SIZE THEN BLOCK_SIZE
    ELSE IF Len(buf) < BLOCK_SIZE - offset THEN Len(buf) ELSE BLOCK_SIZE - offset

\* read_one, inside the loop of read.
ReadOne ==
    /\ mode = "read" /\ buf # <<>> /\ block_id < NumBlocks
    /\ got' = got \o [i \in 1..OneSize |-> block[block_id][offset + i - 1]]
    /\ buf' = SubSeq(buf, OneSize + 1, Len(buf))
    /\ Advance(OneSize)
    /\ UNCHANGED <<block, mode>>

\* write_one, inside the loop of write: a partial block is read, changed and
\* written back.
WriteOne ==
    /\ mode = "write" /\ buf # <<>> /\ block_id < NumBlocks
    /\ block' = [block EXCEPT ![block_id] = [j \in 0..(BLOCK_SIZE - 1) |->
                    IF j \in offset..(offset + OneSize - 1) THEN buf[j - offset + 1] ELSE @[j]]]
    /\ buf' = SubSeq(buf, OneSize + 1, Len(buf))
    /\ Advance(OneSize)
    /\ UNCHANGED <<mode, got>>

\* The loop ends with its buffer used up, or the device reports an error for a
\* block it does not have.
DiskReturn ==
    /\ mode # "idle" /\ (buf = <<>> \/ block_id >= NumBlocks)
    /\ mode' = "idle" /\ buf' = <<>>
    /\ UNCHANGED <<block_id, offset, block, got>>

\* write_offset of a whole block at a multiple of BLOCK_SIZE; the cursor stays.
WriteOffset(pos, data) ==
    /\ mode = "idle" /\ pos % BLOCK_SIZE = 0 /\ pos < DiskSize
    /\ block' = [block EXCEPT ![pos \div BLOCK_SIZE] = data]
    /\ UNCHANGED <<block_id, offset, mode, buf, got>>

DiskNext ==
    \/ \E from \in {"Start", "Current", "End"}, off \in (-DiskSize)..(DiskSize + 1) : DiskSeek(from, off)
    \/ \E n \in 0..MaxBuf, op \in {"read", "write"} : \E b \in [1..n -> DiskBytes] : DiskCall(op, b)
    \/ ReadOne \/ WriteOne \/ DiskReturn
    \/ \E pos \in 0..(DiskSize - 1), data \in [0..(BLOCK_SIZE - 1) -> DiskBytes] : WriteOffset(pos, data)

DiskSpec == DiskInit /\ [][DiskNext]_diskVars
-----------------------------------------------------------------------------
\* The byte at a place of the disk.
ByteAt(i) == block[i \div BLOCK_SIZE][i % BLOCK_SIZE]

BD == INSTANCE ByteDevice WITH
        Size <- DiskSize, Bytes <- DiskBytes,
        bytes <- [i \in 0..(DiskSize - 1) |-> ByteAt(i)],
        cursor <- Position

\* The blocks and the cursor of blocks and offsets are an array of bytes with a
\* position: the loops of fatfs and lwext4 read the bytes that are at the
\* cursor, put the bytes of the buffer there and change no other, across blocks
\* and in parts of them, and return no sooner than the buffer is done.
ImplementsDevice == BD!Spec
=============================================================================
