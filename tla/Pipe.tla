-------------------------------- MODULE Pipe --------------------------------
(***************************************************************************)
(* The pipe of api/src/file/pipe.rs: a ring buffer under a mutex, read and *)
(* written by tasks that yield and retry while it is empty or full, and    *)
(* the two ends, which close while calls are under way.                    *)
(*                                                                         *)
(* pc[p]: idle; retry, at the top of the loop of read or write; copy,      *)
(* holding the mutex and copying byte by byte.                             *)
(***************************************************************************)
EXTENDS Integers, Sequences

CONSTANTS Readers, Writers, Bytes,
          RING_BUFFER_SIZE,
          NoTask,
          MaxLen,   \* bound on the buffer of one call
          MaxWrites \* bound on the calls of write in a behaviour

Tasks == Readers \cup Writers

ASSUME PipeAssumption ==
    /\ RING_BUFFER_SIZE \in Nat \ {0} /\ MaxLen \in Nat /\ MaxWrites \in Nat
    /\ Readers \cap Writers = {} /\ NoTask \notin Tasks
    /\ 0 \in Bytes

VARIABLES
    arr, head, tail, status,  \* PipeRingBuffer
    lock,                     \* the holder of its mutex
    pc,
    left,   \* bytes of the call's buffer still to be copied
    room,   \* bytes this round of the loop may still copy
    writes, \* calls of write so far
    open,   \* the ends that some file descriptor refers to
    sent, received,  \* history: the bytes written and read so far
    eof              \* the readers whose last read returned 0

ring == <<arr, head, tail, status>>
vars == <<ring, lock, pc, left, room, writes, open, sent, received, eof>>

Init ==
    /\ arr = [i \in 0..(RING_BUFFER_SIZE - 1) |-> 0]
    /\ head = 0 /\ tail = 0 /\ status = "Empty"
    /\ lock = NoTask
    /\ pc = [p \in Tasks |-> "idle"]
    /\ left = [p \in Tasks |-> 0] /\ room = [p \in Tasks |-> 0]
    /\ writes = 0 /\ open = {"read", "write"}
    /\ sent = <<>> /\ received = <<>> /\ eof = {}

available_read ==
    IF status = "Empty" THEN 0
    ELSE IF tail > head THEN tail - head
    ELSE tail + RING_BUFFER_SIZE - head

available_write == IF status = "Full" THEN 0 ELSE RING_BUFFER_SIZE - available_read

\* An end lives while a descriptor or a call under way refers to it; the other
\* end's closed() is then false.
ReadEnd == "read" \in open \/ \E r \in Readers : pc[r] # "idle"
WriteEnd == "write" \in open \/ \E w \in Writers : pc[w] # "idle"

Succ(i) == (i + 1) % RING_BUFFER_SIZE
-----------------------------------------------------------------------------
\* read with a buffer of n bytes.
Read(r, n) ==
    /\ "read" \in open /\ pc[r] = "idle"
    /\ pc' = [pc EXCEPT ![r] = "retry"]
    /\ left' = [left EXCEPT ![r] = n]
    /\ UNCHANGED <<ring, lock, room, writes, open, sent, received, eof>>

MutReadWaits(r) ==
    /\ pc[r] = "retry" /\ lock = NoTask
    /\ available_read > 0
    /\ lock' = r
    /\ pc' = [pc EXCEPT ![r] = "copy"]
    /\ room' = [room EXCEPT ![r] = IF available_read < left[r] THEN available_read ELSE left[r]]
    /\ UNCHANGED <<ring, left, eof, writes, open, sent, received>>

\* One round of the loop of read: take the bytes there are.  With none, return
\* 0 if the write end is gone, else unlock and yield, which changes nothing.
ReadRound(r) ==
    /\ pc[r] = "retry" /\ lock = NoTask
    /\ \/ /\ available_read > 0
          /\ lock' = r
          /\ pc' = [pc EXCEPT ![r] = "copy"]
          /\ room' = [room EXCEPT ![r] = IF available_read < left[r] THEN available_read
                                         ELSE left[r]]
          /\ UNCHANGED <<left, eof>>
       \/ /\ available_read = 0 /\ ~WriteEnd
          /\ pc' = [pc EXCEPT ![r] = "idle"]
          /\ left' = [left EXCEPT ![r] = 0]
          /\ eof' = eof \cup {r}
          /\ UNCHANGED <<lock, room>>
    /\ UNCHANGED <<ring, writes, open, sent, received>>

\* read_byte into the buffer; after the last one the call returns.
ReadByte(r) ==
    /\ pc[r] = "copy" /\ lock = r
    /\ received' = Append(received, arr[head])
    /\ head' = Succ(head)
    /\ status' = IF head' = tail THEN "Empty" ELSE "Normal"
    /\ room' = [room EXCEPT ![r] = @ - 1]
    /\ left' = [left EXCEPT ![r] = IF room[r] = 1 THEN 0 ELSE @ - 1]
    /\ pc' = [pc EXCEPT ![r] = IF room[r] = 1 THEN "idle" ELSE "copy"]
    /\ lock' = IF room[r] = 1 THEN NoTask ELSE r
    /\ UNCHANGED <<arr, tail, writes, open, sent, eof>>
-----------------------------------------------------------------------------
\* write of n bytes; with the read end gone it fails with EPIPE instead.
Write(w, n) ==
    /\ "write" \in open /\ pc[w] = "idle"
    /\ ReadEnd
    /\ writes < MaxWrites /\ writes' = writes + 1
    /\ pc' = [pc EXCEPT ![w] = "retry"]
    /\ left' = [left EXCEPT ![w] = n]
    /\ UNCHANGED <<ring, lock, room, open, sent, received, eof>>

MutWriteRound(w) ==
    /\ pc[w] = "retry" /\ lock = NoTask
    /\ \/ /\ available_write > 0
          /\ lock' = w
          /\ pc' = [pc EXCEPT ![w] = "copy"]
          /\ room' = [room EXCEPT ![w] = available_write]
          /\ UNCHANGED left
       \/ /\ available_write = 0
          /\ pc' = [pc EXCEPT ![w] = "idle"]
          /\ left' = [left EXCEPT ![w] = 0]
          /\ UNCHANGED <<lock, room>>
    /\ UNCHANGED <<ring, writes, open, sent, received, eof>>

\* One round of the loop of write.  With no room, return if the read end is
\* gone, else unlock and yield, which changes nothing.
WriteRound(w) ==
    /\ pc[w] = "retry" /\ lock = NoTask
    /\ \/ /\ available_write > 0
          /\ lock' = w
          /\ pc' = [pc EXCEPT ![w] = "copy"]
          /\ room' = [room EXCEPT ![w] = available_write]
          /\ UNCHANGED left
       \/ /\ available_write = 0 /\ ~ReadEnd
          /\ pc' = [pc EXCEPT ![w] = "idle"]
          /\ left' = [left EXCEPT ![w] = 0]
          /\ UNCHANGED <<lock, room>>
    /\ UNCHANGED <<ring, writes, open, sent, received, eof>>

MutWriteByte(w) == \E b \in Bytes :
    /\ pc[w] = "copy" /\ lock = w
    /\ left[w] > 0
    /\ sent' = Append(sent, b)
    /\ tail' = Succ(tail)
    /\ arr' = [arr EXCEPT ![tail'] = b]
    /\ status' = IF tail' = head THEN "Full" ELSE "Normal"
    /\ left' = [left EXCEPT ![w] = @ - 1]
    /\ room' = [room EXCEPT ![w] = @ - 1]
    /\ pc' = [pc EXCEPT ![w] = IF room[w] = 1 THEN "retry" ELSE "copy"]
    /\ lock' = IF room[w] = 1 THEN NoTask ELSE w
    /\ UNCHANGED <<head, writes, open, received, eof>>

\* write_byte from the buffer.  The round ends, and with it the critical
\* section, when the room it found is used up, even if nothing is left.
WriteByte(w) == \E b \in Bytes :
    /\ pc[w] = "copy" /\ lock = w
    /\ left[w] > 0
    /\ sent' = Append(sent, b)
    /\ arr' = [arr EXCEPT ![tail] = b]
    /\ tail' = Succ(tail)
    /\ status' = IF tail' = head THEN "Full" ELSE "Normal"
    /\ left' = [left EXCEPT ![w] = @ - 1]
    /\ room' = [room EXCEPT ![w] = @ - 1]
    /\ pc' = [pc EXCEPT ![w] = IF room[w] = 1 THEN "retry" ELSE "copy"]
    /\ lock' = IF room[w] = 1 THEN NoTask ELSE w
    /\ UNCHANGED <<head, writes, open, received, eof>>

\* The buffer is written: the call returns.
WriteDone(w) ==
    /\ pc[w] = "copy" /\ lock = w
    /\ left[w] = 0
    /\ pc' = [pc EXCEPT ![w] = "idle"]
    /\ room' = [room EXCEPT ![w] = 0]
    /\ lock' = NoTask
    /\ UNCHANGED <<ring, left, writes, open, sent, received, eof>>
-----------------------------------------------------------------------------
\* The last file descriptor of an end is closed.
Close(end) ==
    /\ open' = open \ {end}
    /\ end \in open
    /\ UNCHANGED <<ring, lock, pc, left, room, writes, sent, received, eof>>

ReaderStep(r) == ReadRound(r) \/ ReadByte(r)
WriterStep(w) == WriteRound(w) \/ WriteByte(w) \/ WriteDone(w)

\* Both ends are closed and all calls have returned.
Finished == open = {} /\ (\A p \in Tasks : pc[p] = "idle") /\ UNCHANGED vars

Next ==
    \/ \E r \in Readers : ReaderStep(r) \/ \E n \in 1..MaxLen : Read(r, n)
    \/ \E w \in Writers : WriterStep(w) \/ \E n \in 1..MaxLen : Write(w, n)
    \/ \E end \in open : Close(end)
    \/ Finished

Spec == Init /\ [][Next]_vars

\* The scheduler's FIFO queue gives every task that yields another turn, and
\* a task does not find the mutex taken at every one of its turns.
FairSpec == /\ Spec
            /\ \A r \in Readers : SF_vars(ReaderStep(r))
            /\ \A w \in Writers : SF_vars(WriterStep(w))
-----------------------------------------------------------------------------
\* The types of the ring buffer and of the calls.
TypeOK ==
    /\ arr \in [0..(RING_BUFFER_SIZE - 1) -> Bytes]
    /\ head \in 0..(RING_BUFFER_SIZE - 1) /\ tail \in 0..(RING_BUFFER_SIZE - 1)
    /\ status \in {"Full", "Empty", "Normal"}
    /\ lock \in Tasks \cup {NoTask}
    /\ pc \in [Tasks -> {"idle", "retry", "copy"}]
    /\ left \in [Tasks -> Nat] /\ room \in [Tasks -> Nat]
    /\ writes \in Nat /\ open \subseteq {"read", "write"}
    /\ sent \in Seq(Bytes) /\ received \in Seq(Bytes)
    /\ eof \subseteq Readers

\* available_read and available_write count what is in the ring, in every
\* position of head and tail: the status tells a full ring from an empty one.
CountsRight ==
    /\ available_read = Len(sent) - Len(received)
    /\ available_write = RING_BUFFER_SIZE - available_read

\* The copy loops stay within what they found under the mutex: a reader has as
\* many bytes as it still copies, a writer as many free places, so neither
\* overtakes the other around the ring.
CopyWithinRoom ==
    \A p \in Tasks : pc[p] = "copy" =>
        /\ room[p] > 0
        /\ p \in Readers => room[p] <= available_read
        /\ p \in Writers => room[p] <= available_write

\* read() returns 0 only at the end of the stream: the write end is gone and
\* every byte written has been read.
EofAtEnd == \A r \in eof : ~WriteEnd /\ received = sent

\* A write that returns has written its whole buffer, unless the read end went
\* away.
WriteComplete ==
    [][\A w \in Writers : pc[w] # "idle" /\ pc'[w] = "idle" => left[w] = 0 \/ ~ReadEnd]_vars

BC == INSTANCE ByteChannel WITH Capacity <- RING_BUFFER_SIZE

\* The pipe is a bounded first-in first-out channel: what the readers get from
\* the ring buffer is what the writers put in, in order and without loss.
ImplementsChannel == BC!Spec

\* read returns 0 at the end of the stream only (pipe.rs).
\* write returns when all is written or nobody reads.
PipeCallsKept == []EofAtEnd /\ WriteComplete
=============================================================================
