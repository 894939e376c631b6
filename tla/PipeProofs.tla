----------------------------- MODULE PipeProofs -----------------------------
(***************************************************************************)
(* For any size of the ring and any readers and writers: the ring buffer's *)
(* counts are right, the copy loops stay within them, read() returns 0     *)
(* only at the end of the stream, and the pipe implements ByteChannel.     *)
(***************************************************************************)
EXTENDS Pipe, TLAPS

N == RING_BUFFER_SIZE

\* The number of bytes in the ring, and the place of its i-th byte.
Fill == Len(sent) - Len(received)
Wrap(i) == IF i < N THEN i ELSE i - N
Place(i) == Wrap(head + i)

\* Where tail is and what the status says, in terms of the bytes in the ring.
RingShape ==
    /\ Fill \in 0..N
    /\ tail = Place(Fill)
    /\ status = "Empty" <=> Fill = 0
    /\ status = "Full" <=> Fill = N

\* The ring holds the bytes that were sent and not yet received, in order, and
\* what was received is what was sent first.
RingHolds ==
    /\ \A i \in 0..(N - 1) : i < Fill => arr[Place(i)] = sent[Len(received) + 1 + i]
    /\ \A i \in 1..Len(received) : received[i] = sent[i]

\* The mutex is held by the task that copies.
LockHeld == \A p \in Tasks : pc[p] = "copy" <=> lock = p

\* A reader has asked for at least as many bytes as it copies.
ReaderWants == \A r \in Readers : /\ pc[r] = "retry" => left[r] > 0
                                  /\ pc[r] = "copy" => left[r] >= room[r]

\* The inductive invariant.  CountsRight alone is not inductive: that tail meets
\* head only when the ring is full or empty follows from RingShape.
IInv == /\ TypeOK /\ RingShape /\ RingHolds /\ LockHeld /\ ReaderWants
        /\ CopyWithinRoom /\ EofAtEnd

\* The remainder of an index that is at most one past the end.
LEMMA ModOnce ==
    ASSUME NEW n \in Nat \ {0}, NEW i \in 0..(n - 1)
    PROVE  (i + 1) % n = IF i + 1 < n THEN i + 1 ELSE 0
<1>1. CASE i + 1 < n
  BY <1>1
<1>2. CASE i + 1 = n
  BY <1>2
<1> QED BY <1>1, <1>2

LEMMA SuccIsWrap ==
    ASSUME NEW i \in 0..(N - 1)
    PROVE  Succ(i) = Wrap(i + 1) /\ Succ(i) \in 0..(N - 1)
BY ModOnce, PipeAssumption DEF Succ, Wrap, N

\* Appending a byte to a history.
LEMMA AppendByte ==
    ASSUME NEW s \in Seq(Bytes), NEW b \in Bytes
    PROVE  /\ Append(s, b) \in Seq(Bytes)
           /\ Len(s) \in Nat /\ Len(Append(s, b)) = Len(s) + 1
           /\ \A i \in 1..Len(s) : Append(s, b)[i] = s[i]
           /\ Append(s, b)[Len(s) + 1] = b
OBVIOUS

\* The code's counts agree with the histories.
LEMMA ShapeGivesCounts == TypeOK /\ RingShape => CountsRight
<1> SUFFICES ASSUME TypeOK, RingShape PROVE CountsRight
  OBVIOUS
<1>1. N \in Nat \ {0} /\ Fill \in 0..N /\ head \in 0..(N - 1) /\ tail \in 0..(N - 1)
  BY PipeAssumption DEF TypeOK, RingShape, N
<1>2. available_read = Fill
  <2>1. CASE Fill = 0
    BY <2>1 DEF available_read, RingShape
  <2>2. CASE Fill # 0 /\ tail > head
    BY <1>1, <2>2 DEF available_read, RingShape, Place, Wrap, N
  <2>3. CASE Fill # 0 /\ ~(tail > head)
    BY <1>1, <2>3 DEF available_read, RingShape, Place, Wrap, N
  <2> QED BY <2>1, <2>2, <2>3
<1>3. available_write = N - Fill
  BY <1>1, <1>2 DEF available_write, RingShape, N
<1> QED BY <1>2, <1>3 DEF CountsRight, Fill, N

LEMMA InitIInv == Init => IInv
<1> SUFFICES ASSUME Init PROVE IInv
  OBVIOUS
<1> USE PipeAssumption
<1>1. TypeOK
  BY DEF Init, TypeOK, Tasks
<1>2. Fill = 0 /\ Len(received) = 0
  BY DEF Init, Fill
<1>3. RingShape /\ RingHolds
  BY <1>2 DEF Init, RingShape, RingHolds, Place, Wrap, N
<1>4. LockHeld /\ ReaderWants /\ CopyWithinRoom /\ EofAtEnd
  BY DEF Init, LockHeld, ReaderWants, CopyWithinRoom, EofAtEnd, Tasks
<1> QED BY <1>1, <1>3, <1>4 DEF IInv

\* A step that leaves the ring and the histories alone keeps what they say.
LEMMA RingUnchanged ==
    ASSUME IInv, UNCHANGED <<ring, sent, received>>
    PROVE  /\ RingShape' /\ RingHolds'
           /\ available_read' = available_read /\ available_write' = available_write
BY DEF IInv, ring, RingShape, RingHolds, Fill, Place, Wrap, available_read, available_write

\* read_byte takes the oldest byte out of the ring.
LEMMA ReadByteKeepsRing ==
    ASSUME IInv, NEW r \in Readers, ReadByte(r)
    PROVE  /\ RingShape' /\ RingHolds'
           /\ received' \in Seq(Bytes)
           /\ received' = Append(received, sent[Len(received) + 1])
           /\ Len(received) < Len(sent)
           /\ Fill' = Fill - 1
           /\ head' \in 0..(N - 1)
<1>1. N \in Nat \ {0} /\ head \in 0..(N - 1) /\ Fill \in 0..N
  BY PipeAssumption DEF IInv, TypeOK, RingShape, N
<1>2. Len(sent) \in Nat /\ Len(received) \in Nat
  BY DEF IInv, TypeOK
<1>3. Fill > 0
  <2>1. available_read = Fill
    BY ShapeGivesCounts DEF IInv, CountsRight, Fill
  <2>2. room[r] > 0 /\ room[r] <= available_read /\ room[r] \in Nat
    BY DEF ReadByte, IInv, CopyWithinRoom, TypeOK, Tasks
  <2> QED BY <1>1, <2>1, <2>2
<1>4. head' = Wrap(head + 1) /\ head' \in 0..(N - 1)
  BY <1>1, SuccIsWrap DEF ReadByte
<1>5. Place(0) = head
  BY <1>1 DEF Place, Wrap
<1>6. arr[head] = sent[Len(received) + 1]
  <2>1. 0 \in 0..(N - 1) /\ 0 < Fill
    BY <1>1, <1>3
  <2>2. arr[Place(0)] = sent[Len(received) + 1 + 0]
    BY <2>1 DEF IInv, RingHolds
  <2> QED BY <1>2, <1>5, <2>2
<1>7. sent[Len(received) + 1] \in Bytes
  BY <1>1, <1>6 DEF IInv, TypeOK, N
<1>8. /\ received' = Append(received, sent[Len(received) + 1])
      /\ received' \in Seq(Bytes) /\ Len(received') = Len(received) + 1
      /\ \A i \in 1..Len(received) : received'[i] = received[i]
      /\ received'[Len(received) + 1] = sent[Len(received) + 1]
      /\ sent' = sent /\ arr' = arr /\ tail' = tail
  BY <1>6, <1>7, AppendByte DEF ReadByte, IInv, TypeOK
<1>9. Fill' = Fill - 1
  BY <1>2, <1>8 DEF Fill
<1>10. RingShape'
  <2>1. tail = Wrap(head + Fill) /\ tail' = tail
    BY <1>8 DEF IInv, RingShape, Place
  <2>2. tail' = Wrap(head' + Fill')
    BY <1>1, <1>3, <1>4, <1>9, <2>1 DEF Wrap
  <2>3. head' = tail' <=> Fill' = 0
    BY <1>1, <1>3, <1>4, <1>9, <2>2 DEF Wrap
  <2>4. status' = IF head' = tail' THEN "Empty" ELSE "Normal"
    BY <1>8 DEF ReadByte
  <2> QED BY <1>1, <1>3, <1>9, <2>2, <2>3, <2>4 DEF RingShape, Place, N, Wrap
<1>11. RingHolds'
  <2>1. ASSUME NEW i \in 0..(N - 1), i < Fill'
        PROVE  arr'[Wrap(head' + i)] = sent'[Len(received') + 1 + i]
    <3>1. i + 1 \in 0..(N - 1) /\ i + 1 < Fill
      BY <1>1, <1>9, <2>1
    <3>2. Wrap(head' + i) = Wrap(head + (i + 1))
      BY <1>1, <1>4, <3>1 DEF Wrap
    <3>3. arr[Wrap(head + (i + 1))] = sent[Len(received) + 1 + (i + 1)]
      BY <3>1 DEF IInv, RingHolds, Place
    <3>4. Len(received') + 1 + i = Len(received) + 1 + (i + 1)
      BY <1>2, <1>8
    <3> QED BY <1>8, <3>2, <3>3, <3>4
  <2>2. \A i \in 1..Len(received') : received'[i] = sent'[i]
    BY <1>2, <1>8 DEF IInv, RingHolds
  <2> QED BY <2>1, <2>2 DEF RingHolds, Place, N, Wrap
<1> QED BY <1>1, <1>2, <1>3, <1>4, <1>8, <1>9, <1>10, <1>11 DEF Fill

\* write_byte puts a byte behind the youngest one.
LEMMA WriteByteKeepsRing ==
    ASSUME IInv, NEW w \in Writers, WriteByte(w)
    PROVE  /\ RingShape' /\ RingHolds'
           /\ sent' \in Seq(Bytes) /\ (\E b \in Bytes : sent' = Append(sent, b))
           /\ received' = received
           /\ Fill < N /\ Fill' = Fill + 1
           /\ tail' \in 0..(N - 1) /\ arr' \in [0..(N - 1) -> Bytes]
<1>1. /\ N \in Nat \ {0} /\ head \in 0..(N - 1) /\ tail \in 0..(N - 1) /\ Fill \in 0..N
      /\ arr \in [0..(N - 1) -> Bytes]
  BY PipeAssumption DEF IInv, TypeOK, RingShape, N
<1>2. Len(sent) \in Nat /\ Len(received) \in Nat
  BY DEF IInv, TypeOK
<1>3. Fill < N
  <2>1. available_write = N - Fill
    BY ShapeGivesCounts DEF IInv, CountsRight, Fill, N
  <2>2. room[w] > 0 /\ room[w] <= available_write /\ room[w] \in Nat
    BY DEF WriteByte, IInv, CopyWithinRoom, TypeOK, Tasks
  <2> QED BY <1>1, <2>1, <2>2
<1>4. PICK b \in Bytes : /\ sent' = Append(sent, b) /\ arr' = [arr EXCEPT ![tail] = b]
                         /\ tail' = Succ(tail)
                         /\ status' = IF tail' = head THEN "Full" ELSE "Normal"
                         /\ head' = head /\ received' = received
  BY Zenon DEF WriteByte
<1>5. tail' = Wrap(tail + 1) /\ tail' \in 0..(N - 1)
  BY <1>1, <1>4, SuccIsWrap
<1>6. /\ sent' \in Seq(Bytes) /\ Len(sent') = Len(sent) + 1
      /\ \A i \in 1..Len(sent) : sent'[i] = sent[i]
      /\ sent'[Len(sent) + 1] = b
  BY <1>4, AppendByte DEF IInv, TypeOK
<1>7. Fill' = Fill + 1
  BY <1>2, <1>4, <1>6 DEF Fill
<1>8. tail = Wrap(head + Fill)
  BY DEF IInv, RingShape, Place
<1>9. RingShape'
  <2>1. tail' = Wrap(head' + Fill')
    BY <1>1, <1>3, <1>4, <1>5, <1>7, <1>8 DEF Wrap
  <2>2. tail' = head' <=> Fill' = N
    BY <1>1, <1>3, <1>4, <1>7, <2>1 DEF Wrap
  <2> QED BY <1>1, <1>3, <1>4, <1>7, <2>1, <2>2 DEF RingShape, Place, N, Wrap
<1>10. RingHolds'
  <2>1. ASSUME NEW i \in 0..(N - 1), i < Fill'
        PROVE  arr'[Wrap(head' + i)] = sent'[Len(received') + 1 + i]
    <3>1. CASE i = Fill
      <4>1. arr'[tail] = b
        BY <1>1, <1>4
      <4>2. Len(received') + 1 + i = Len(sent) + 1
        BY <1>2, <1>4, <3>1 DEF Fill
      <4> QED BY <1>4, <1>6, <1>8, <3>1, <4>1, <4>2
    <3>2. CASE i # Fill
      <4>1. i < Fill
        BY <1>1, <1>7, <2>1, <3>2
      <4>2. Wrap(head + i) # tail /\ Wrap(head + i) \in 0..(N - 1)
        BY <1>1, <1>3, <1>8, <4>1 DEF Wrap
      <4>3. arr'[Wrap(head + i)] = arr[Wrap(head + i)]
        BY <1>1, <1>4, <4>2
      <4>4. arr[Wrap(head + i)] = sent[Len(received) + 1 + i]
        BY <4>1 DEF IInv, RingHolds, Place
      <4>5. Len(received) + 1 + i \in 1..Len(sent)
        BY <1>2, <4>1 DEF Fill
      <4> QED BY <1>4, <1>6, <4>3, <4>4, <4>5
    <3> QED BY <3>1, <3>2
  <2>2. \A i \in 1..Len(received') : received'[i] = sent'[i]
    <3>1. Len(received) <= Len(sent)
      BY <1>1, <1>2 DEF Fill
    <3> QED BY <1>2, <1>4, <1>6, <3>1 DEF IInv, RingHolds
  <2> QED BY <2>1, <2>2 DEF RingHolds, Place, N, Wrap
<1>11. arr' \in [0..(N - 1) -> Bytes]
  BY <1>1, <1>4
<1> QED BY <1>3, <1>4, <1>5, <1>6, <1>7, <1>9, <1>10, <1>11

\* Every step keeps the invariant.
LEMMA NextIInv == IInv /\ [Next]_vars => IInv'
<1> SUFFICES ASSUME IInv, [Next]_vars PROVE IInv'
  OBVIOUS
<1> USE PipeAssumption
<1>0. CountsRight
  BY ShapeGivesCounts DEF IInv
<1>1. ASSUME NEW r \in Readers, NEW n \in 1..MaxLen, Read(r, n) PROVE IInv'
  <2>1. UNCHANGED <<ring, sent, received>>
    BY <1>1 DEF Read
  <2>2. TypeOK' /\ LockHeld' /\ ReaderWants' /\ EofAtEnd'
    BY <1>1, PipeAssumption DEF Read, ring, IInv, TypeOK, LockHeld, ReaderWants, EofAtEnd, WriteEnd, Tasks
  <2>3. CopyWithinRoom'
    BY <1>1, <2>1, RingUnchanged, SMTT(40) DEF Read, IInv, TypeOK, CopyWithinRoom, Tasks
  <2> QED BY <2>1, <2>2, <2>3, RingUnchanged DEF IInv
<1>2. ASSUME NEW r \in Readers, ReadRound(r) PROVE IInv'
  <2>1. UNCHANGED <<ring, sent, received>>
    BY <1>2 DEF ReadRound
  <2>2. available_read \in Nat
    BY <1>0 DEF CountsRight, IInv, RingShape, Fill
  <2>3. r \in Tasks /\ pc[r] = "retry" /\ left[r] \in Nat /\ left[r] > 0 /\ lock = NoTask
    BY <1>2 DEF ReadRound, IInv, TypeOK, ReaderWants, Tasks
  <2>4. CASE /\ available_read > 0 /\ lock' = r /\ pc' = [pc EXCEPT ![r] = "copy"]
             /\ room' = [room EXCEPT ![r] = IF available_read < left[r] THEN available_read
                                            ELSE left[r]]
             /\ left' = left /\ eof' = eof
    <3>1. TypeOK'
      BY <1>2, <2>1, <2>2, <2>3, <2>4 DEF ReadRound, ring, IInv, TypeOK
    <3>2. LockHeld' /\ ReaderWants'
      BY <2>2, <2>3, <2>4, SMTT(40) DEF IInv, TypeOK, LockHeld, ReaderWants, Tasks
    <3>3. \A p \in Tasks : pc'[p] = "copy" => p = r
      BY <2>3, <2>4 DEF IInv, TypeOK, LockHeld
    <3>4. CopyWithinRoom'
      BY <2>1, <2>2, <2>3, <2>4, <3>3, RingUnchanged, SMTT(40) DEF IInv, TypeOK, CopyWithinRoom
    <3>5. EofAtEnd'
      BY <1>2, <2>1, <2>3, <2>4 DEF ReadRound, WriteEnd, IInv, TypeOK, EofAtEnd, Tasks
    <3> QED BY <2>1, <3>1, <3>2, <3>4, <3>5, RingUnchanged DEF IInv
  <2>5. CASE /\ available_read = 0 /\ ~WriteEnd /\ pc' = [pc EXCEPT ![r] = "idle"]
             /\ left' = [left EXCEPT ![r] = 0] /\ eof' = eof \cup {r}
             /\ lock' = lock /\ room' = room
    <3>1. TypeOK'
      BY <1>2, <2>1, <2>3, <2>5 DEF ReadRound, ring, IInv, TypeOK
    <3>2. LockHeld' /\ ReaderWants'
      BY <2>3, <2>5 DEF IInv, TypeOK, LockHeld, ReaderWants, Tasks
    <3>3. CopyWithinRoom'
      BY <2>1, <2>3, <2>5, RingUnchanged DEF IInv, TypeOK, CopyWithinRoom
    <3>4. received = sent
      <4>1. Len(sent) = Len(received)
        BY <1>0, <2>5 DEF CountsRight, IInv, TypeOK
      <4> QED BY <4>1 DEF IInv, TypeOK, RingHolds
    <3>5. ~WriteEnd'
      BY <1>2, <2>3, <2>5 DEF ReadRound, WriteEnd, IInv, TypeOK, Tasks
    <3> QED BY <2>1, <3>1, <3>2, <3>3, <3>4, <3>5, RingUnchanged DEF IInv, EofAtEnd
  <2> QED BY <1>2, <2>4, <2>5 DEF ReadRound
<1>3. ASSUME NEW r \in Readers, ReadByte(r) PROVE IInv'
  <2>1. /\ RingShape' /\ RingHolds' /\ received' \in Seq(Bytes) /\ Fill' = Fill - 1
        /\ head' \in 0..(RING_BUFFER_SIZE - 1) /\ Len(received) < Len(sent)
    BY <1>3, ReadByteKeepsRing DEF N
  <2>2. room[r] \in Nat /\ room[r] > 0 /\ left[r] >= room[r] /\ left[r] \in Nat /\ r \in Tasks
    BY <1>3 DEF ReadByte, IInv, TypeOK, CopyWithinRoom, ReaderWants, Tasks
  <2>3. TypeOK'
    <3>1. left' \in [Tasks -> Nat] /\ room' \in [Tasks -> Nat]
      BY <1>3, <2>2, SMTT(40) DEF ReadByte, IInv, TypeOK
    <3>2. pc' \in [Tasks -> {"idle", "retry", "copy"}] /\ lock' \in Tasks \cup {NoTask}
      BY <1>3, <2>2, SMTT(40) DEF ReadByte, IInv, TypeOK
    <3>3. status' \in {"Full", "Empty", "Normal"}
      BY <1>3, SMTT(40) DEF ReadByte
    <3> QED BY <1>3, <2>1, <3>1, <3>2, <3>3, Zenon DEF ReadByte, IInv, TypeOK
  <2>4. LockHeld' /\ ReaderWants'
    BY <1>3, <2>2 DEF ReadByte, IInv, TypeOK, LockHeld, ReaderWants, Tasks
  <2>5. CopyWithinRoom'
    <3>1. available_read' = available_read - 1
      <4>1. (TypeOK /\ RingShape => CountsRight)'
        BY ShapeGivesCounts, PTL
      <4> QED BY <1>0, <2>1, <2>3, <4>1, Zenon DEF CountsRight, IInv, TypeOK, Fill
    <3>2. available_read \in Int
      BY <1>0 DEF CountsRight, IInv, RingShape, Fill, N
    <3>3. \A p \in Tasks : pc'[p] = "copy" => p = r
      BY <1>3, <2>2 DEF ReadByte, IInv, TypeOK, LockHeld
    <3>4. r \notin Writers /\ room[r] <= available_read
      BY <1>3, <2>2 DEF ReadByte, IInv, CopyWithinRoom, Tasks
    <3> QED BY <1>3, <2>2, <3>1, <3>2, <3>3, <3>4, SMTT(40) DEF ReadByte, IInv, TypeOK, CopyWithinRoom
  <2>6. EofAtEnd'
    BY <2>1, <1>3 DEF ReadByte, EofAtEnd, IInv
  <2> QED BY <2>1, <2>3, <2>4, <2>5, <2>6 DEF IInv
<1>4. ASSUME NEW w \in Writers, NEW n \in 1..MaxLen, Write(w, n) PROVE IInv'
  <2>1. UNCHANGED <<ring, sent, received>>
    BY <1>4 DEF Write
  <2>2. TypeOK' /\ LockHeld' /\ ReaderWants'
    BY <1>4 DEF Write, ring, IInv, TypeOK, LockHeld, ReaderWants, Tasks
  <2>3. CopyWithinRoom'
    BY <1>4, <2>1, RingUnchanged DEF Write, IInv, TypeOK, CopyWithinRoom, Tasks
  <2>4. EofAtEnd'
    BY <1>4 DEF Write, IInv, EofAtEnd, WriteEnd
  <2> QED BY <2>1, <2>2, <2>3, <2>4, RingUnchanged DEF IInv
<1>5. ASSUME NEW w \in Writers, WriteRound(w) PROVE IInv'
  <2>1. UNCHANGED <<ring, sent, received>>
    BY <1>5 DEF WriteRound
  <2>2. available_write \in Nat
    BY <1>0 DEF CountsRight, IInv, RingShape, Fill, N
  <2>3. w \in Tasks /\ w \notin Readers /\ pc[w] = "retry" /\ lock = NoTask
    BY <1>5 DEF WriteRound, Tasks
  <2>4. CASE /\ available_write > 0 /\ lock' = w /\ pc' = [pc EXCEPT ![w] = "copy"]
             /\ room' = [room EXCEPT ![w] = available_write] /\ left' = left
    <3>1. TypeOK'
      BY <1>5, <2>1, <2>2, <2>3, <2>4 DEF WriteRound, ring, IInv, TypeOK
    <3>2. LockHeld' /\ ReaderWants'
      BY <2>3, <2>4 DEF IInv, TypeOK, LockHeld, ReaderWants, Tasks
    <3>3. \A p \in Tasks : pc'[p] = "copy" => p = w
      BY <2>3, <2>4 DEF IInv, TypeOK, LockHeld
    <3>4. CopyWithinRoom'
      BY <2>1, <2>2, <2>3, <2>4, <3>3, RingUnchanged DEF IInv, TypeOK, CopyWithinRoom
    <3>5. EofAtEnd'
      BY <1>5 DEF WriteRound, IInv, EofAtEnd, WriteEnd
    <3> QED BY <2>1, <3>1, <3>2, <3>4, <3>5, RingUnchanged DEF IInv
  <2>5. CASE /\ available_write = 0 /\ ~ReadEnd /\ pc' = [pc EXCEPT ![w] = "idle"]
             /\ left' = [left EXCEPT ![w] = 0] /\ lock' = lock /\ room' = room
    <3>1. TypeOK'
      BY <1>5, <2>1, <2>3, <2>5 DEF WriteRound, ring, IInv, TypeOK
    <3>2. LockHeld' /\ ReaderWants'
      BY <2>3, <2>5 DEF IInv, TypeOK, LockHeld, ReaderWants, Tasks
    <3>3. CopyWithinRoom'
      BY <2>1, <2>3, <2>5, RingUnchanged DEF IInv, TypeOK, CopyWithinRoom
    <3>4. EofAtEnd'
      BY <1>5 DEF WriteRound, IInv, EofAtEnd, WriteEnd
    <3> QED BY <2>1, <3>1, <3>2, <3>3, <3>4, RingUnchanged DEF IInv
  <2> QED BY <1>5, <2>4, <2>5 DEF WriteRound
<1>6. ASSUME NEW w \in Writers, WriteByte(w) PROVE IInv'
  <2>1. /\ RingShape' /\ RingHolds' /\ sent' \in Seq(Bytes) /\ Fill' = Fill + 1
        /\ tail' \in 0..(RING_BUFFER_SIZE - 1)
        /\ arr' \in [0..(RING_BUFFER_SIZE - 1) -> Bytes]
    BY <1>6, WriteByteKeepsRing DEF N
  <2>2. room[w] \in Nat /\ room[w] > 0 /\ left[w] > 0 /\ left[w] \in Nat /\ w \in Tasks
    BY <1>6 DEF WriteByte, IInv, TypeOK, CopyWithinRoom, Tasks
  <2>3. TypeOK'
    <3>1. left' \in [Tasks -> Nat] /\ room' \in [Tasks -> Nat]
      BY <1>6, <2>2, SMTT(40) DEF WriteByte, IInv, TypeOK
    <3>2. pc' \in [Tasks -> {"idle", "retry", "copy"}] /\ lock' \in Tasks \cup {NoTask}
      BY <1>6, <2>2, SMTT(40) DEF WriteByte, IInv, TypeOK
    <3>3. status' \in {"Full", "Empty", "Normal"}
      BY <1>6, SMTT(40) DEF WriteByte
    <3> QED BY <1>6, <2>1, <3>1, <3>2, <3>3, Zenon DEF WriteByte, IInv, TypeOK
  <2>4. LockHeld' /\ ReaderWants'
    BY <1>6, <2>2 DEF WriteByte, IInv, TypeOK, LockHeld, ReaderWants, Tasks
  <2>5. CopyWithinRoom'
    <3>1. available_write' = available_write - 1
      <4>1. (TypeOK /\ RingShape => CountsRight)'
        BY ShapeGivesCounts, PTL
      <4>2. available_read \in Int /\ available_read' = available_read + 1
        <5>1. available_read = Fill /\ available_read' = Fill'
          BY <1>0, <2>1, <2>3, <4>1 DEF CountsRight, Fill
        <5>2. Fill \in Int
          BY DEF IInv, RingShape, N
        <5> QED BY <2>1, <5>1, <5>2
      <4> QED BY <1>0, <2>1, <2>3, <4>1, <4>2 DEF CountsRight
    <3>2. available_write \in Int
      BY <1>0 DEF CountsRight, IInv, RingShape, Fill, N
    <3>3. \A p \in Tasks : pc'[p] = "copy" => p = w
      BY <1>6, <2>2 DEF WriteByte, IInv, TypeOK, LockHeld
    <3>4. w \notin Readers /\ room[w] <= available_write
      BY <1>6, <2>2 DEF WriteByte, IInv, CopyWithinRoom, Tasks
    <3> QED BY <1>6, <2>2, <3>1, <3>2, <3>3, <3>4, SMTT(40) DEF WriteByte, IInv, TypeOK, CopyWithinRoom
  <2>6. EofAtEnd'
    BY <1>6, <2>2 DEF WriteByte, EofAtEnd, IInv, WriteEnd
  <2> QED BY <2>1, <2>3, <2>4, <2>5, <2>6 DEF IInv
<1>7. ASSUME NEW w \in Writers, WriteDone(w) PROVE IInv'
  <2>1. UNCHANGED <<ring, sent, received>>
    BY <1>7 DEF WriteDone
  <2>2. TypeOK' /\ LockHeld' /\ ReaderWants'
    BY <1>7 DEF WriteDone, ring, IInv, TypeOK, LockHeld, ReaderWants, Tasks
  <2>3. CopyWithinRoom'
    BY <1>7, <2>1, RingUnchanged DEF WriteDone, IInv, TypeOK, CopyWithinRoom, Tasks
  <2>4. EofAtEnd'
    BY <1>7 DEF WriteDone, IInv, TypeOK, EofAtEnd, WriteEnd
  <2> QED BY <2>1, <2>2, <2>3, <2>4, RingUnchanged DEF IInv
<1>8. ASSUME NEW end \in open, Close(end) PROVE IInv'
  <2>1. UNCHANGED <<ring, sent, received>>
    BY <1>8 DEF Close
  <2>2. TypeOK' /\ LockHeld' /\ ReaderWants' /\ EofAtEnd'
    BY <1>8 DEF Close, ring, IInv, TypeOK, LockHeld, ReaderWants, EofAtEnd, WriteEnd
  <2>3. CopyWithinRoom'
    BY <1>8, <2>1, RingUnchanged DEF Close, IInv, CopyWithinRoom
  <2> QED BY <2>1, <2>2, <2>3, RingUnchanged DEF IInv
<1>9. CASE UNCHANGED vars
  <2>1. UNCHANGED <<ring, sent, received>>
    BY <1>9 DEF vars
  <2>2. TypeOK' /\ LockHeld' /\ ReaderWants' /\ EofAtEnd'
    BY <1>9 DEF vars, ring, IInv, TypeOK, LockHeld, ReaderWants, EofAtEnd, WriteEnd
  <2>3. CopyWithinRoom'
    BY <1>9, <2>1, RingUnchanged DEF vars, IInv, CopyWithinRoom
  <2> QED BY <2>1, <2>2, <2>3, RingUnchanged DEF IInv
<1> QED BY <1>1, <1>2, <1>3, <1>4, <1>5, <1>6, <1>7, <1>8, <1>9
        DEF Next, ReaderStep, WriterStep, Finished

\* The invariant holds in every state of every behaviour.
THEOREM PipeInvariant == Spec => []IInv
BY InitIInv, NextIInv, PTL DEF Spec

\* The ring buffer and the calls keep their types.
THEOREM PipeType == Spec => []TypeOK
<1>1. IInv => TypeOK
  BY DEF IInv
<1> QED BY <1>1, PipeInvariant, PTL

\* available_read and available_write are right for every size of the ring.
THEOREM PipeCountsRight == Spec => []CountsRight
<1>1. IInv => CountsRight
  BY ShapeGivesCounts DEF IInv
<1> QED BY <1>1, PipeInvariant, PTL

\* The copy loops of read and write stay within the bytes and the room they
\* found.
THEOREM PipeCopyWithinRoom == Spec => []CopyWithinRoom
<1>1. IInv => CopyWithinRoom
  BY DEF IInv
<1> QED BY <1>1, PipeInvariant, PTL

\* read() returns 0 only when the write end is gone and all is read.
THEOREM PipeEofAtEnd == Spec => []EofAtEnd
<1>1. IInv => EofAtEnd
  BY DEF IInv
<1> QED BY <1>1, PipeInvariant, PTL

\* Initially the channel is empty.
LEMMA InitChannel == Init => BC!Init
BY SMTT(40) DEF Init, BC!Init

\* Every step of the pipe is a Put, a Get or a stutter of the channel.
LEMMA NextChannel == IInv /\ [Next]_vars => [BC!Put \/ BC!Get]_<<sent, received>>
<1> SUFFICES ASSUME IInv, [Next]_vars
             PROVE  BC!Put \/ BC!Get \/ UNCHANGED <<sent, received>>
  OBVIOUS
<1>1. ASSUME NEW r \in Readers, ReadByte(r) PROVE BC!Get
  BY <1>1, ReadByteKeepsRing, Zenon DEF ReadByte, BC!Get
<1>2. ASSUME NEW w \in Writers, WriteByte(w) PROVE BC!Put
  <2>1. Len(sent) < Len(received) + RING_BUFFER_SIZE
    <3>1. Fill < N
      BY <1>2, WriteByteKeepsRing
    <3> QED BY <3>1, PipeAssumption DEF Fill, N, IInv, TypeOK
  <2> QED BY <1>2, <2>1, WriteByteKeepsRing DEF BC!Put
<1>3. CASE UNCHANGED vars
  BY <1>3 DEF vars
<1> QED BY <1>1, <1>2, <1>3
        DEF Next, ReaderStep, WriterStep, Finished, Read, ReadRound, Write, WriteRound,
            WriteDone, Close

\* The pipe is a bounded first-in first-out channel, for every size of the ring
\* and any number of readers and writers.
THEOREM PipeImplementsChannel == Spec => ImplementsChannel
BY InitChannel, NextChannel, PipeInvariant, PTL DEF Spec, ImplementsChannel, BC!Spec

\* A write leaves its call only with everything written or the read end gone.
THEOREM PipeWriteComplete == Spec => WriteComplete
<1>1. ASSUME IInv, [Next]_vars, NEW w \in Writers, pc[w] # "idle", pc'[w] = "idle"
      PROVE  left[w] = 0 \/ ~ReadEnd
  <2>1. w \in Tasks /\ w \notin Readers /\ pc \in [Tasks -> {"idle", "retry", "copy"}]
    BY <1>1, PipeAssumption DEF IInv, TypeOK, Tasks
  <2>2. ASSUME NEW r \in Readers, ReaderStep(r) \/ \E n \in 1..MaxLen : Read(r, n)
        PROVE  FALSE
    <3>1. r \in Tasks /\ r # w
      BY <2>1, SMTT(40) DEF Tasks
    <3>2. pc'[w] = pc[w]
      BY <2>1, <2>2, <3>1 DEF ReaderStep, Read, ReadRound, ReadByte
    <3> QED BY <1>1, <3>2
  <2>3. ASSUME NEW v \in Writers, WriterStep(v) \/ \E n \in 1..MaxLen : Write(v, n)
        PROVE  left[w] = 0 \/ ~ReadEnd
    <3>1. v \in Tasks
      BY DEF Tasks
    <3>2. CASE v # w
      <4>1. pc'[w] = pc[w]
        BY <2>1, <2>3, <3>1, <3>2 DEF WriterStep, Write, WriteRound, WriteByte, WriteDone
      <4> QED BY <1>1, <4>1
    <3>3. CASE v = w
      BY <1>1, <2>1, <2>3, <3>3 DEF WriterStep, Write, WriteRound, WriteByte, WriteDone
    <3> QED BY <3>2, <3>3
  <2>4. (\E end \in open : Close(end)) \/ Finished \/ UNCHANGED vars => pc' = pc
    BY DEF Close, Finished, vars
  <2> QED BY <1>1, <2>2, <2>3, <2>4 DEF Next
<1>2. IInv /\ [Next]_vars =>
        [\A w \in Writers : pc[w] # "idle" /\ pc'[w] = "idle" => left[w] = 0 \/ ~ReadEnd]_vars
  BY <1>1
<1> QED BY <1>2, PipeInvariant, PTL DEF Spec, WriteComplete

\* What the run of the threads checks of the calls on a pipe: end of file only at the
\* end, and no write that stops short while somebody reads.
THEOREM PipeCalls == Spec => PipeCallsKept
BY PipeEofAtEnd, PipeWriteComplete DEF PipeCallsKept
=============================================================================
