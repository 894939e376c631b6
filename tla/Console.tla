------------------------------- MODULE Console ------------------------------
(***************************************************************************)
(* The console: the UART driver, the standard streams of the kernel's      *)
(* file layer, libc's puts() and the kernel log on the output side; the    *)
(* UART's receive queue, the raw reader, its buffer and the blocking read  *)
(* of standard input on the input side.                                    *)
(*                                                                         *)
(* A writer runs the sequence of lock operations and device writes its     *)
(* call performs; a reader's call holds the mutex of standard input.       *)
(***************************************************************************)
EXTENDS Integers, Sequences, FiniteSets, SequencesExt

CONSTANTS
    LogWriters, PutsWriters, StdoutWriters,  \* tasks that print, by the way they do it
    ConReaders,   \* tasks that read standard input
    BUF_SIZE,     \* capacity of the BufReader
    ReadSizes,    \* buffer lengths given to read()
    MaxKeys,      \* bound: keys typed
    NoTask

VARIABLES
    prog,     \* writer -> lock operations and device writes still to do
    lockOwner,    \* lock -> task or NoTask
    shown,    \* what the UART transmitted: pairs of writer and byte
    typed, fifo,       \* keys typed, and those still in the UART
    rbuf, raw, asked,  \* BufReader's bytes; bytes and capacity of the raw read under way
    conPc, conWant, got  \* stage and size of each read; bytes handed to callers, in order

outVars == <<prog, lockOwner, shown>>
inVars == <<typed, fifo, rbuf, raw, asked, conPc, conWant, got>>
conVars == <<prog, lockOwner, shown, typed, fifo, rbuf, raw, asked, conPc, conWant, got>>

Writers == LogWriters \cup PutsWriters \cup StdoutWriters
Locks == {"uart", "stdout", "puts", "log"}

-----------------------------------------------------------------------------
(* Output.                                                                 *)

Guarded(l, ops) == <<<<"lock", l>>>> \o ops \o <<<<"unlock", l>>>>

(* putchar(): a line feed goes out behind a carriage return, under the     *)
(* UART's lock.                                                            *)
Putchar(c) == Guarded("uart", IF c = "nl" THEN <<<<"dev", "cr">>, <<"dev", "nl">>>>
                              ELSE <<<<"dev", c>>>>)

(* write_bytes(): one putchar() for each byte.                             *)
WriteBytes(s) == FlattenSeq([i \in 1..Len(s) |-> Putchar(s[i])])

(* Stdout::write().                                                        *)
StdoutWrite(s) == Guarded("stdout", WriteBytes(s))

(* puts(): the string and the line feed in two write() calls, between a    *)
(* lock and an unlock of its own mutex.                                    *)
Puts(w) == Guarded("puts", StdoutWrite(<<"text">>) \o StdoutWrite(<<"nl">>))

(* A log record: the CPU, the task and the time are read, then the pieces  *)
(* of the formatted line are written under the log's lock.                 *)
PrintFmt(pieces) == Guarded("log", FlattenSeq([i \in 1..Len(pieces) |-> WriteBytes(pieces[i])]))

Log(w) == PrintFmt(<<<<"text">>, <<"nl">>>>)

Program(w) == IF w \in LogWriters THEN Log(w)
              ELSE IF w \in PutsWriters THEN Puts(w)
              ELSE StdoutWrite(<<"text", "nl">>)

OutInit ==
    /\ prog = [w \in Writers |-> Program(w)]
    /\ lockOwner = [l \in Locks |-> NoTask]
    /\ shown = <<>>

OutStep(w) ==
    /\ prog[w] # <<>>
    /\ LET op == Head(prog[w])
       IN  \/ /\ op[1] = "lock" /\ lockOwner[op[2]] = NoTask
              /\ lockOwner' = [lockOwner EXCEPT ![op[2]] = w] /\ UNCHANGED shown
           \/ /\ op[1] = "unlock"
              /\ lockOwner' = [lockOwner EXCEPT ![op[2]] = NoTask] /\ UNCHANGED shown
           \/ /\ op[1] = "dev"
              /\ shown' = Append(shown, <<w, op[2]>>) /\ UNCHANGED lockOwner
    /\ prog' = [prog EXCEPT ![w] = Tail(@)]
    /\ UNCHANGED inVars

-----------------------------------------------------------------------------
(* Input.                                                                  *)

InInit ==
    /\ typed = <<>> /\ fifo = <<>> /\ rbuf = <<>> /\ raw = <<>> /\ asked = 0
    /\ conPc = [t \in ConReaders |-> "out"]
    /\ conWant = [t \in ConReaders |-> 0]
    /\ got = <<>>

Key(c) ==
    /\ Len(typed) < MaxKeys
    /\ typed' = Append(typed, c) /\ fifo' = Append(fifo, c)
    /\ UNCHANGED <<rbuf, raw, asked, conPc, conWant, got, outVars>>

ReadCall(t, n) ==
    /\ conPc[t] = "out"
    /\ conPc' = [conPc EXCEPT ![t] = "first"]
    /\ conWant' = [conWant EXCEPT ![t] = n]
    /\ UNCHANGED <<typed, fifo, rbuf, raw, asked, got, outVars>>

InUse == \E t \in ConReaders : conPc[t] \in {"raw1", "rawN"}

(* read_blocked() takes the mutex and calls BufReader::read(): an empty    *)
(* buffer is refilled, or bypassed by a read at least as large as it.      *)
ReadLocked(t) ==
    /\ conPc[t] \in {"first", "again"}
    /\ ~InUse
    /\ conPc' = [conPc EXCEPT ![t] = IF @ = "first" THEN "raw1" ELSE "rawN"]
    /\ raw' = <<>>
    /\ asked' = IF rbuf # <<>> THEN 0
                ELSE IF conWant[t] >= BUF_SIZE THEN conWant[t] ELSE BUF_SIZE
    /\ UNCHANGED <<typed, fifo, rbuf, conWant, got, outVars>>

(* console_read_bytes() turns a carriage return into a line feed.          *)
ConsoleByte(c) == IF c = "cr" THEN "nl" ELSE c

(* getchar() in the loops of read_bytes() and StdinRaw::read().            *)
Getchar(t) ==
    /\ conPc[t] \in {"raw1", "rawN"}
    /\ Len(raw) < asked /\ fifo # <<>>
    /\ raw' = Append(raw, ConsoleByte(Head(fifo)))
    /\ fifo' = Tail(fifo)
    /\ UNCHANGED <<typed, rbuf, asked, conPc, conWant, got, outVars>>

MutReadEnd(t) ==
    /\ conPc[t] \in {"raw1", "rawN"}
    /\ Len(raw) = asked \/ fifo = <<>>
    /\ LET held == rbuf \o raw
           n == IF Len(held) < conWant[t] THEN Len(held) ELSE conWant[t]
       IN  /\ got' = got \o SubSeq(held, 1, n)
           /\ rbuf' = IF conWant[t] < BUF_SIZE THEN <<>> ELSE SubSeq(held, n + 1, Len(held))
           /\ conPc' = [conPc EXCEPT ![t] = IF n > 0 \/ (@ = "raw1" /\ conWant[t] = 0) THEN "out"
                                            ELSE "again"]
    /\ raw' = <<>> /\ asked' = 0
    /\ UNCHANGED <<typed, fifo, conWant, outVars>>

(* The raw read ends with its buffer full or the UART empty; the caller    *)
(* gets a prefix of what there is, and the rest stays buffered.  A read    *)
(* that found nothing gives up the mutex, yields and tries again, except   *)
(* that the first attempt returns when no byte was asked for.              *)
ReadEnd(t) ==
    /\ conPc[t] \in {"raw1", "rawN"}
    /\ Len(raw) = asked \/ fifo = <<>>
    /\ LET held == rbuf \o raw
           n == IF Len(held) < conWant[t] THEN Len(held) ELSE conWant[t]
       IN  /\ got' = got \o SubSeq(held, 1, n)
           /\ rbuf' = SubSeq(held, n + 1, Len(held))
           /\ conPc' = [conPc EXCEPT ![t] = IF n > 0 \/ (@ = "raw1" /\ conWant[t] = 0) THEN "out"
                                            ELSE "again"]
    /\ raw' = <<>> /\ asked' = 0
    /\ UNCHANGED <<typed, fifo, conWant, outVars>>

ReaderStep(t) == ReadLocked(t) \/ Getchar(t) \/ ReadEnd(t)

ConInit == OutInit /\ InInit

OutNext == \E w \in Writers : OutStep(w)

InNext ==
    \/ \E c \in {"a", "cr"} : Key(c)
    \/ \E t \in ConReaders : ReaderStep(t) \/ \E n \in ReadSizes : ReadCall(t, n)

ConNext == OutNext \/ InNext

ConSpec == ConInit /\ [][ConNext]_conVars

-----------------------------------------------------------------------------

(* What a group of writers sharing a lock printed comes out call by call.  *)
Whole(group) ==
    \A i, j, k \in 1..Len(shown) :
        (i < j /\ j < k /\ shown[i][1] = shown[k][1]
         /\ {shown[i][1], shown[j][1]} \subseteq group) => shown[j][1] = shown[i][1]

(* A carriage return is followed at once by its line feed; the bytes of a  *)
(* log record are not cut by another record, nor a line of puts() by       *)
(* another puts(), whatever else is printed at the same time.              *)
LinesWhole ==
    /\ \A i \in 1..(Len(shown) - 1) : shown[i][2] = "cr" => shown[i + 1] = <<shown[i][1], "nl">>
    /\ Whole(LogWriters)
    /\ Whole(PutsWriters)

(* The bytes read from standard input are the keys typed, each once, in    *)
(* order, with carriage returns turned into line feeds, however the reads  *)
(* of several tasks and the typing interleave.                             *)
InputInOrder ==
    got \o rbuf \o raw \o [i \in 1..Len(fifo) |-> ConsoleByte(fifo[i])]
        = [i \in 1..Len(typed) |-> ConsoleByte(typed[i])]

=============================================================================
