------------------------------ MODULE FdTable -------------------------------
(***************************************************************************)
(* The file descriptor tables of api/src/file/mod.rs: one table per        *)
(* process, kept in the process's axns namespace and copied or shared by   *)
(* clone, and the calls that work on it (api/src/imp/fs/fd_ops.rs and      *)
(* pipe.rs).  Each access to the table is one critical section of its      *)
(* lock; between two of them a call holds what it cloned out of the table. *)
(*                                                                         *)
(* An open file is a number, given once: the n-th object created.  What a  *)
(* pipe reads as "the other end is closed" is that nothing refers to it.   *)
(*                                                                         *)
(* The second part is the calls of api/src/imp/fs/io.rs that are made of   *)
(* several transfers.                                                      *)
(***************************************************************************)
EXTENDS Integers, FiniteSets, Sequences, SequencesExt

CONSTANTS FdProcs, FdThreads,
          AX_FILE_LIMIT,
          FdNone,
          MaxObjects \* bound on the open files created in a behaviour

Fds == 0..(AX_FILE_LIMIT - 1)

VARIABLES
    table,   \* table[x][fd]: the contents of the FlattenObjects x
    nsOf,    \* nsOf[p]: the table the namespace of process p refers to
    procOf,  \* procOf[t]: the process of thread t, FdNone before and after its life
    fdpc,    \* where thread t is in its call
    held,    \* held[t]: the objects the call of t has a reference to
    readFd,  \* readFd[t]: the local read_fd of sys_pipe2
    objects, \* open files created so far
    panicked

fdVars == <<table, nsOf, procOf, fdpc, held, readFd, objects, panicked>>

\* FlattenObjects::add takes the lowest free place and fails when there is none.
FreeFds(x) == {fd \in Fds : table[x][fd] = FdNone}
LowestFree(x) == CHOOSE fd \in FreeFds(x) : \A g \in FreeFds(x) : fd <= g

EmptyTable == [fd \in Fds |-> FdNone]
FdRunning(t) == procOf[t] # FdNone /\ fdpc[t] = "user" /\ ~panicked
MyTable(t) == nsOf[procOf[t]]
Siblings(p) == {t \in FdThreads : procOf[t] = p}

\* init_stdio, and the first process's copy of the kernel's table.
FdInit ==
    \E p \in FdProcs, t \in FdThreads :
        /\ table = [x \in FdProcs |-> IF x = p THEN [EmptyTable EXCEPT ![0] = 1] ELSE EmptyTable]
        /\ nsOf = [q \in FdProcs |-> IF q = p THEN p ELSE FdNone]
        /\ procOf = [u \in FdThreads |-> IF u = t THEN p ELSE FdNone]
        /\ fdpc = [u \in FdThreads |-> "user"]
        /\ held = [u \in FdThreads |-> {}]
        /\ readFd = [u \in FdThreads |-> FdNone]
        /\ objects = 1 /\ panicked = FALSE
-----------------------------------------------------------------------------
\* add_file_like of object o by thread t.
Added(t, o) == table' = [table EXCEPT ![MyTable(t)][LowestFree(MyTable(t))] = o]

\* sys_openat, once the file is open: with the table full the file is dropped.
FdOpen(t) ==
    /\ FdRunning(t) /\ objects < MaxObjects
    /\ FreeFds(MyTable(t)) # {}
    /\ objects' = objects + 1
    /\ Added(t, objects + 1)
    /\ UNCHANGED <<nsOf, procOf, fdpc, held, readFd, panicked>>

\* close_file_like.
FdClose(t, fd) ==
    /\ FdRunning(t)
    /\ table[MyTable(t)][fd] # FdNone
    /\ table' = [table EXCEPT ![MyTable(t)][fd] = FdNone]
    /\ UNCHANGED <<nsOf, procOf, fdpc, held, readFd, objects, panicked>>

\* get_file_like, of a dup or of a call that works on the file.
FdGet(t, fd, call) ==
    /\ FdRunning(t)
    /\ table[MyTable(t)][fd] # FdNone
    /\ held' = [held EXCEPT ![t] = {table[MyTable(t)][fd]}]
    /\ fdpc' = [fdpc EXCEPT ![t] = call]
    /\ UNCHANGED <<table, nsOf, procOf, readFd, objects, panicked>>

\* A read, write or stat returns and drops its reference.
FdUsed(t) ==
    /\ fdpc[t] = "use" /\ ~panicked
    /\ held' = [held EXCEPT ![t] = {}]
    /\ fdpc' = [fdpc EXCEPT ![t] = "user"]
    /\ UNCHANGED <<table, nsOf, procOf, readFd, objects, panicked>>

\* The second half of dup_fd, in a critical section of its own.
FdDupAdd(t) ==
    /\ fdpc[t] = "dup" /\ ~panicked
    /\ IF FreeFds(MyTable(t)) # {} THEN \E o \in held[t] : Added(t, o) ELSE UNCHANGED table
    /\ held' = [held EXCEPT ![t] = {}]
    /\ fdpc' = [fdpc EXCEPT ![t] = "user"]
    /\ UNCHANGED <<nsOf, procOf, readFd, objects, panicked>>

\* sys_dup2, one critical section; a new_fd the table has no place for panics.
FdDup2(t, old, new) ==
    /\ FdRunning(t)
    /\ table[MyTable(t)][old] # FdNone /\ old # new
    /\ IF new \in Fds
       THEN /\ table' = [table EXCEPT ![MyTable(t)][new] = table[MyTable(t)][old]]
            /\ UNCHANGED panicked
       ELSE panicked' = TRUE /\ UNCHANGED table
    /\ UNCHANGED <<nsOf, procOf, fdpc, held, readFd, objects>>

\* sys_pipe2 up to the first add_to_fd_table, which fails with the table full.
FdPipe(t) ==
    /\ FdRunning(t) /\ objects + 2 <= MaxObjects
    /\ FreeFds(MyTable(t)) # {}
    /\ objects' = objects + 2
    /\ readFd' = [readFd EXCEPT ![t] = LowestFree(MyTable(t))]
    /\ Added(t, objects + 1)
    /\ held' = [held EXCEPT ![t] = {objects + 2}]
    /\ fdpc' = [fdpc EXCEPT ![t] = "pipe"]
    /\ UNCHANGED <<nsOf, procOf, panicked>>

\* ... the second one; if it fails the first descriptor is to be closed ...
FdPipeAdd(t) ==
    /\ fdpc[t] = "pipe" /\ ~panicked
    /\ held' = [held EXCEPT ![t] = {}]
    /\ \/ /\ FreeFds(MyTable(t)) # {}
          /\ \E o \in held[t] : Added(t, o)
          /\ fdpc' = [fdpc EXCEPT ![t] = "user"]
          /\ readFd' = [readFd EXCEPT ![t] = FdNone]
       \/ /\ FreeFds(MyTable(t)) = {}
          /\ fdpc' = [fdpc EXCEPT ![t] = "undo"]
          /\ UNCHANGED <<table, readFd>>
    /\ UNCHANGED <<nsOf, procOf, objects, panicked>>

\* ... whatever it refers to by then; if nothing, the unwrap panics.
FdPipeUndo(t) ==
    /\ fdpc[t] = "undo" /\ ~panicked
    /\ panicked' = (table[MyTable(t)][readFd[t]] = FdNone)
    /\ table' = [table EXCEPT ![MyTable(t)][readFd[t]] = FdNone]
    /\ fdpc' = [fdpc EXCEPT ![t] = "user"]
    /\ readFd' = [readFd EXCEPT ![t] = FdNone]
    /\ UNCHANGED <<nsOf, procOf, held, objects>>
-----------------------------------------------------------------------------
\* sys_clone with CLONE_THREAD.
FdCloneThread(t, u) ==
    /\ FdRunning(t) /\ procOf[u] = FdNone /\ fdpc[u] = "user"
    /\ procOf' = [procOf EXCEPT ![u] = procOf[t]]
    /\ UNCHANGED <<table, nsOf, fdpc, held, readFd, objects, panicked>>

\* The ResArc of the new namespace: init_shared(FD_TABLE.share()) or init_new().
ResArc(t, q, share) == IF share THEN MyTable(t) ELSE q

\* copy_inner, under the lock.
CopyInner(t) == table[MyTable(t)]

\* sys_clone of a process: the table is shared with CLONE_FILES, else copied.
FdCloneProcess(t, u, q, share) ==
    /\ FdRunning(t) /\ procOf[u] = FdNone /\ fdpc[u] = "user" /\ nsOf[q] = FdNone
    /\ procOf' = [procOf EXCEPT ![u] = q]
    /\ nsOf' = [nsOf EXCEPT ![q] = ResArc(t, q, share)]
    /\ table' = IF share THEN table ELSE [table EXCEPT ![q] = CopyInner(t)]
    /\ UNCHANGED <<fdpc, held, readFd, objects, panicked>>

MutExit(t) ==
    /\ FdRunning(t)
    /\ fdpc' = [fdpc EXCEPT ![t] = "gone"]
    /\ procOf' = [procOf EXCEPT ![t] = FdNone]
    /\ UNCHANGED <<table, nsOf, held, readFd, objects, panicked>>

\* do_exit.  The last thread of a process is to clear the table; dropping the
\* namespace frees its memory and drops no resource.
FdExit(t) ==
    /\ FdRunning(t)
    /\ IF Siblings(procOf[t]) = {t}
       THEN fdpc' = [fdpc EXCEPT ![t] = "exiting"] /\ UNCHANGED procOf
       ELSE /\ fdpc' = [fdpc EXCEPT ![t] = "gone"]
            /\ procOf' = [procOf EXCEPT ![t] = FdNone]
    /\ UNCHANGED <<table, nsOf, held, readFd, objects, panicked>>

\* FD_TABLE.clear(), whoever shares the table.
FdClear(t) ==
    /\ fdpc[t] = "exiting" /\ ~panicked
    /\ table' = [table EXCEPT ![MyTable(t)] = EmptyTable]
    /\ fdpc' = [fdpc EXCEPT ![t] = "gone"]
    /\ procOf' = [procOf EXCEPT ![t] = FdNone]
    /\ UNCHANGED <<nsOf, held, readFd, objects, panicked>>

FdNext ==
    \E t \in FdThreads :
        \/ FdOpen(t) \/ FdUsed(t) \/ FdDupAdd(t) \/ FdPipe(t) \/ FdPipeAdd(t) \/ FdPipeUndo(t)
        \/ FdExit(t) \/ FdClear(t)
        \/ \E fd \in Fds : FdClose(t, fd)
        \/ \E fd \in Fds, call \in {"use", "dup"} : FdGet(t, fd, call)
        \/ \E old \in Fds, new \in Fds \cup {AX_FILE_LIMIT} : FdDup2(t, old, new)
        \/ \E u \in FdThreads : FdCloneThread(t, u)
        \/ \E u \in FdThreads, q \in FdProcs, share \in BOOLEAN : FdCloneProcess(t, u, q, share)

FdSpec == FdInit /\ [][FdNext]_fdVars
-----------------------------------------------------------------------------
\* The reference count of an open file is not zero: what Pipe::closed() asks
\* of the other end.
Referred(o) ==
    \/ \E x \in FdProcs, fd \in Fds : table[x][fd] = o
    \/ \E t \in FdThreads : o \in held[t]

\* Nothing is leaked by an exit: every table that still has entries belongs to
\* a process that has a thread left.  Without it a reader would never see the
\* end of file of a pipe whose writers have all exited.
ExitReleases ==
    \A x \in FdProcs, fd \in Fds : table[x][fd] # FdNone =>
        \E t \in FdThreads : procOf[t] # FdNone /\ MyTable(t) = x

\* An open file that has been closed everywhere never comes back: an end of
\* file, once a reader has seen it, is final, in spite of the calls that were
\* in the middle of duplicating or using the descriptor.
ClosedStays == \A o \in 1..objects : ~Referred(o) => ~(Referred(o))'
ClosedIsFinal == [][ClosedStays]_fdVars
-----------------------------------------------------------------------------
(* sys_readv, sys_writev and sys_sendfile.  A transfer moves as many bytes *)
(* as the file will take or give at the time, or fails; sys_readv and      *)
(* sys_writev look their descriptor up anew for every buffer, while other  *)
(* threads close or replace it and move the cursor of the source.          *)
(*                                                                         *)
(* Bytes are numbered: of the buffers of a vector from 1 on, of a file by  *)
(* their place in it.                                                      *)

CONSTANTS IovLens,  \* the lengths of the buffers of a vector, a set of sequences
          Chunk,    \* the size of the buffer of do_sendfile
          SrcLen,   \* the bytes of the source file
          IoFiles, NoFile,
          MaxCursor \* bound on the cursor others move the source to

VARIABLES
    fdFile,  \* the file the descriptor refers to
    cursor,  \* the cursor of the source file of sendfile
    iopc,    \* where the call is
    iov,     \* the lengths of the call's buffers
    index,   \* the buffer it is at
    off,     \* the offset the caller of sys_sendfile gave, -1 if none
    pending, \* the bytes do_sendfile has read and not written
    ret,     \* the count so far; after a return, the result, -1 for an error
    moved,   \* history: the bytes the call has moved, in order
    first    \* history: the place of the source the call started at

ioVars == <<fdFile, cursor, iopc, iov, index, off, pending, ret, moved, first>>

IoInit ==
    /\ fdFile \in IoFiles /\ cursor = 1
    /\ iopc = "user" /\ iov = <<>> /\ index = 1 /\ off = -1
    /\ pending = <<>> /\ ret = 0 /\ moved = <<>> /\ first = 1

Numbers(from, n) == [i \in 1..n |-> from + i - 1]
SumTo(s, n) == FoldLeft(+, 0, SubSeq(s, 1, n))

\* sys_readv or sys_writev with these buffers.
IoVecStart(lens) ==
    /\ iopc = "user"
    /\ iopc' = "vec" /\ iov' = lens /\ index' = 1 /\ ret' = 0 /\ moved' = <<>>
    /\ UNCHANGED <<fdFile, cursor, off, pending, first>>

MutVecStep(n) ==
    /\ iopc = "vec" /\ index <= Len(iov) /\ iov[index] # 0 /\ fdFile # NoFile
    /\ n <= iov[index]
    /\ ret' = ret + n
    /\ moved' = moved \o Numbers(SumTo(iov, index - 1) + 1, n)
    /\ index' = index + 1
    /\ UNCHANGED <<fdFile, cursor, iopc, iov, off, pending, first>>

\* One buffer of the loop: the file moves n bytes; after a short transfer the
\* loop ends.
IoVecStep(n) ==
    /\ iopc = "vec" /\ index <= Len(iov) /\ iov[index] # 0 /\ fdFile # NoFile
    /\ n <= iov[index]
    /\ ret' = ret + n
    /\ moved' = moved \o Numbers(SumTo(iov, index - 1) + 1, n)
    /\ index' = IF n < iov[index] THEN Len(iov) + 1 ELSE index + 1
    /\ UNCHANGED <<fdFile, cursor, iopc, iov, off, pending, first>>

\* Empty buffers are skipped.
IoVecSkip ==
    /\ iopc = "vec" /\ index <= Len(iov) /\ iov[index] = 0
    /\ index' = index + 1
    /\ UNCHANGED <<fdFile, cursor, iopc, iov, off, pending, ret, moved, first>>

IoVecReturn ==
    /\ iopc = "vec" /\ index > Len(iov)
    /\ iopc' = "user"
    /\ UNCHANGED <<fdFile, cursor, iov, index, off, pending, ret, moved, first>>

\* A transfer fails, or the descriptor is closed: an error, whatever was moved.
IoFail ==
    /\ \/ iopc = "vec" /\ index <= Len(iov) /\ iov[index] # 0
       \/ iopc = "send"
    /\ iopc' = "user" /\ ret' = -1 /\ pending' = <<>>
    /\ UNCHANGED <<fdFile, cursor, iov, index, off, moved, first>>
-----------------------------------------------------------------------------
\* sys_sendfile, whose files are looked up once; with an offset the source is
\* read by read_at, which leaves its cursor alone.
IoSendStart(given) ==
    /\ iopc = "user" /\ fdFile # NoFile
    /\ iopc' = "send" /\ off' = given /\ ret' = 0 /\ moved' = <<>> /\ pending' = <<>>
    /\ first' = IF given # -1 THEN given ELSE cursor
    /\ UNCHANGED <<fdFile, cursor, iov, index>>

\* The read of one round of do_sendfile; nothing read ends the call.
IoSendRead ==
    /\ iopc = "send" /\ pending = <<>>
    /\ LET at == IF off # -1 THEN off ELSE cursor
           n == IF at + Chunk - 1 <= SrcLen THEN Chunk ELSE IF at <= SrcLen THEN SrcLen - at + 1 ELSE 0
       IN /\ pending' = Numbers(at, n)
          /\ IF off # -1 THEN off' = at + n /\ UNCHANGED cursor ELSE cursor' = at + n /\ UNCHANGED off
          /\ iopc' = IF n = 0 THEN "user" ELSE "send"
    /\ UNCHANGED <<fdFile, iov, index, ret, moved, first>>

\* Its write; a short one ends the call and is not counted.
IoSendWrite(n) ==
    /\ iopc = "send" /\ pending # <<>> /\ n <= Len(pending)
    /\ moved' = moved \o SubSeq(pending, 1, n)
    /\ ret' = IF n < Len(pending) THEN ret ELSE ret + n
    /\ iopc' = IF n < Len(pending) THEN "user" ELSE "send"
    /\ pending' = <<>>
    /\ UNCHANGED <<fdFile, cursor, iov, index, off, first>>

\* Another thread closes the descriptor or puts another file there.
IoReplace(f) ==
    /\ fdFile' = f
    /\ UNCHANGED <<cursor, iopc, iov, index, off, pending, ret, moved, first>>

\* Another thread moves the cursor of the source file (bound: during a call
\* only forwards, so that a call ends).
IoOtherSeek(pos) ==
    /\ iopc = "user" \/ pos > cursor
    /\ cursor' = pos
    /\ UNCHANGED <<fdFile, iopc, iov, index, off, pending, ret, moved, first>>

IoNext ==
    \/ \E lens \in IovLens : IoVecStart(lens)
    \/ \E n \in 0..SrcLen : IoVecStep(n) \/ IoSendWrite(n)
    \/ IoVecSkip \/ IoVecReturn \/ IoFail \/ IoSendRead
    \/ \E given \in {-1} \cup 1..SrcLen : IoSendStart(given)
    \/ \E f \in IoFiles \cup {NoFile} : IoReplace(f)
    \/ \E pos \in 1..MaxCursor : IoOtherSeek(pos)

IoSpec == IoInit /\ [][IoNext]_ioVars
-----------------------------------------------------------------------------
\* A call moves its bytes in order and without a gap, up to the place where it
\* stops: a vector from the start of its first buffer, whatever becomes of the
\* descriptor between two buffers, and sendfile with an offset from that offset,
\* whoever moves the cursor of the source.
MovedInOrder ==
    /\ iopc = "vec" => moved = Numbers(1, Len(moved))
    /\ iopc = "send" /\ off # -1 => moved = Numbers(first, Len(moved))
    /\ iopc = "vec" => ret = Len(moved)
=============================================================================
