------------------------------- MODULE Futex -------------------------------
(***************************************************************************)
(* Futexes of one process: sys_futex on the table of wait queues of        *)
(* core/src/futex.rs, and the wakeup that do_exit makes at the thread's    *)
(* clear_child_tid.  The table's mutex and the queues' locks make each     *)
(* lookup and each queue operation one step; between two of them the other *)
(* threads run.                                                            *)
(*                                                                         *)
(* th[t].pc: idle        in user space, or between system calls            *)
(*   lookup, enter, asleep, expired   FUTEX_WAIT                           *)
(*   rq_lookup, drain, extend     FUTEX_REQUEUE                            *)
(*   waking                       notify_one in a loop                     *)
(*   drop                         dropping the guards before returning     *)
(*   clear, exited                do_exit                                  *)
(***************************************************************************)
EXTENDS Integers, Sequences, FiniteSets

CONSTANTS Threads, Addrs, NoAddr,
          ClearChildTid,  \* ClearChildTid[t]: an address, or NoAddr
          MaxQueues,      \* bound on the wait queues ever made
          MaxCount,       \* bound on the counts passed to wake and requeue
          MaxRequeues     \* bound on the calls of requeue

ASSUME FutexAssumption ==
    /\ NoAddr \notin Addrs /\ ClearChildTid \in [Threads -> Addrs \cup {NoAddr}]
    /\ MaxQueues \in Nat /\ MaxCount \in Nat /\ MaxRequeues \in Nat

VARIABLES
    word,      \* the futex words in user memory, 0 or 1
    table,     \* FutexTable: the wait queue of an address, or 0
    queue,     \* the wait queues
    queues,    \* the number of wait queues made
    requeues,  \* the number of calls of requeue
    th         \* threads: position and locals of the system call

fxVars == <<word, table, queue, queues, requeues, th>>

\* wq and wq2 are the guards that the call holds; left the wakeups still to be
\* made; count what requeue may move; moved what it is moving.
NewThread == [pc |-> "idle", addr |-> NoAddr, addr2 |-> NoAddr, wq |-> 0, wq2 |-> 0,
              left |-> 0, count |-> 0, moved |-> <<>>, timed |-> FALSE,
              exiting |-> FALSE]

FxInit ==
    /\ word \in [Addrs -> {1}]
    /\ table = [a \in Addrs |-> 0]
    /\ queue = [q \in 1..MaxQueues |-> <<>>]
    /\ queues = 0 /\ requeues = 0
    /\ th = [t \in Threads |-> NewThread]

At(t, pc) == th[t].pc = pc

\* get_or_insert: the queue of a, made if there is none, as guard field g of t,
\* which goes on at pc.
GetOrInsert(t, a, g, pc) ==
    IF table[a] # 0
    THEN /\ th' = [th EXCEPT ![t][g] = table[a], ![t].pc = pc]
         /\ UNCHANGED <<table, queues>>
    ELSE /\ queues < MaxQueues
         /\ queues' = queues + 1
         /\ table' = [table EXCEPT ![a] = queues']
         /\ th' = [th EXCEPT ![t][g] = queues', ![t].pc = pc]

\* Arc::strong_count of a queue: its entries in the table and its guards.
StrongCount(q) == Cardinality({a \in Addrs : table[a] = q})
                  + Cardinality({t \in Threads : th[t].wq = q})
                  + Cardinality({t \in Threads : th[t].wq2 = q})
-----------------------------------------------------------------------------
(* FUTEX_WAIT: compare, look up, sleep.  The callers wait while the word is *)
(* 1 (a lock that is taken, the id of a running thread); 0 gives EAGAIN.    *)
(* Only the kernel's store on exit matters below; user code makes none.     *)

FutexWait(t, a) ==
    /\ At(t, "idle")
    /\ word[a] = 1
    /\ th' = [th EXCEPT ![t].pc = "lookup", ![t].addr = a]
    /\ UNCHANGED <<word, table, queue, queues, requeues>>

WaitLookup(t) ==
    /\ At(t, "lookup")
    /\ GetOrInsert(t, th[t].addr, "wq", "enter")
    /\ UNCHANGED <<word, queue, requeues>>

WaitEnter(t, timed) ==
    /\ At(t, "enter")
    /\ queue' = [queue EXCEPT ![th[t].wq] = Append(@, t)]
    /\ th' = [th EXCEPT ![t].pc = "asleep", ![t].timed = timed]
    /\ UNCHANGED <<word, table, queues, requeues>>

\* The alarm of wait_timeout goes off and unblocks the thread.
TimeOut(t) ==
    /\ At(t, "asleep") /\ th[t].timed
    /\ th' = [th EXCEPT ![t].pc = "expired", ![t].timed = FALSE]
    /\ UNCHANGED <<word, table, queue, queues, requeues>>

\* cancel_events: still marked as waiting, the thread removes itself from the
\* queue that it went to sleep in.
FxCancelEvents(t) ==
    /\ At(t, "expired")
    /\ queue' = [queue EXCEPT ![th[t].wq] = SelectSeq(@, LAMBDA u : u # t)]
    /\ th' = [th EXCEPT ![t].pc = "drop"]
    /\ UNCHANGED <<word, table, queues, requeues>>
-----------------------------------------------------------------------------
(* FUTEX_WAKE; with no queue for the address it returns 0.                 *)

FutexWake(t, a, n) ==
    /\ At(t, "idle")
    /\ table[a] # 0
    /\ th' = [th EXCEPT ![t].pc = "waking", ![t].addr = a, ![t].wq = table[a],
                        ![t].left = n, ![t].count = 0]
    /\ UNCHANGED <<word, table, queue, queues, requeues>>

\* th after notify_one popped u: u is not marked as waiting any more, and is woken
\* if it is asleep.
Woken(u) == IF th[u].pc \in {"asleep", "expired"} THEN [th EXCEPT ![u].pc = "drop", ![u].timed = FALSE] ELSE th

FxNotifyOne(t) ==
    LET q == th[t].wq IN
    /\ At(t, "waking") /\ th[t].left > 0
    /\ queue[q] # <<>>
    /\ queue' = [queue EXCEPT ![q] = Tail(@)]
    /\ th' = [Woken(Head(queue[q])) EXCEPT ![t].left = @ - 1]
    /\ UNCHANGED <<word, table, queues, requeues>>

\* The loop ends; requeue goes on if it made all its wakeups.
NotifyEnd(t) ==
    /\ At(t, "waking")
    /\ th[t].left = 0 \/ queue[th[t].wq] = <<>>
    /\ th' = [th EXCEPT ![t].pc = IF th[t].left = 0 /\ th[t].wq2 # 0 THEN "drain" ELSE "drop",
                        ![t].left = 0]
    /\ UNCHANGED <<word, table, queue, queues, requeues>>
-----------------------------------------------------------------------------
(* FUTEX_REQUEUE; FUTEX_CMP_REQUEUE is the same call after a comparison.   *)

FutexRequeue(t, a, b, n, m) ==
    /\ At(t, "idle")
    /\ requeues < MaxRequeues /\ requeues' = requeues + 1
    /\ th' = [th EXCEPT ![t].pc = "rq_lookup", ![t].addr = a, ![t].addr2 = b,
                        ![t].wq = table[a], ![t].left = n, ![t].count = m]
    /\ UNCHANGED <<word, table, queue, queues>>

RequeueLookup(t) ==
    /\ At(t, "rq_lookup")
    /\ GetOrInsert(t, th[t].addr2, "wq2", IF th[t].wq = 0 THEN "drop" ELSE "waking")
    /\ UNCHANGED <<word, queue, requeues>>

FxRequeueDrain(t) ==
    LET q == queue[th[t].wq]
        n == IF th[t].count < Len(q) THEN th[t].count ELSE Len(q) IN
    /\ At(t, "drain")
    /\ th' = [th EXCEPT ![t].moved = SubSeq(q, 1, n), ![t].count = 0,
                        ![t].pc = "extend"]
    /\ queue' = [queue EXCEPT ![th[t].wq] = SubSeq(@, n + 1, Len(@))]
    /\ UNCHANGED <<word, table, queues, requeues>>

MutRequeueExtend(t) ==
    /\ At(t, "extend")
    /\ queue' = [queue EXCEPT ![th[t].wq2] = th[t].moved]
    /\ th' = [th EXCEPT ![t].moved = <<>>, ![t].pc = "drop"]
    /\ UNCHANGED <<word, table, queues, requeues>>

FxRequeueExtend(t) ==
    /\ At(t, "extend")
    /\ queue' = [queue EXCEPT ![th[t].wq2] = @ \o th[t].moved]
    /\ th' = [th EXCEPT ![t].moved = <<>>, ![t].pc = "drop"]
    /\ UNCHANGED <<word, table, queues, requeues>>
-----------------------------------------------------------------------------
\* t after it dropped guard g: the call returns with its last guard.
Dropped(t, g) ==
    IF th[t][IF g = "wq" THEN "wq2" ELSE "wq"] # 0 THEN [th[t] EXCEPT ![g] = 0]
    ELSE [NewThread EXCEPT !.pc = IF th[t].exiting THEN "exited" ELSE "idle"]

\* WaitQueueGuard::drop, for wq and then for wq2.
DropGuard(t) ==
    LET g == IF th[t].wq # 0 THEN "wq" ELSE "wq2"
        key == IF g = "wq" THEN th[t].addr ELSE th[t].addr2 IN
    /\ At(t, "drop")
    /\ table' = IF StrongCount(th[t][g]) = 1 /\ queue[th[t][g]] = <<>>
                THEN [table EXCEPT ![key] = 0] ELSE table
    /\ th' = [th EXCEPT ![t] = Dropped(t, g)]
    /\ UNCHANGED <<word, queue, queues, requeues>>
-----------------------------------------------------------------------------
(* do_exit: the word at clear_child_tid is cleared and one waiter is woken. *)

ExitClear(t) ==
    /\ At(t, "idle") /\ ClearChildTid[t] # NoAddr
    /\ word' = [word EXCEPT ![ClearChildTid[t]] = 0]
    /\ th' = [th EXCEPT ![t].pc = "clear", ![t].addr = ClearChildTid[t], ![t].exiting = TRUE]
    /\ UNCHANGED <<table, queue, queues, requeues>>

ExitLookup(t) ==
    LET q == table[ClearChildTid[t]] IN
    /\ At(t, "clear")
    /\ th' = [th EXCEPT ![t] = IF q = 0 THEN [NewThread EXCEPT !.pc = "exited"]
                               ELSE [@ EXCEPT !.pc = "waking", !.wq = q, !.left = 1]]
    /\ UNCHANGED <<word, table, queue, queues, requeues>>
-----------------------------------------------------------------------------
FxNext == \E t \in Threads :
    \/ \E a \in Addrs : FutexWait(t, a)
    \/ WaitLookup(t)
    \/ \E timed \in BOOLEAN : WaitEnter(t, timed)
    \/ TimeOut(t) \/ FxCancelEvents(t)
    \/ \E a \in Addrs, n \in 1..MaxCount : FutexWake(t, a, n)
    \/ FxNotifyOne(t) \/ NotifyEnd(t)
    \/ \E a, b \in Addrs, n, m \in 0..MaxCount : FutexRequeue(t, a, b, n, m)
    \/ RequeueLookup(t) \/ FxRequeueDrain(t) \/ FxRequeueExtend(t)
    \/ DropGuard(t)
    \/ ExitClear(t) \/ ExitLookup(t)

FxSpec == FxInit /\ [][FxNext]_fxVars
-----------------------------------------------------------------------------
\* The table, the queues and the locals of sys_futex keep their types; a count
\* of wakeups never goes below zero.
FxTypeOK ==
    /\ word \in [Addrs -> {0, 1}]
    /\ queues \in 0..MaxQueues
    /\ table \in [Addrs -> 0..queues]
    /\ \A q \in 1..MaxQueues : \A i \in DOMAIN queue[q] : queue[q][i] \in Threads
    /\ \A t \in Threads :
        /\ th[t].pc \in {"idle", "lookup", "enter", "asleep", "expired", "rq_lookup", "drain", "extend",
                         "waking", "drop", "clear", "exited"}
        /\ th[t].wq \in 0..queues /\ th[t].wq2 \in 0..queues
        /\ th[t].left \in Nat /\ th[t].count \in Nat

\* The queue in which FUTEX_WAIT is about to sleep is the one that a FUTEX_WAKE
\* of the same address looks up, and so is the one to which requeue moves its
\* waiters: dropping a guard (WaitQueueGuard::drop) never unhooks a queue that a
\* call between its lookup and its use still holds.
GuardedQueueListed ==
    \A t \in Threads :
        /\ At(t, "enter") => table[th[t].addr] = th[t].wq
        /\ th[t].pc \in {"drain", "extend"} => table[th[t].addr2] = th[t].wq2

Queued(t, q) == \E i \in DOMAIN queue[q] : queue[q][i] = t

\* A thread asleep in FUTEX_WAIT stays within reach of a wakeup: it is in a queue
\* that the table still lists for some address, or in the hands of a requeue that
\* is about to put it in one.
SleepersReachable ==
    \A t \in Threads : At(t, "asleep") =>
        \/ \E a \in Addrs : table[a] # 0 /\ Queued(t, table[a])
        \/ \E u \in Threads : /\ \E i \in DOMAIN th[u].moved : th[u].moved[i] = t
                               /\ table[th[u].addr2] = th[u].wq2

\* As long as no waiter has been requeued, a wakeup is never spent on a thread that
\* waits no more: every entry of a queue is a thread that has gone to sleep in
\* that queue and has not returned, once, however timeouts and wakeups interleave.
EntriesWait ==
    requeues = 0 =>
        \A q \in 1..MaxQueues : \A i, j \in DOMAIN queue[q] :
            /\ th[queue[q][i]].pc \in {"asleep", "expired"} /\ th[queue[q][i]].wq = q
            /\ i # j => queue[q][i] # queue[q][j]

\* "Clear (zero) the child thread ID in child memory when the child exits, and do
\* a wakeup on the futex at that address": when a thread has exited, no thread
\* that saw its word set is asleep at the address (a join by FUTEX_WAIT returns).
ClearTidWakes ==
    \A t, j \in Threads :
        At(t, "exited") /\ At(j, "asleep") /\ ~th[j].timed => th[j].addr # ClearChildTid[t]

\* A thread that sleeps on a futex is in the queue that the next wake of its word
\* looks at: the queue stays in the table while somebody holds it, and holds
\* threads that wait and no other (futex.rs).
FutexKept == FxTypeOK /\ SleepersReachable /\ GuardedQueueListed /\ EntriesWait
=============================================================================
