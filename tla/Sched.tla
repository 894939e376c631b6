------------------------------- MODULE Sched -------------------------------
(***************************************************************************)
(* The axtask scheduler on several CPUs: per-CPU run queues and timer      *)
(* lists, wait queues, and the context switch with its on_cpu handshake.   *)
(* Built without "preempt", as StarryOS is: a task leaves its CPU only     *)
(* when it yields, blocks, sleeps, migrates or exits.                      *)
(*                                                                         *)
(* Phases of a CPU (cpu[c].pc):                                            *)
(*   run     executes its current task                                     *)
(*   push    in blocked_resched: Blocked, holding the wait queue's lock    *)
(*   pick    in resched, about to take the next task                       *)
(*   ctx     in switch_to, before the registers are exchanged              *)
(*   clear   after the exchange, before clear_prev_task_on_cpu             *)
(*   spin    in put_task_with_state, waiting for on_cpu of the woken task  *)
(* Where a task resumes (task[t].pc):                                      *)
(*   new       not spawned             cancel_to  in wait_timeout, after   *)
(*   run       between two calls                  reading in_wait_queue    *)
(*   waited    in wait                 slept      in sleep_until           *)
(*   waited_to in wait_timeout         requeue    between the two parts    *)
(*   migrate   in migrate_entry                   of requeue               *)
(***************************************************************************)
EXTENDS Naturals, Sequences

CONSTANTS CPUs, Tasks,
          Idle,      \* Idle[c]: the idle task of CPU c
          Migrator,  \* Migrator[c]: the migration task that CPU c spawns
          Main,      \* the task that boots on BootCPU
          BootCPU,
          Queues,    \* wait queues
          None,
          MaxTicket  \* bound on the timer tickets handed out

AllTasks == Tasks \cup {Idle[c] : c \in CPUs} \cup {Migrator[c] : c \in CPUs}

\* The tasks that axtask makes for itself are tasks of their own.
ASSUME SchedAssumption ==
    /\ Main \in Tasks /\ BootCPU \in CPUs /\ MaxTicket \in Nat
    /\ None \notin AllTasks \cup CPUs \cup Queues
    /\ \A c, d \in CPUs : /\ Idle[c] \notin Tasks /\ Migrator[c] \notin Tasks
                          /\ Idle[c] # Migrator[d]
                          /\ c # d => Idle[c] # Idle[d] /\ Migrator[c] # Migrator[d]

VARIABLES
    task,         \* TaskInner, with its saved registers and its position
    cpu,          \* per-CPU state
    wq, wq_lock,  \* the wait queues and their spin locks
    next_ticket   \* TIMER_TICKET_ID

vars == <<task, cpu, wq, wq_lock, next_ticket>>

\* A task as TaskInner::new makes it.  saved: its registers are in its
\* TaskContext; waitq and timeout are the locals of wait and wait_timeout;
\* moved the tasks that requeue or migrate_entry carries.
NewTask == [state |-> "Ready", on_cpu |-> FALSE, in_wait_queue |-> FALSE,
            cpumask |-> CPUs, timer_ticket |-> 0, saved |-> TRUE, pc |-> "new",
            waitq |-> None, timeout |-> FALSE, moved |-> <<>>]

\* The task that a CPU boots with (new_init).
BootTask == [NewTask EXCEPT !.state = "Running", !.on_cpu = TRUE, !.saved = FALSE,
                            !.pc = "run"]

NoWake == [task |-> None, cpu |-> None, lock |-> None]

\* init and init_secondary.
Init ==
    /\ task = [t \in AllTasks |->
                 IF t = Main \/ \E c \in CPUs \ {BootCPU} : t = Idle[c] THEN BootTask
                 ELSE IF t = Idle[BootCPU] THEN [NewTask EXCEPT !.pc = "run"]
                 ELSE IF t \in Tasks THEN NewTask
                 ELSE [NewTask EXCEPT !.pc = "migrate"]]
    /\ cpu = [c \in CPUs |->
                 [current |-> IF c = BootCPU THEN Main ELSE Idle[c], prev |-> None,
                  rq |-> <<>>, timers |-> {}, pc |-> "run", wake |-> NoWake]]
    /\ wq = [q \in Queues |-> <<>>]
    /\ wq_lock = [q \in Queues |-> None]
    /\ next_ticket = 1

\* CPU c executes its current task t, which is at position pc.
Executes(c, t, pc) == cpu[c].pc = "run" /\ cpu[c].current = t /\ task[t].pc = pc

\* CPU c executes an ordinary task between two calls: idle only yields.
Runs(c, t) == t \in Tasks /\ Executes(c, t, "run")
-----------------------------------------------------------------------------
(* Choosing the next task and switching to it.                             *)

\* yield_current: put_task_with_state(Running -> Ready), which queues every
\* task but idle, then resched.
YieldCurrent(c) ==
    LET t == cpu[c].current IN
    /\ Executes(c, t, "run")
    /\ task' = [task EXCEPT ![t].state = "Ready"]
    /\ cpu' = [cpu EXCEPT ![c].pc = "pick",
                          ![c].rq = IF t = Idle[c] THEN @ ELSE Append(@, t)]
    /\ UNCHANGED <<wq, wq_lock, next_ticket>>

\* resched: the first task of the run queue, or idle; then switch_to up to
\* the exchange of registers.
Resched(c) ==
    LET next == IF cpu[c].rq = <<>> THEN Idle[c] ELSE Head(cpu[c].rq)
        rest == IF cpu[c].rq = <<>> THEN <<>> ELSE Tail(cpu[c].rq) IN
    /\ cpu[c].pc = "pick"
    /\ task' = [task EXCEPT ![next].state = "Running", 
                            ![next].on_cpu = @ \/ next # cpu[c].current]
    /\ cpu' = [cpu EXCEPT ![c].rq = rest,
                          ![c].pc = IF next = cpu[c].current THEN "run" ELSE "ctx",
                          ![c].prev = IF next = cpu[c].current THEN @ ELSE cpu[c].current,
                          ![c].current = next]
    /\ UNCHANGED <<wq, wq_lock, next_ticket>>

\* TaskContext::switch_to: save the registers of prev, load those of current.
SwitchContext(c) ==
    /\ cpu[c].pc = "ctx"
    /\ task' = [task EXCEPT ![cpu[c].prev].saved = TRUE, ![cpu[c].current].saved = FALSE]
    /\ cpu' = [cpu EXCEPT ![c].pc = "clear"]
    /\ UNCHANGED <<wq, wq_lock, next_ticket>>

MutClearPrevTaskOnCpu(c) ==
    /\ cpu[c].pc = "clear"
    /\ cpu' = [cpu EXCEPT ![c].pc = "run", ![c].prev = None]
    /\ UNCHANGED <<task, wq, wq_lock, next_ticket>>

ClearPrevTaskOnCpu(c) ==
    /\ cpu[c].pc = "clear"
    /\ task' = [task EXCEPT ![cpu[c].prev].on_cpu = FALSE]
    /\ cpu' = [cpu EXCEPT ![c].pc = "run", ![c].prev = None]
    /\ UNCHANGED <<wq, wq_lock, next_ticket>>
-----------------------------------------------------------------------------
(* Blocking.                                                               *)

\* retain(|u| u != x): the queue s without x.
Without(s, x) ==
    LET F[i \in 0..Len(s)] == IF i = 0 THEN <<>>
                              ELSE IF s[i] = x THEN F[i - 1] ELSE Append(F[i - 1], s[i])
    IN F[Len(s)]

\* wait and wait_timeout up to set_state(Blocked) in blocked_resched; the
\* timed form first sets an alarm with a fresh ticket on this CPU.
Wait(c, q, timed) ==
    LET t == cpu[c].current IN
    /\ Runs(c, t)
    /\ wq_lock[q] = None
    /\ timed => next_ticket <= MaxTicket
    /\ wq_lock' = [wq_lock EXCEPT ![q] = c]
    /\ task' = [task EXCEPT ![t].state = "Blocked", ![t].waitq = q,
                            ![t].pc = IF timed THEN "waited_to" ELSE "waited",
                            ![t].timer_ticket = IF timed THEN next_ticket ELSE @]
    /\ cpu' = [cpu EXCEPT ![c].pc = "push",
                          ![c].timers = IF timed THEN @ \cup {<<t, next_ticket>>} ELSE @]
    /\ next_ticket' = IF timed THEN next_ticket + 1 ELSE next_ticket
    /\ UNCHANGED wq

\* The rest of blocked_resched: enter the queue, release its lock, resched.
BlockedResched(c) ==
    LET t == cpu[c].current
        q == task[t].waitq IN
    /\ cpu[c].pc = "push"
    /\ task' = [task EXCEPT ![t].in_wait_queue = TRUE]
    /\ wq' = [wq EXCEPT ![q] = Append(@, t)]
    /\ wq_lock' = [wq_lock EXCEPT ![q] = None]
    /\ cpu' = [cpu EXCEPT ![c].pc = "pick"]
    /\ UNCHANGED next_ticket

\* sleep_until with a deadline in the future.
SleepUntil(c) ==
    LET t == cpu[c].current IN
    /\ Runs(c, t)
    /\ next_ticket <= MaxTicket
    /\ task' = [task EXCEPT ![t].state = "Blocked", ![t].pc = "slept",
                            ![t].timer_ticket = next_ticket]
    /\ cpu' = [cpu EXCEPT ![c].pc = "pick", ![c].timers = @ \cup {<<t, next_ticket>>}]
    /\ next_ticket' = next_ticket + 1
    /\ UNCHANGED <<wq, wq_lock>>

\* sleep_until returns.
Slept(c) ==
    LET t == cpu[c].current IN
    /\ Executes(c, t, "slept")
    /\ task' = [task EXCEPT ![t].pc = "run"]
    /\ UNCHANGED <<cpu, wq, wq_lock, next_ticket>>

\* wait_timeout back from blocked_resched: still in the queue means timed out.
ReadTimeout(c) ==
    LET t == cpu[c].current IN
    /\ Executes(c, t, "waited_to")
    /\ task' = [task EXCEPT ![t].timeout = task[t].in_wait_queue, ![t].pc = "cancel_to"]
    /\ UNCHANGED <<cpu, wq, wq_lock, next_ticket>>

MutCancelTicket(c) ==
    LET t == cpu[c].current
        q == task[t].waitq IN
    /\ Executes(c, t, "waited") \/ Executes(c, t, "cancel_to")
    /\ task[t].in_wait_queue => wq_lock[q] = None
    /\ wq' = IF task[t].in_wait_queue
             THEN [wq EXCEPT ![q] = Without(@, t)] ELSE wq
    /\ task' = [task EXCEPT ![t].in_wait_queue = FALSE, ![t].waitq = None,
                            ![t].timeout = FALSE, ![t].pc = "run"]
    /\ UNCHANGED <<cpu, wq_lock, next_ticket>>

\* cancel_events: leave the queue if still in it; wait_timeout also expires
\* the ticket, so that an event still in a timer list is ignored.
CancelEvents(c) ==
    LET t == cpu[c].current
        q == task[t].waitq IN
    /\ Executes(c, t, "waited") \/ Executes(c, t, "cancel_to")
    /\ task[t].in_wait_queue => wq_lock[q] = None
    /\ wq' = IF task[t].in_wait_queue
             THEN [wq EXCEPT ![q] = Without(@, t)] ELSE wq
    /\ task' = [task EXCEPT ![t].in_wait_queue = FALSE, ![t].waitq = None,
                            ![t].timeout = FALSE, ![t].pc = "run",
                            ![t].timer_ticket = IF task[t].pc = "cancel_to" THEN 0 ELSE @]
    /\ UNCHANGED <<cpu, wq_lock, next_ticket>>
-----------------------------------------------------------------------------
(* Waking.                                                                 *)

\* The state of a CPU that has won the transition Blocked -> Ready of task t
\* in unblock_task and will put it on the run queue of target.
Waking(c, t, target, lock) ==
    [c EXCEPT !.pc = "spin", !.wake = [task |-> t, cpu |-> target, lock |-> lock]]

\* notify_one: pops the first task and unblocks it with the queue locked.  A
\* task that is not Blocked any more was woken by a timer and is left alone.
NotifyOne(c, q) ==
    LET t == Head(wq[q]) IN
    /\ Runs(c, cpu[c].current)
    /\ wq_lock[q] = None
    /\ wq[q] # <<>>
    /\ wq' = [wq EXCEPT ![q] = Tail(@)]
    /\ \/ /\ task[t].state = "Blocked"
          /\ task' = [task EXCEPT ![t].in_wait_queue = FALSE, ![t].state = "Ready"]
          /\ \E target \in task[t].cpumask :
                cpu' = [cpu EXCEPT ![c] = Waking(@, t, target, q)]
          /\ wq_lock' = [wq_lock EXCEPT ![q] = c]
       \/ /\ task[t].state # "Blocked"
          /\ task' = [task EXCEPT ![t].in_wait_queue = FALSE]
          /\ UNCHANGED <<cpu, wq_lock>>
    /\ UNCHANGED next_ticket

\* wait_timeout keeps interrupts off until it returns.
IrqsEnabled(c) ==
    cpu[c].pc = "run" /\ task[cpu[c].current].pc \notin {"waited_to", "cancel_to"}

MutCheckEvents(c) == \E e \in cpu[c].timers :
    LET t == e[1]
        expired == [cpu[c] EXCEPT !.timers = @ \ {e}] IN
    /\ IrqsEnabled(c)
    /\ task[t].timer_ticket = e[2]
    /\ task' = [task EXCEPT ![t].state = "Ready"]
    /\ \E target \in task[t].cpumask :
          cpu' = [cpu EXCEPT ![c] = Waking(expired, t, target, None)]
    /\ UNCHANGED <<wq, wq_lock, next_ticket>>

\* check_events expires one event <<t, ticket>> of this CPU; an event whose
\* ticket is not the task's is stale and ignored.
CheckEvents(c) == \E e \in cpu[c].timers :
    LET t == e[1]
        expired == [cpu[c] EXCEPT !.timers = @ \ {e}] IN
    /\ IrqsEnabled(c)
    /\ \/ /\ task[t].timer_ticket = e[2]
          /\ task[t].state = "Blocked"
          /\ task' = [task EXCEPT ![t].state = "Ready"]
          /\ \E target \in task[t].cpumask :
                cpu' = [cpu EXCEPT ![c] = Waking(expired, t, target, None)]
       \/ /\ task[t].timer_ticket # e[2] \/ task[t].state # "Blocked"
          /\ cpu' = [cpu EXCEPT ![c] = expired]
          /\ UNCHANGED task
    /\ UNCHANGED <<wq, wq_lock, next_ticket>>

MutPutTask(c) ==
    LET w == cpu[c].wake
        awake == [cpu EXCEPT ![c].pc = "run", ![c].wake = NoWake] IN
    /\ cpu[c].pc = "spin"
    /\ cpu' = [awake EXCEPT ![w.cpu].rq = Append(@, w.task)]
    /\ wq_lock' = IF w.lock = None THEN wq_lock ELSE [wq_lock EXCEPT ![w.lock] = None]
    /\ UNCHANGED <<task, wq, next_ticket>>

\* The end of put_task_with_state: the woken task has left its CPU.
PutTask(c) ==
    LET w == cpu[c].wake
        awake == [cpu EXCEPT ![c].pc = "run", ![c].wake = NoWake] IN
    /\ cpu[c].pc = "spin"
    /\ ~task[w.task].on_cpu
    /\ cpu' = [awake EXCEPT ![w.cpu].rq = Append(@, w.task)]
    /\ wq_lock' = IF w.lock = None THEN wq_lock ELSE [wq_lock EXCEPT ![w.lock] = None]
    /\ UNCHANGED <<task, wq, next_ticket>>
-----------------------------------------------------------------------------
(* Life and place of a task.                                               *)

SpawnTask(c, t) ==
    /\ Runs(c, cpu[c].current)
    /\ task[t].pc = "new"
    /\ task' = [task EXCEPT ![t].pc = "run"]
    /\ \E target \in task[t].cpumask :
          cpu' = [cpu EXCEPT ![target].rq = Append(@, t)]
    /\ UNCHANGED <<wq, wq_lock, next_ticket>>

\* exit_current of a task other than the boot task, whose exit stops the machine.
ExitCurrent(c) ==
    LET t == cpu[c].current IN
    /\ Runs(c, t) /\ t # Main
    /\ task' = [task EXCEPT ![t].state = "Exited"]
    /\ cpu' = [cpu EXCEPT ![c].pc = "pick"]
    /\ UNCHANGED <<wq, wq_lock, next_ticket>>

\* set_current_affinity to a mask that excludes this CPU: migrate_current hands
\* the task to a migration task and switches to that directly.
MigrateCurrent(c, mask) ==
    LET t == cpu[c].current
        m == Migrator[c] IN
    /\ Runs(c, t)
    /\ mask # {} /\ c \notin mask
    /\ ~task[m].on_cpu
    /\ task' = [task EXCEPT ![t].cpumask = mask, ![t].state = "Ready",
                            ![m].state = "Running", ![m].on_cpu = TRUE,
                            ![m].moved = <<t>>]
    /\ cpu' = [cpu EXCEPT ![c].pc = "ctx", ![c].prev = t, ![c].current = m]
    /\ UNCHANGED <<wq, wq_lock, next_ticket>>

\* set_current_affinity to a mask with this CPU only changes the mask.
SetCurrentAffinity(c, mask) ==
    LET t == cpu[c].current IN
    /\ Runs(c, t)
    /\ c \in mask
    /\ task' = [task EXCEPT ![t].cpumask = mask]
    /\ UNCHANGED <<cpu, wq, wq_lock, next_ticket>>

MutMigrateTarget(c) ==
    LET m == cpu[c].current
        t == Head(task[m].moved) IN
    /\ Executes(c, m, "migrate")
    /\ task' = [task EXCEPT ![m].state = "Exited", ![m].moved = <<>>]
    /\ cpu' = [cpu EXCEPT ![c].rq = Append(@, t), ![c].pc = "pick"]
    /\ UNCHANGED <<wq, wq_lock, next_ticket>>

\* migrate_entry, after which the migration task exits.
MigrateEntry(c) ==
    LET m == cpu[c].current
        t == Head(task[m].moved) IN
    /\ Executes(c, m, "migrate")
    /\ task' = [task EXCEPT ![m].state = "Exited", ![m].moved = <<>>]
    /\ \E target \in task[t].cpumask :
          cpu' = [cpu EXCEPT ![target].rq = Append(@, t), ![c].pc = "pick"]
    /\ UNCHANGED <<wq, wq_lock, next_ticket>>
-----------------------------------------------------------------------------
(* requeue moves waiters to another queue in two critical sections.        *)

RequeueDrain(c, q, count) ==
    LET t == cpu[c].current IN
    /\ Runs(c, t)
    /\ wq_lock[q] = None
    /\ count \in 1..Len(wq[q])
    /\ task' = [task EXCEPT ![t].moved = SubSeq(wq[q], 1, count), ![t].pc = "requeue"]
    /\ wq' = [wq EXCEPT ![q] = SubSeq(@, count + 1, Len(@))]
    /\ UNCHANGED <<cpu, wq_lock, next_ticket>>

RequeueExtend(c, target) ==
    LET t == cpu[c].current IN
    /\ Executes(c, t, "requeue")
    /\ wq_lock[target] = None
    /\ wq' = [wq EXCEPT ![target] = @ \o task[t].moved]
    /\ task' = [task EXCEPT ![t].moved = <<>>, ![t].pc = "run"]
    /\ UNCHANGED <<cpu, wq_lock, next_ticket>>
-----------------------------------------------------------------------------
SchedStep(c) == Resched(c) \/ SwitchContext(c) \/ ClearPrevTaskOnCpu(c)
                \/ BlockedResched(c) \/ PutTask(c)

TaskStep(c) ==
    \/ YieldCurrent(c) \/ SleepUntil(c) \/ Slept(c) \/ ExitCurrent(c)
    \/ \E q \in Queues : NotifyOne(c, q) \/ \E timed \in BOOLEAN : Wait(c, q, timed)
    \/ ReadTimeout(c) \/ CancelEvents(c) \/ CheckEvents(c)
    \/ \E t \in Tasks : SpawnTask(c, t)

Affinity(c) ==
    \/ \E mask \in SUBSET CPUs : MigrateCurrent(c, mask) \/ SetCurrentAffinity(c, mask)
    \/ MigrateEntry(c)

Requeue(c) ==
    \/ \E q \in Queues : \E count \in 1..Len(wq[q]) : RequeueDrain(c, q, count)
    \/ \E q \in Queues : RequeueExtend(c, q)

Next == \E c \in CPUs : SchedStep(c) \/ TaskStep(c)

Spec == Init /\ [][Next]_vars

\* With tasks that migrate and requeue as well.
NextFull == Next \/ \E c \in CPUs : Affinity(c) \/ Requeue(c)

SpecFull == Init /\ [][NextFull]_vars
-----------------------------------------------------------------------------
Entries(s) == {s[i] : i \in 1..Len(s)}

TaskType ==
    [state : {"Running", "Ready", "Blocked", "Exited"}, on_cpu : BOOLEAN,
     in_wait_queue : BOOLEAN, cpumask : SUBSET CPUs, timer_ticket : 0..MaxTicket,
     saved : BOOLEAN, waitq : Queues \cup {None}, timeout : BOOLEAN,
     pc : {"new", "run", "waited", "waited_to", "cancel_to", "slept", "requeue",
           "migrate"},
     moved : Seq(AllTasks)]

CPUType ==
    [current : AllTasks, prev : AllTasks \cup {None}, rq : Seq(AllTasks),
     timers : SUBSET (AllTasks \X (1..MaxTicket)),
     pc : {"run", "push", "pick", "ctx", "clear", "spin"},
     wake : [task : AllTasks \cup {None}, cpu : CPUs \cup {None},
             lock : Queues \cup {None}]]

\* The types of the fields of tasks, CPUs and wait queues.
TypeOK ==
    /\ task \in [AllTasks -> TaskType]
    /\ cpu \in [CPUs -> CPUType]
    /\ wq \in [Queues -> Seq(AllTasks)]
    /\ wq_lock \in [Queues -> CPUs \cup {None}]
    /\ next_ticket \in 1..(MaxTicket + 1)

\* A context belongs to one CPU: no task is the current task of two, and
\* switch_to loads a context only after its registers were saved, so that a task
\* woken or migrated while its CPU still switches away from it is not resumed
\* too early.
ContextSaved ==
    /\ \A c, d \in CPUs : c # d => cpu[c].current # cpu[d].current
    /\ \A c \in CPUs : cpu[c].pc = "ctx" => task[cpu[c].current].saved

\* The run queues hold Ready tasks, no task twice, and no task that a waker is
\* still about to queue: the timer and notify() do not both queue a sleeper,
\* and the assertion of resched that the next task is ready holds.
QueuedOnce ==
    \A c \in CPUs : \A i \in 1..Len(cpu[c].rq) :
        LET t == cpu[c].rq[i] IN
        /\ task[t].state = "Ready"
        /\ \A d \in CPUs : /\ cpu[d].wake.task # t
                          /\ \A j \in 1..Len(cpu[d].rq) :
                                cpu[d].rq[j] = t => c = d /\ i = j

\* A Ready task is on its way to a CPU: in a run queue, held by a waker or by
\* the migration task that will queue it, or idle, which is never queued.
ReadyReachable ==
    \A t \in Tasks : task[t].state = "Ready" /\ task[t].pc # "new" =>
        \E c \in CPUs : \/ t \in Entries(cpu[c].rq)
                       \/ cpu[c].wake.task = t
                       \/ t \in Entries(task[Migrator[c]].moved)

\* A Blocked task can still be woken: some wait queue (or a requeue in
\* progress) or a timer list whose event has its ticket holds it, or it is
\* about to enter the wait queue.
BlockedReachable ==
    \A t \in Tasks : task[t].state = "Blocked" =>
        \/ \E q \in Queues : t \in Entries(wq[q])
        \/ \E u \in Tasks : t \in Entries(task[u].moved)
        \/ \E c \in CPUs : <<t, task[t].timer_ticket>> \in cpu[c].timers
        \/ \E c \in CPUs : cpu[c].pc = "push" /\ cpu[c].current = t

\* An event left in a timer list can only wake the wait or sleep that set it:
\* once that has returned, the ticket no longer matches.
TimerWakesItsWait ==
    \A t \in Tasks, c \in CPUs : <<t, task[t].timer_ticket>> \in cpu[c].timers =>
        task[t].pc \in {"waited_to", "cancel_to", "slept"}

\* The entries of a wait queue are the tasks inside its wait() whose flag
\* in_wait_queue is set, each once; cancel_events leaves no entry behind.
QueuedTasksWait ==
    \A t \in Tasks, q \in Queues :
        /\ t \in Entries(wq[q]) <=> task[t].in_wait_queue /\ task[t].waitq = q
        /\ \A i, j \in 1..Len(wq[q]) : wq[q][i] = t /\ wq[q][j] = t => i = j

\* A task runs and is queued only on the CPUs of its affinity mask.
AffinityRespected ==
    \A c \in CPUs :
        /\ cpu[c].pc = "run" => c \in task[cpu[c].current].cpumask
        /\ \A t \in Entries(cpu[c].rq) : c \in task[t].cpumask

\* A CPU that spins in put_task_with_state, possibly holding a wait queue's
\* lock, waits only for another CPU that is on its way to clear_prev_task_on_cpu
\* of the woken task and takes no wait queue's lock before it: no deadlock.
SpinEnds ==
    \A c \in CPUs : cpu[c].pc = "spin" /\ task[cpu[c].wake.task].on_cpu =>
        \E d \in CPUs \ {c} :
            \/ cpu[d].pc \in {"push", "pick"} /\ cpu[d].current = cpu[c].wake.task
            \/ cpu[d].pc \in {"ctx", "clear"} /\ cpu[d].prev = cpu[c].wake.task

\* No task is lost, whatever wakeups, timers and yields race: a ready task is in a
\* run queue or about to be put there, a blocked one can be found by whoever has
\* to wake it, none is queued twice and those queued in a wait queue do wait.
NoTaskLost == TypeOK /\ ReadyReachable /\ BlockedReachable /\ QueuedOnce /\ QueuedTasksWait
=============================================================================
