------------------------------ MODULE SchedInv ------------------------------
(***************************************************************************)
(* The inductive invariant of Sched and what a step may change without     *)
(* disturbing it, with the facts about queues that they rest on.           *)
(***************************************************************************)
EXTENDS Sched, TLAPS

\* What is in a queue (VecDeque), and that no entry is in it twice.
Members(q) == {q[i] : i \in 1..Len(q)}
Distinct(q) == \A i, j \in 1..Len(q) : q[i] = q[j] => i = j

\* The empty queue.
LEMMA EmptyQueue ==
    /\ Members(<<>>) = {} /\ Distinct(<<>>)
    /\ \A S : \A q \in Seq(S) : Members(q) = {} <=> q = <<>>
<1>1. Members(<<>>) = {} /\ Distinct(<<>>)
  BY DEF Members, Distinct
<1>2. ASSUME NEW S, NEW q \in Seq(S), q # <<>>
      PROVE  Members(q) # {}
  BY <1>2 DEF Members
<1> QED BY <1>1, <1>2

\* push_back adds the entry.
LEMMA PushedQueue ==
    ASSUME NEW S, NEW q \in Seq(S), NEW e \in S
    PROVE  /\ Append(q, e) \in Seq(S) /\ Append(q, e) # <<>>
           /\ Len(Append(q, e)) = Len(q) + 1
           /\ Members(Append(q, e)) = Members(q) \cup {e}
           /\ Distinct(q) /\ e \notin Members(q) => Distinct(Append(q, e))
<1> DEFINE p == Append(q, e)
<1>1. /\ p \in Seq(S) /\ p # <<>> /\ Len(p) = Len(q) + 1 /\ Len(q) \in Nat
      /\ \A i \in 1..Len(q) : p[i] = q[i]
      /\ p[Len(q) + 1] = e
  OBVIOUS
<1> HIDE DEF p
<1>2. 1..Len(p) = 1..Len(q) \cup {Len(q) + 1} /\ Len(q) + 1 \notin 1..Len(q)
  BY <1>1
<1>3. Members(p) = Members(q) \cup {e}
  BY <1>1, <1>2 DEF Members
<1>4. Distinct(q) /\ e \notin Members(q) => Distinct(p)
  <2> SUFFICES ASSUME Distinct(q), e \notin Members(q), NEW i \in 1..Len(p), NEW j \in 1..Len(p),
                      p[i] = p[j]
               PROVE  i = j
    BY DEF Distinct
  <2>1. \A k \in 1..Len(q) : p[k] # e
    BY <1>1 DEF Members
  <2> QED BY <1>1, <1>2, <2>1 DEF Distinct
<1> QED BY <1>1, <1>3, <1>4 DEF p

\* pop_front takes the first entry out.
LEMMA PoppedQueue ==
    ASSUME NEW S, NEW q \in Seq(S), q # <<>>
    PROVE  /\ Head(q) \in S /\ Head(q) \in Members(q)
           /\ Tail(q) \in Seq(S) /\ Len(q) > 0 /\ Len(Tail(q)) = Len(q) - 1
           /\ Members(q) = Members(Tail(q)) \cup {Head(q)}
           /\ Distinct(q) => Distinct(Tail(q)) /\ Head(q) \notin Members(Tail(q))
<1> DEFINE p == Tail(q)
           h == Head(q)
<1>1. /\ p \in Seq(S) /\ Len(p) = Len(q) - 1 /\ Len(q) \in Nat \ {0} /\ h \in S /\ h = q[1]
      /\ \A i \in 1..Len(p) : p[i] = q[i + 1]
  OBVIOUS
<1> HIDE DEF p, h
<1>2. /\ \A i \in 1..Len(q) : i = 1 \/ (i - 1 \in 1..Len(p) /\ (i - 1) + 1 = i)
      /\ \A i \in 1..Len(p) : i + 1 \in 1..Len(q) /\ i + 1 # 1
      /\ 1 \in 1..Len(q)
  BY <1>1
<1>3. \A x \in Members(p) : x \in Members(q)
  BY <1>1, <1>2 DEF Members
<1>4. \A x \in Members(q) : x = h \/ x \in Members(p)
  <2> SUFFICES ASSUME NEW i \in 1..Len(q), i # 1 PROVE q[i] \in Members(p)
    BY <1>1, Zenon DEF Members
  <2>1. i - 1 \in 1..Len(p) /\ p[i - 1] = q[i]
    BY <1>1, <1>2
  <2> QED BY <2>1 DEF Members
<1>5. h \in Members(q)
  BY <1>1, <1>2 DEF Members
<1>6. Distinct(q) => Distinct(p) /\ h \notin Members(p)
  <2> SUFFICES ASSUME Distinct(q) PROVE Distinct(p) /\ h \notin Members(p)
    OBVIOUS
  <2>1. ASSUME NEW i \in 1..Len(p), NEW j \in 1..Len(p), p[i] = p[j] PROVE i = j
    <3>1. q[i + 1] = q[j + 1] /\ i + 1 \in 1..Len(q) /\ j + 1 \in 1..Len(q)
      BY <1>1, <1>2, <2>1
    <3>2. i + 1 = j + 1
      BY <3>1 DEF Distinct
    <3> QED BY <3>2
  <2>2. ASSUME NEW i \in 1..Len(p), p[i] = h PROVE FALSE
    <3>1. q[i + 1] = q[1] /\ i + 1 \in 1..Len(q) /\ 1 \in 1..Len(q) /\ i + 1 # 1
      BY <1>1, <1>2, <2>2
    <3> QED BY <3>1 DEF Distinct
  <2> QED BY <2>1, <2>2 DEF Distinct, Members
<1> QED BY <1>1, <1>3, <1>4, <1>5, <1>6 DEF p, h

OnWay == {"run", "ctx", "clear", "spin"}

\* The tasks whose registers or stack CPU c still uses.
Held(c) == IF cpu[c].pc \in {"ctx", "clear"} THEN {cpu[c].current, cpu[c].prev} ELSE {cpu[c].current}

\* Where a Ready task waits: a run queue, the hands of a waker or of a migration task.
Rq(c) == Members(cpu[c].rq)
Wk(c) == {cpu[c].wake.task} \ {None}
Cr(c) == Members(task[Migrator[c]].moved)

\* A task is used by one CPU at most, on_cpu says by which it is used, and the
\* registers of a task that no CPU uses are saved.
CpusKept ==
    /\ \A c \in CPUs : cpu[c].pc \in {"ctx", "clear"} => cpu[c].prev \in AllTasks /\ cpu[c].prev # cpu[c].current
    /\ \A c, d \in CPUs : c # d => Held(c) \cap Held(d) = {}
    /\ \A t \in AllTasks : task[t].on_cpu <=> \E c \in CPUs : t \in Held(c)
    /\ \A t \in AllTasks : ~task[t].on_cpu => task[t].saved
    /\ \A c \in CPUs : /\ cpu[c].pc = "ctx" => task[cpu[c].current].saved
                       /\ cpu[c].pc = "clear" => task[cpu[c].prev].saved

\* The tasks that axtask makes for itself stay where they belong.
OwnTasksKept ==
    /\ \A c, d \in CPUs : c # d => Idle[c] \notin Held(d) /\ Migrator[c] \notin Held(d)
    /\ \A c \in CPUs : /\ task[Idle[c]].pc = "run" /\ task[Idle[c]].state \in {"Running", "Ready"}
                       /\ task[Migrator[c]].pc = "migrate" /\ task[Migrator[c]].state # "Blocked"
                       /\ task[Idle[c]].cpumask = CPUs /\ task[Migrator[c]].cpumask = CPUs
    /\ \A t \in Tasks : task[t].pc # "migrate"

\* A Running task is the current task of one CPU.
RunningKept ==
    /\ \A t \in AllTasks : task[t].state = "Running" <=>
            \E c \in CPUs : cpu[c].current = t /\ cpu[c].pc \in OnWay
    /\ \A c \in CPUs : cpu[c].pc \in OnWay => c \in task[cpu[c].current].cpumask
    /\ \A t \in Tasks : task[t].pc = "new" => task[t].state = "Ready" /\ ~task[t].on_cpu

\* A migration task carries a task while it runs.
MigratorsCarry ==
    \A c \in CPUs : IF task[Migrator[c]].state = "Running" THEN \E t \in Tasks : task[Migrator[c]].moved = <<t>>
                                                           ELSE task[Migrator[c]].moved = <<>>

\* The places hold Ready tasks, each in one place.
PlacesKept ==
    /\ \A c \in CPUs : \A t \in Rq(c) \cup Wk(c) \cup Cr(c) :
            t \in Tasks /\ task[t].state = "Ready" /\ task[t].pc # "new"
    /\ \A c, d \in CPUs : /\ Rq(c) \cap Wk(d) = {} /\ Rq(c) \cap Cr(d) = {} /\ Wk(c) \cap Cr(d) = {}
                          /\ c # d => Rq(c) \cap Rq(d) = {} /\ Wk(c) \cap Wk(d) = {} /\ Cr(c) \cap Cr(d) = {}
    /\ \A c \in CPUs : /\ Distinct(cpu[c].rq)
                       /\ cpu[c].pc = "spin" <=> cpu[c].wake.task # None
                       /\ cpu[c].pc = "spin" => cpu[c].wake.cpu \in task[cpu[c].wake.task].cpumask
                       /\ \A t \in Rq(c) : c \in task[t].cpumask
    /\ MigratorsCarry
    /\ \A t \in Tasks : task[t].state = "Ready" /\ task[t].pc # "new" =>
            \E c \in CPUs : t \in Rq(c) \cup Wk(c) \cup Cr(c)

\* A queued task that a CPU still uses is queued on that CPU.
HandedOver == \A c \in CPUs : \A t \in Rq(c) \cup Cr(c) : task[t].on_cpu => t \in Held(c)

Core == TypeOK /\ CpusKept /\ OwnTasksKept /\ RunningKept /\ PlacesKept /\ HandedOver

\* The wait queues hold the tasks that wait in them.
WaitsKept ==
    /\ \A q \in Queues : Members(wq[q]) \subseteq Tasks /\ Distinct(wq[q])
    /\ \A t \in Tasks, q \in Queues : t \in Members(wq[q]) <=> task[t].in_wait_queue /\ task[t].waitq = q
    /\ \A t \in Tasks : task[t].in_wait_queue => task[t].pc \in {"waited", "waited_to", "cancel_to"}
    /\ \A t \in Tasks : task[t].pc \in {"waited", "waited_to", "cancel_to"} => task[t].waitq \in Queues
    /\ \A t \in Tasks : task[t].state = "Blocked" => task[t].pc \in {"waited", "waited_to", "slept"}
    /\ \A t \in Tasks : task[t].state = "Blocked" /\ task[t].pc # "slept" =>
            task[t].in_wait_queue \/ \E c \in CPUs : cpu[c].pc = "push" /\ cpu[c].current = t
    /\ \A c \in CPUs : cpu[c].pc = "push" =>
            /\ cpu[c].current \in Tasks /\ ~task[cpu[c].current].in_wait_queue
            /\ task[cpu[c].current].pc \in {"waited", "waited_to"}

\* A timer event is in one list, and only for the wait or sleep that set it.
TimersKept ==
    /\ \A c \in CPUs : \A e \in cpu[c].timers : e[1] \in Tasks /\ e[2] < next_ticket
    /\ \A c, d \in CPUs : c # d => cpu[c].timers \cap cpu[d].timers = {}
    /\ \A t \in Tasks : task[t].timer_ticket < next_ticket
    /\ TimerWakesItsWait
    /\ \A t \in Tasks : task[t].pc = "slept" =>
            (task[t].state = "Blocked" <=> \E c \in CPUs : <<t, task[t].timer_ticket>> \in cpu[c].timers)

IInv == Core /\ WaitsKept /\ TimersKept
-----------------------------------------------------------------------------
(* What the steps have in common.                                          *)

\* The step leaves alone what Core says of task u, of CPU d.
TaskSame(u) ==
    /\ task'[u].state = task[u].state /\ task'[u].on_cpu = task[u].on_cpu
    /\ task'[u].saved = task[u].saved /\ task'[u].cpumask = task[u].cpumask
    /\ u \notin Tasks => task'[u].pc = task[u].pc /\ task'[u].moved = task[u].moved
    /\ u \in Tasks => (task'[u].pc = "new" <=> task[u].pc = "new") /\ task'[u].pc # "migrate"

CpuSame(d) ==
    /\ cpu'[d].current = cpu[d].current /\ cpu'[d].prev = cpu[d].prev
    /\ cpu'[d].rq = cpu[d].rq /\ cpu'[d].wake = cpu[d].wake
    /\ cpu'[d].pc = cpu[d].pc \/ (cpu[d].pc = "push" /\ cpu'[d].pc = "pick")

\* The step leaves CPUs and their tasks where they are.
HwSame ==
    /\ \A d \in CPUs : /\ cpu'[d].current = cpu[d].current /\ cpu'[d].prev = cpu[d].prev
                       /\ cpu'[d].pc = "ctx" <=> cpu[d].pc = "ctx"
                       /\ cpu'[d].pc = "clear" <=> cpu[d].pc = "clear"
    /\ \A u \in AllTasks : task'[u].on_cpu = task[u].on_cpu /\ task'[u].saved = task[u].saved

\* The program counters of axtask's own tasks differ from those of the other tasks.
LEMMA OwnPcs ==
    ASSUME Core
    PROVE  /\ \A d \in CPUs : task[Idle[d]].pc = "run" /\ task[Migrator[d]].pc = "migrate"
           /\ \A u \in Tasks : task[u].pc # "migrate"
  BY DEF Core, OwnTasksKept

\* What holds of the CPUs and contexts depends only on what HwSame names.
LEMMA HwFrame ==
    ASSUME HwSame, CpusKept, TypeOK
    PROVE  CpusKept' /\ \A d \in CPUs : Held(d)' = Held(d)
<1>1. \A d \in CPUs : Held(d)' = Held(d)
  BY Zenon DEF HwSame, Held
<1>2. \A d \in CPUs : cpu[d].current \in AllTasks
  BY DEF TypeOK, CPUType
<1> QED BY <1>1, <1>2 DEF HwSame, CpusKept

\* The tasks of axtask, when their fields and Held are left alone.
LEMMA OwnFrame ==
    ASSUME OwnTasksKept, SchedAssumption,
           \A d \in CPUs : Held(d)' \subseteq Held(d),
           \A u \in AllTasks \ Tasks : task'[u].pc = task[u].pc /\ task'[u].cpumask = task[u].cpumask,
           \A d \in CPUs : /\ task'[Idle[d]].state \in {"Running", "Ready"}
                           /\ task'[Migrator[d]].state # "Blocked",
           \A u \in Tasks : task'[u].pc # "migrate"
    PROVE  OwnTasksKept'
<1>1. \A d \in CPUs : Idle[d] \in AllTasks \ Tasks /\ Migrator[d] \in AllTasks \ Tasks
  BY DEF SchedAssumption, AllTasks
<1> QED BY <1>1 DEF OwnTasksKept

\* The migration tasks, when they are left alone.
LEMMA SameMigrators ==
    ASSUME MigratorsCarry,
           \A d \in CPUs : /\ task'[Migrator[d]].moved = task[Migrator[d]].moved
                           /\ task'[Migrator[d]].state = "Running" <=> task[Migrator[d]].state = "Running"
    PROVE  MigratorsCarry'
<1> SUFFICES ASSUME NEW d \in CPUs
             PROVE  IF task'[Migrator[d]].state = "Running"
                    THEN \E u \in Tasks : task'[Migrator[d]].moved = <<u>>
                    ELSE task'[Migrator[d]].moved = <<>>
  BY DEF MigratorsCarry
<1>1. IF task[Migrator[d]].state = "Running" THEN \E u \in Tasks : task[Migrator[d]].moved = <<u>>
                                             ELSE task[Migrator[d]].moved = <<>>
  BY DEF MigratorsCarry
<1>2. /\ task'[Migrator[d]].moved = task[Migrator[d]].moved
      /\ task'[Migrator[d]].state = "Running" <=> task[Migrator[d]].state = "Running"
  OBVIOUS
<1> QED BY <1>1, <1>2

\* The places, when they and the Ready tasks are left alone.
LEMMA PlacesFrame ==
    ASSUME PlacesKept,
           \A d \in CPUs : /\ cpu'[d].rq = cpu[d].rq /\ cpu'[d].wake = cpu[d].wake
                           /\ cpu'[d].pc = "spin" <=> cpu[d].pc = "spin"
                           /\ task'[Migrator[d]].moved = task[Migrator[d]].moved
                           /\ task'[Migrator[d]].state = "Running" <=> task[Migrator[d]].state = "Running",
           \A u \in Tasks : /\ task'[u].state = "Ready" <=> task[u].state = "Ready"
                            /\ task'[u].pc = "new" <=> task[u].pc = "new"
                            /\ task'[u].cpumask = task[u].cpumask
    PROVE  PlacesKept' /\ \A d \in CPUs : Rq(d)' = Rq(d) /\ Wk(d)' = Wk(d) /\ Cr(d)' = Cr(d)
<1>1. \A d \in CPUs : Rq(d)' = Rq(d) /\ Wk(d)' = Wk(d) /\ Cr(d)' = Cr(d)
  BY DEF Rq, Wk, Cr
<1>2. \A d \in CPUs : \A t \in Rq(d)' \cup Wk(d)' \cup Cr(d)' :
            t \in Tasks /\ task'[t].state = "Ready" /\ task'[t].pc # "new"
  BY <1>1 DEF PlacesKept
<1>3. \A d, e \in CPUs : /\ Rq(d)' \cap Wk(e)' = {} /\ Rq(d)' \cap Cr(e)' = {} /\ Wk(d)' \cap Cr(e)' = {}
                         /\ d # e => Rq(d)' \cap Rq(e)' = {} /\ Wk(d)' \cap Wk(e)' = {} /\ Cr(d)' \cap Cr(e)' = {}
  BY <1>1 DEF PlacesKept
<1>4. \A d \in CPUs : cpu[d].pc = "spin" => cpu[d].wake.task \in Tasks
  BY DEF PlacesKept, Wk
<1>5. \A d \in CPUs : /\ Distinct(cpu'[d].rq)
                      /\ cpu'[d].pc = "spin" <=> cpu'[d].wake.task # None
                      /\ cpu'[d].pc = "spin" => cpu'[d].wake.cpu \in task'[cpu'[d].wake.task].cpumask
                      /\ \A t \in Rq(d)' : d \in task'[t].cpumask
  BY <1>1, <1>2, <1>4 DEF PlacesKept
<1>6. MigratorsCarry'
  BY SameMigrators DEF PlacesKept
<1>7. \A t \in Tasks : task'[t].state = "Ready" /\ task'[t].pc # "new" =>
            \E d \in CPUs : t \in Rq(d)' \cup Wk(d)' \cup Cr(d)'
  BY <1>1 DEF PlacesKept
<1> QED BY <1>1, <1>2, <1>3, <1>5, <1>6, <1>7 DEF PlacesKept

\* The Running tasks, when they are left alone.
LEMMA RunningFrame ==
    ASSUME RunningKept, TypeOK,
           \A d \in CPUs : cpu'[d].current = cpu[d].current /\ (cpu'[d].pc \in OnWay <=> cpu[d].pc \in OnWay),
           \A u \in AllTasks : /\ task'[u].state = "Running" <=> task[u].state = "Running"
                               /\ task'[u].cpumask = task[u].cpumask,
           \A u \in Tasks : task'[u].pc = "new" => /\ task[u].pc = "new" /\ task'[u].state = task[u].state
                                                   /\ task'[u].on_cpu = task[u].on_cpu
    PROVE  RunningKept'
<1>1. \A d \in CPUs : cpu[d].current \in AllTasks
  BY DEF TypeOK, CPUType
<1> QED BY <1>1 DEF RunningKept

\* Queued tasks stay with the CPU that uses them.
LEMMA HandedFrame ==
    ASSUME HandedOver, PlacesKept, HwSame,
           \A d \in CPUs : Held(d)' = Held(d),
           \A d \in CPUs : Rq(d)' = Rq(d) /\ Cr(d)' = Cr(d)
    PROVE  HandedOver'
<1> SUFFICES ASSUME NEW d \in CPUs, NEW u \in Rq(d)' \cup Cr(d)', task'[u].on_cpu
             PROVE  u \in Held(d)'
  BY DEF HandedOver
<1>1. u \in Rq(d) \cup Cr(d)
  OBVIOUS
<1>2. u \in AllTasks
  BY <1>1 DEF PlacesKept, AllTasks
<1> QED BY <1>1, <1>2 DEF HandedOver, HwSame

\* ... and so does a task that is queued where it is used, or that no CPU uses.
LEMMA HandedEnqueue ==
    ASSUME HandedOver, PlacesKept, HwSame, NEW t \in AllTasks, NEW x \in CPUs,
           \A d \in CPUs : Held(d)' = Held(d),
           \A d \in CPUs : Rq(d)' \subseteq Rq(d) \cup {t} /\ Cr(d)' \subseteq Cr(d),
           \A d \in CPUs : t \in Rq(d)' => d = x,
           task[t].on_cpu => t \in Held(x)
    PROVE  HandedOver'
<1> SUFFICES ASSUME NEW d \in CPUs, NEW u \in Rq(d)' \cup Cr(d)', task'[u].on_cpu
             PROVE  u \in Held(d)'
  BY DEF HandedOver
<1>1. CASE u \in Rq(d) \cup Cr(d)
  <2>1. u \in AllTasks
    BY <1>1 DEF PlacesKept, AllTasks
  <2> QED BY <1>1, <2>1 DEF HandedOver, HwSame
<1>2. CASE u \notin Rq(d) \cup Cr(d)
  <2>1. u = t /\ d = x
    BY <1>2
  <2> QED BY <2>1 DEF HwSame
<1> QED BY <1>1, <1>2

\* A step that leaves everything alone.
LEMMA CoreFrame ==
    ASSUME Core, TypeOK', \A u \in AllTasks : TaskSame(u), \A d \in CPUs : CpuSame(d)
    PROVE  Core'
<1>1. \A d \in CPUs : Idle[d] \in AllTasks /\ Migrator[d] \in AllTasks /\ Migrator[d] \notin Tasks
  BY SchedAssumption DEF AllTasks
<1>2. HwSame
  BY DEF HwSame, TaskSame, CpuSame
<1>3. CpusKept' /\ \A d \in CPUs : Held(d)' = Held(d)
  BY <1>2, HwFrame, SMTT(40) DEF Core
<1>4. OwnTasksKept'
  BY <1>1, <1>3, SchedAssumption, OwnFrame DEF Core, TaskSame, OwnTasksKept, AllTasks
<1>5. PlacesKept' /\ \A d \in CPUs : Rq(d)' = Rq(d) /\ Wk(d)' = Wk(d) /\ Cr(d)' = Cr(d)
  BY <1>1, PlacesFrame DEF Core, TaskSame, CpuSame, AllTasks
<1>6. RunningKept'
  BY RunningFrame DEF Core, TaskSame, CpuSame, AllTasks, OnWay
<1>7. HandedOver'
  BY <1>2, <1>3, <1>5, HandedFrame DEF Core
<1> QED BY <1>3, <1>4, <1>5, <1>6, <1>7 DEF Core

\* A task that runs is in no place of a Ready one, and is used by its CPU.
LEMMA CurrentFree ==
    ASSUME Core, NEW c \in CPUs, cpu[c].pc \in OnWay
    PROVE  /\ cpu[c].current \in AllTasks /\ task[cpu[c].current].state = "Running"
           /\ task[cpu[c].current].pc # "new" /\ c \in task[cpu[c].current].cpumask
           /\ cpu[c].current \in Held(c) /\ task[cpu[c].current].on_cpu
           /\ \A d \in CPUs : /\ cpu[c].current \notin Rq(d) \cup Wk(d) \cup Cr(d)
                              /\ d # c => cpu[d].current # cpu[c].current
<1>1. cpu[c].current \in AllTasks
  BY DEF Core, TypeOK, CPUType
<1>2. task[cpu[c].current].state = "Running" /\ c \in task[cpu[c].current].cpumask
  BY <1>1 DEF Core, RunningKept
<1>3. \A d \in CPUs : cpu[d].current \in Held(d)
  BY DEF Held
<1>4. task[cpu[c].current].on_cpu
  BY <1>1, <1>3 DEF Core, CpusKept
<1>5. task[cpu[c].current].pc # "new"
  <2>1. CASE cpu[c].current \in Tasks
    BY <2>1, <1>2 DEF Core, RunningKept
  <2>2. CASE cpu[c].current \notin Tasks
    BY <2>2, <1>1 DEF Core, OwnTasksKept, AllTasks
  <2> QED BY <2>1, <2>2
<1>6. \A d \in CPUs : cpu[c].current \notin Rq(d) \cup Wk(d) \cup Cr(d)
  BY <1>2 DEF Core, PlacesKept
<1>7. \A d \in CPUs : d # c => cpu[d].current # cpu[c].current
  BY <1>3 DEF Core, CpusKept
<1> QED BY <1>1, <1>2, <1>3, <1>4, <1>5, <1>6, <1>7

\* Two CPUs never have the same current task.
LEMMA CurrentsDiffer ==
    ASSUME Core, NEW c \in CPUs, NEW d \in CPUs, c # d
    PROVE  cpu[c].current # cpu[d].current
BY DEF Core, CpusKept, Held

\* A task stops running: it blocks, sleeps or exits.
LEMMA LeaveKeeps ==
    ASSUME Core, TypeOK', NEW c \in CPUs, NEW t \in Tasks,
           cpu[c].pc = "run", cpu[c].current = t,
           \A u \in AllTasks \ {t} : TaskSame(u), \A d \in CPUs \ {c} : CpuSame(d),
           task'[t].state \in {"Blocked", "Exited"}, task'[t].pc \notin {"new", "migrate"},
           task'[t].on_cpu = task[t].on_cpu, task'[t].saved = task[t].saved,
           task'[t].cpumask = task[t].cpumask,
           cpu'[c].pc \in {"push", "pick"},
           cpu'[c].current = cpu[c].current, cpu'[c].prev = cpu[c].prev,
           cpu'[c].rq = cpu[c].rq, cpu'[c].wake = cpu[c].wake
    PROVE  Core'
<1>1. \A d \in CPUs : /\ Idle[d] \in AllTasks /\ Idle[d] \notin Tasks /\ Idle[d] # t
                      /\ Migrator[d] \in AllTasks /\ Migrator[d] \notin Tasks /\ Migrator[d] # t
  BY SchedAssumption DEF AllTasks
<1>2. t \in AllTasks /\ cpu[c].pc \in OnWay
  BY DEF AllTasks, OnWay
<1>3. /\ task[t].state = "Running" /\ task[t].pc # "new"
      /\ \A d \in CPUs : d # c => cpu[d].current # t
  BY <1>2, CurrentFree
<1>4. HwSame
  BY DEF HwSame, TaskSame, CpuSame
<1>5. CpusKept' /\ \A d \in CPUs : Held(d)' = Held(d)
  BY <1>4, HwFrame DEF Core
<1>6. OwnTasksKept'
  <2>1. \A u \in AllTasks \ Tasks : task'[u].pc = task[u].pc /\ task'[u].cpumask = task[u].cpumask
    BY SMTT(40) DEF TaskSame
  <2>2. \A d \in CPUs : /\ task'[Idle[d]].state \in {"Running", "Ready"}
                        /\ task'[Migrator[d]].state # "Blocked"
    BY <1>1 DEF TaskSame, Core, OwnTasksKept
  <2>3. \A u \in Tasks : task'[u].pc # "migrate"
    BY DEF TaskSame, AllTasks
  <2> QED BY <2>1, <2>2, <2>3, <1>5, SchedAssumption, OwnFrame DEF Core
<1>7. PlacesKept' /\ \A d \in CPUs : Rq(d)' = Rq(d) /\ Wk(d)' = Wk(d) /\ Cr(d)' = Cr(d)
  <2>1. \A d \in CPUs : /\ cpu'[d].rq = cpu[d].rq /\ cpu'[d].wake = cpu[d].wake
                        /\ cpu'[d].pc = "spin" <=> cpu[d].pc = "spin"
                        /\ task'[Migrator[d]].moved = task[Migrator[d]].moved
                        /\ task'[Migrator[d]].state = "Running" <=> task[Migrator[d]].state = "Running"
    BY <1>1 DEF TaskSame, CpuSame
  <2>2. \A u \in Tasks : /\ task'[u].state = "Ready" <=> task[u].state = "Ready"
                         /\ task'[u].pc = "new" <=> task[u].pc = "new"
                         /\ task'[u].cpumask = task[u].cpumask
    BY <1>3 DEF TaskSame, AllTasks
  <2> QED BY <2>1, <2>2, PlacesFrame DEF Core
<1>8. RunningKept'
  <2>1. \A u \in AllTasks : task'[u].state = "Running" <=>
            \E d \in CPUs : cpu'[d].current = u /\ cpu'[d].pc \in OnWay
    BY <1>2, <1>3 DEF Core, RunningKept, TaskSame, CpuSame, OnWay
  <2>2. \A d \in CPUs : cpu'[d].pc \in OnWay => d \in task'[cpu'[d].current].cpumask
    <3> SUFFICES ASSUME NEW d \in CPUs, cpu'[d].pc \in OnWay PROVE d \in task'[cpu'[d].current].cpumask
      OBVIOUS
    <3>1. d # c
      BY DEF OnWay
    <3>2. cpu[d].current \in AllTasks \ {t} /\ cpu'[d].current = cpu[d].current /\ cpu[d].pc \in OnWay
      BY <3>1, <1>3, Zenon DEF Core, TypeOK, CPUType, CpuSame, OnWay
    <3> QED BY <3>2 DEF Core, RunningKept, TaskSame
  <2>3. \A u \in Tasks : task'[u].pc = "new" => task'[u].state = "Ready" /\ ~task'[u].on_cpu
    BY DEF Core, RunningKept, TaskSame, AllTasks
  <2> QED BY <2>1, <2>2, <2>3, SMTT(40) DEF RunningKept
<1>9. HandedOver'
  BY <1>4, <1>5, <1>7, HandedFrame DEF Core
<1> QED BY <1>5, <1>6, <1>7, <1>8, <1>9 DEF Core

\* A waker wins the transition of a Blocked task to Ready.
LEMMA WakeKeeps ==
    ASSUME Core, TypeOK', NEW c \in CPUs, NEW t \in AllTasks, NEW x \in task[t].cpumask,
           cpu[c].pc = "run", task[t].state = "Blocked",
           \A u \in AllTasks \ {t} : TaskSame(u), \A d \in CPUs \ {c} : CpuSame(d),
           task'[t].state = "Ready", task'[t].pc = task[t].pc,
           task'[t].on_cpu = task[t].on_cpu, task'[t].saved = task[t].saved,
           task'[t].cpumask = task[t].cpumask,
           cpu'[c].pc = "spin", cpu'[c].wake.task = t, cpu'[c].wake.cpu = x,
           cpu'[c].current = cpu[c].current, cpu'[c].prev = cpu[c].prev,
           cpu'[c].rq = cpu[c].rq
    PROVE  Core' /\ t \in Tasks
<1>1. t \in Tasks
  BY DEF Core, OwnTasksKept, AllTasks
<1>2. \A d \in CPUs : /\ Idle[d] \in AllTasks /\ Idle[d] \notin Tasks /\ Idle[d] # t
                      /\ Migrator[d] \in AllTasks /\ Migrator[d] \notin Tasks /\ Migrator[d] # t
  BY <1>1, SchedAssumption DEF AllTasks
<1>3. HwSame
  BY DEF HwSame, TaskSame, CpuSame
<1>4. CpusKept' /\ \A d \in CPUs : Held(d)' = Held(d)
  BY <1>3, HwFrame, SMTT(40) DEF Core
<1>5. OwnTasksKept'
  <2>1. \A u \in AllTasks \ Tasks : task'[u].pc = task[u].pc /\ task'[u].cpumask = task[u].cpumask
    BY DEF TaskSame
  <2>2. \A d \in CPUs : /\ task'[Idle[d]].state \in {"Running", "Ready"}
                        /\ task'[Migrator[d]].state # "Blocked"
    BY <1>2 DEF TaskSame, Core, OwnTasksKept
  <2>3. \A u \in Tasks : task'[u].pc # "migrate"
    BY DEF TaskSame, AllTasks, Core, OwnTasksKept
  <2> QED BY <2>1, <2>2, <2>3, <1>4, SchedAssumption, OwnFrame DEF Core
<1>6. task[t].pc # "new"
  BY <1>1 DEF Core, RunningKept
<1>7. RunningKept'
  <2>1. \A d \in CPUs : cpu'[d].current = cpu[d].current /\ (cpu'[d].pc \in OnWay <=> cpu[d].pc \in OnWay)
    BY DEF CpuSame, OnWay
  <2>2. \A u \in AllTasks : /\ task'[u].state = "Running" <=> task[u].state = "Running"
                            /\ task'[u].cpumask = task[u].cpumask
    BY DEF TaskSame
  <2>3. \A u \in Tasks : task'[u].pc = "new" => /\ task[u].pc = "new" /\ task'[u].state = task[u].state
                                                /\ task'[u].on_cpu = task[u].on_cpu
    BY <1>6 DEF TaskSame, AllTasks
  <2> QED BY <2>1, <2>2, <2>3, RunningFrame DEF Core
<1>8. \A d \in CPUs : t \notin Rq(d) \cup Wk(d) \cup Cr(d)
  BY DEF Core, PlacesKept
<1>9. /\ \A d \in CPUs : Rq(d)' = Rq(d) /\ Cr(d)' = Cr(d)
      /\ \A d \in CPUs : Wk(d)' = IF d = c THEN {t} ELSE Wk(d)
      /\ Wk(c) = {}
  <2>1. t # None
    BY SchedAssumption
  <2>2. Wk(c) = {}
    BY SMTT(40) DEF Core, PlacesKept, Wk
  <2> QED BY <1>2, <2>1, <2>2 DEF Rq, Cr, Wk, CpuSame, TaskSame
<1>10. PlacesKept'
  <2>1. \A d \in CPUs : \A u \in Rq(d)' \cup Wk(d)' \cup Cr(d)' :
            u \in Tasks /\ task'[u].state = "Ready" /\ task'[u].pc # "new"
    BY <1>1, <1>6, <1>9, SMTT(40) DEF Core, PlacesKept, TaskSame, AllTasks
  <2>2. \A d, e \in CPUs : /\ Rq(d)' \cap Wk(e)' = {} /\ Rq(d)' \cap Cr(e)' = {} /\ Wk(d)' \cap Cr(e)' = {}
                           /\ d # e => Rq(d)' \cap Rq(e)' = {} /\ Wk(d)' \cap Wk(e)' = {} /\ Cr(d)' \cap Cr(e)' = {}
    BY <1>8, <1>9, SMTT(40) DEF Core, PlacesKept
  <2>3. \A d \in CPUs : Distinct(cpu'[d].rq)
    BY SMTT(40) DEF Core, PlacesKept, CpuSame
  <2>4. \A d \in CPUs : cpu'[d].pc = "spin" <=> cpu'[d].wake.task # None
    BY SchedAssumption DEF Core, PlacesKept, CpuSame
  <2>5. \A d \in CPUs : cpu'[d].pc = "spin" => cpu'[d].wake.cpu \in task'[cpu'[d].wake.task].cpumask
    <3> SUFFICES ASSUME NEW d \in CPUs, cpu'[d].pc = "spin" PROVE cpu'[d].wake.cpu \in task'[cpu'[d].wake.task].cpumask
      OBVIOUS
    <3>1. CASE d = c
      BY <3>1
    <3>2. CASE d # c
      <4>1. cpu'[d].wake = cpu[d].wake /\ cpu[d].pc = "spin"
        BY <3>2 DEF CpuSame
      <4>2. cpu[d].wake.task \in Wk(d)
        BY <4>1 DEF Core, PlacesKept, Wk
      <4>3. cpu[d].wake.task \in AllTasks \ {t}
        BY <4>2, <1>8, SMTT(40) DEF Core, PlacesKept, AllTasks
      <4> QED BY <4>1, <4>3 DEF Core, PlacesKept, TaskSame
    <3> QED BY <3>1, <3>2
  <2>6. \A d \in CPUs : \A u \in Rq(d)' : d \in task'[u].cpumask
    BY <1>9, <2>1, SMTT(40) DEF Core, PlacesKept, TaskSame, AllTasks
  <2>7. MigratorsCarry'
    BY <1>2, SameMigrators, SMTT(40) DEF Core, PlacesKept, TaskSame
  <2>8. \A u \in Tasks : task'[u].state = "Ready" /\ task'[u].pc # "new" =>
            \E d \in CPUs : u \in Rq(d)' \cup Wk(d)' \cup Cr(d)'
    BY <1>9 DEF Core, PlacesKept, TaskSame, AllTasks
  <2> QED BY <2>1, <2>2, <2>3, <2>4, <2>5, <2>6, <2>7, <2>8, SMTT(30) DEF PlacesKept
<1>11. HandedOver'
  BY <1>3, <1>4, <1>9, HandedFrame, SMTT(40) DEF Core
<1> QED BY <1>1, <1>4, <1>5, <1>7, <1>10, <1>11, SMTT(40) DEF Core

\* A Ready task t is put on the run queue of x, taken from a waker's or a migration
\* task's hands if it was there.
LEMMA EnqueueKeeps ==
    ASSUME PlacesKept, TypeOK, NEW t \in Tasks, NEW x \in CPUs,
           \A d \in CPUs : cpu'[d].rq = IF d = x THEN Append(cpu[d].rq, t) ELSE cpu[d].rq,
           \A d \in CPUs : t \notin Rq(d) /\ t \notin Wk(d)' /\ t \notin Cr(d)',
           \A d \in CPUs : Wk(d)' = Wk(d) \ {t} /\ Cr(d)' = Cr(d) \ {t},
           \A d \in CPUs : cpu'[d].pc = "spin" <=> cpu'[d].wake.task # None,
           \A d \in CPUs : cpu'[d].pc = "spin" => cpu[d].pc = "spin" /\ cpu'[d].wake = cpu[d].wake,
           \A u \in Tasks \ {t} : /\ task'[u].state = "Ready" <=> task[u].state = "Ready"
                                  /\ task'[u].pc = "new" <=> task[u].pc = "new"
                                  /\ task'[u].cpumask = task[u].cpumask,
           task'[t].state = "Ready", task'[t].pc # "new", x \in task'[t].cpumask,
           MigratorsCarry'
    PROVE  PlacesKept' /\ \A d \in CPUs : Rq(d)' = IF d = x THEN Rq(d) \cup {t} ELSE Rq(d)
<1>1. \A d \in CPUs : cpu[d].rq \in Seq(AllTasks)
  BY DEF TypeOK, CPUType
<1>2. Members(Append(cpu[x].rq, t)) = Rq(x) \cup {t} /\ Distinct(Append(cpu[x].rq, t))
  <2>1. Distinct(cpu[x].rq) /\ t \notin Members(cpu[x].rq)
    BY DEF PlacesKept, Rq
  <2>2. cpu[x].rq \in Seq(AllTasks) /\ t \in AllTasks
    BY <1>1 DEF AllTasks
  <2> QED BY <2>1, <2>2, PushedQueue DEF Rq
<1>3. \A d \in CPUs : Rq(d)' = IF d = x THEN Rq(d) \cup {t} ELSE Rq(d)
  <2>1. \A d \in CPUs : Rq(d)' = Members(cpu'[d].rq)
    BY DEF Rq
  <2>2. Rq(x)' = Rq(x) \cup {t}
    BY <1>2, <2>1
  <2>3. \A d \in CPUs \ {x} : Rq(d)' = Rq(d)
    BY <2>1 DEF Rq
  <2> QED BY <2>2, <2>3
<1>4. \A d \in CPUs : \A u \in Rq(d)' \cup Wk(d)' \cup Cr(d)' : u = t \/ u \in Rq(d) \cup Wk(d) \cup Cr(d)
  BY <1>3
<1>5. \A d \in CPUs : \A u \in Rq(d)' \cup Wk(d)' \cup Cr(d)' :
            u \in Tasks /\ task'[u].state = "Ready" /\ task'[u].pc # "new"
  BY <1>4, SMTT(40) DEF PlacesKept
<1>6. \A d, e \in CPUs : /\ Rq(d)' \cap Wk(e)' = {} /\ Rq(d)' \cap Cr(e)' = {} /\ Wk(d)' \cap Cr(e)' = {}
                         /\ d # e => Rq(d)' \cap Rq(e)' = {} /\ Wk(d)' \cap Wk(e)' = {} /\ Cr(d)' \cap Cr(e)' = {}
  BY <1>3 DEF PlacesKept
<1>7. \A d \in CPUs : Distinct(cpu'[d].rq)
  BY <1>2, SMTT(40) DEF PlacesKept
<1>8. \A d \in CPUs : cpu'[d].pc = "spin" => cpu'[d].wake.cpu \in task'[cpu'[d].wake.task].cpumask
  <2> SUFFICES ASSUME NEW d \in CPUs, cpu'[d].pc = "spin" PROVE cpu'[d].wake.cpu \in task'[cpu'[d].wake.task].cpumask
    OBVIOUS
  <2>1. cpu'[d].wake.task \in Wk(d)' /\ cpu'[d].wake.task # t
    BY DEF Wk
  <2>2. cpu'[d].wake.task \in Tasks \ {t} /\ cpu'[d].wake = cpu[d].wake /\ cpu[d].pc = "spin"
    BY <2>1, <1>5, SMTT(40)
  <2> QED BY <2>2 DEF PlacesKept
<1>9. \A d \in CPUs : \A u \in Rq(d)' : d \in task'[u].cpumask
  BY <1>3, <1>5 DEF PlacesKept
<1>10. \A u \in Tasks : task'[u].state = "Ready" /\ task'[u].pc # "new" =>
            \E d \in CPUs : u \in Rq(d)' \cup Wk(d)' \cup Cr(d)'
  <2> SUFFICES ASSUME NEW u \in Tasks, task'[u].state = "Ready", task'[u].pc # "new"
               PROVE  \E d \in CPUs : u \in Rq(d)' \cup Wk(d)' \cup Cr(d)'
    OBVIOUS
  <2>1. CASE u = t
    BY <1>3, <2>1
  <2>2. CASE u # t
    <3>1. PICK d \in CPUs : u \in Rq(d) \cup Wk(d) \cup Cr(d)
      BY <2>2, SMTT(40) DEF PlacesKept
    <3> QED BY <1>3, <2>2, <3>1, SMTT(40)
  <2> QED BY <2>1, <2>2
<1> QED BY <1>3, <1>5, <1>6, <1>7, <1>8, <1>9, <1>10, SMTT(40) DEF PlacesKept

\* The wait queues, when the waits are left alone.
LEMMA WaitsFrame ==
    ASSUME WaitsKept, wq' = wq,
           \A u \in Tasks : /\ task'[u].in_wait_queue = task[u].in_wait_queue
                            /\ task'[u].waitq = task[u].waitq
                            /\ task'[u].state = "Blocked" => task[u].state = "Blocked" /\ task'[u].pc = task[u].pc
                            /\ task[u].pc \in {"waited", "waited_to", "cancel_to"} => task'[u].pc = task[u].pc
                            /\ task'[u].pc \in {"waited", "waited_to", "cancel_to"} => task'[u].pc = task[u].pc,
           \A d \in CPUs : /\ cpu'[d].pc = "push" <=> cpu[d].pc = "push"
                           /\ cpu[d].pc = "push" => cpu'[d].current = cpu[d].current
    PROVE  WaitsKept'
<1>1. \A u \in Tasks : task'[u].state = "Blocked" /\ task'[u].pc # "slept" =>
            task'[u].in_wait_queue \/ \E d \in CPUs : cpu'[d].pc = "push" /\ cpu'[d].current = u
  BY DEF WaitsKept
<1>2. \A d \in CPUs : cpu'[d].pc = "push" =>
            /\ cpu'[d].current \in Tasks /\ ~task'[cpu'[d].current].in_wait_queue
            /\ task'[cpu'[d].current].pc \in {"waited", "waited_to"}
  BY DEF WaitsKept
<1>3. \A u \in Tasks, q \in Queues : u \in Members(wq'[q]) <=> task'[u].in_wait_queue /\ task'[u].waitq = q
  BY DEF WaitsKept
<1>4. \A q \in Queues : Members(wq'[q]) \subseteq Tasks /\ Distinct(wq'[q])
  BY DEF WaitsKept
<1>5. \A u \in Tasks : task'[u].in_wait_queue => task'[u].pc \in {"waited", "waited_to", "cancel_to"}
  BY DEF WaitsKept
<1>6. \A u \in Tasks : task'[u].pc \in {"waited", "waited_to", "cancel_to"} => task'[u].waitq \in Queues
  BY DEF WaitsKept
<1>7. \A u \in Tasks : task'[u].state = "Blocked" => task'[u].pc \in {"waited", "waited_to", "slept"}
  BY SMTT(40) DEF WaitsKept
<1> QED BY <1>1, <1>2, <1>3, <1>4, <1>5, <1>6, <1>7, SMTT(40) DEF WaitsKept

\* The timer events, when the timed waits and sleeps are left alone.
LEMMA TimersFrame ==
    ASSUME TimersKept, next_ticket' = next_ticket,
           \A d \in CPUs : cpu'[d].timers = cpu[d].timers,
           \A u \in Tasks : /\ task'[u].timer_ticket = task[u].timer_ticket
                            /\ task[u].pc \in {"waited_to", "cancel_to", "slept"} =>
                                    task'[u].pc \in {"waited_to", "cancel_to", "slept"}
                            /\ task'[u].pc = "slept" => /\ task[u].pc = "slept"
                                                        /\ task'[u].state = "Blocked" <=> task[u].state = "Blocked"
    PROVE  TimersKept'
<1>1. TimerWakesItsWait'
  BY DEF TimersKept, TimerWakesItsWait
<1>2. \A u \in Tasks : task'[u].pc = "slept" =>
            (task'[u].state = "Blocked" <=> \E d \in CPUs : <<u, task'[u].timer_ticket>> \in cpu'[d].timers)
  BY DEF TimersKept
<1>3. \A d \in CPUs : \A e \in cpu'[d].timers : e[1] \in Tasks /\ e[2] < next_ticket'
  BY DEF TimersKept
<1>4. \A d, e \in CPUs : d # e => cpu'[d].timers \cap cpu'[e].timers = {}
  BY DEF TimersKept
<1>5. \A u \in Tasks : task'[u].timer_ticket < next_ticket'
  BY DEF TimersKept
<1> QED BY <1>1, <1>2, <1>3, <1>4, <1>5 DEF TimersKept
-----------------------------------------------------------------------------
(* The steps.                                                              *)

\* A wait or a sleep of t starts, with a new event when it is timed.
LEMMA NewEventKeeps ==
    ASSUME TimersKept, TypeOK, NEW c \in CPUs, NEW t \in Tasks, NEW timed \in BOOLEAN, task[t].pc = "run",
           \A u \in Tasks \ {t} : task'[u] = task[u],
           \A d \in CPUs : d # c => cpu'[d].timers = cpu[d].timers,
           cpu'[c].timers = (IF timed THEN cpu[c].timers \cup {<<t, next_ticket>>} ELSE cpu[c].timers),
           task'[t].timer_ticket = (IF timed THEN next_ticket ELSE task[t].timer_ticket),
           next_ticket' = (IF timed THEN next_ticket + 1 ELSE next_ticket),
           \/ timed /\ task'[t].pc = "waited_to"
           \/ timed /\ task'[t].pc = "slept" /\ task'[t].state = "Blocked"
           \/ ~timed /\ task'[t].pc = "waited"
    PROVE  TimersKept'
<1>0. next_ticket \in Nat /\ task[t].timer_ticket \in Nat
  <2>1. task[t] \in TaskType /\ next_ticket \in Nat
    BY SchedAssumption DEF TypeOK, AllTasks
  <2> QED BY <2>1 DEF TaskType
<1>1. \A d \in CPUs : \A e \in cpu[d].timers : e[1] \in Tasks /\ e[2] < next_ticket /\ e[2] \in Nat
  <2>1. \A d \in CPUs : cpu[d].timers \subseteq AllTasks \X (1..MaxTicket)
    BY DEF TypeOK, CPUType
  <2> QED BY <2>1 DEF TimersKept
<1>2. \A d \in CPUs : \A e \in cpu'[d].timers : e \in cpu[d].timers \/ (timed /\ d = c /\ e = <<t, next_ticket>>)
  OBVIOUS
<1>3. \A d \in CPUs : \A e \in cpu'[d].timers : e[1] \in Tasks /\ e[2] < next_ticket'
  BY <1>0, <1>1, <1>2
<1>4. \A d, e \in CPUs : d # e => cpu'[d].timers \cap cpu'[e].timers = {}
  <2> SUFFICES ASSUME NEW d \in CPUs, NEW e \in CPUs, d # e, NEW y \in cpu'[d].timers, y \in cpu'[e].timers
               PROVE  FALSE
    OBVIOUS
  <2>1. ~(y \in cpu[d].timers /\ y \in cpu[e].timers)
    BY DEF TimersKept
  <2>2. timed /\ y = <<t, next_ticket>> /\ (y \in cpu[d].timers \/ y \in cpu[e].timers)
    BY <1>2, <2>1
  <2> QED BY <1>0, <1>1, <2>2
<1>5. \A u \in Tasks : task'[u].timer_ticket < next_ticket'
  <2>1. \A u \in Tasks : task[u].timer_ticket < next_ticket /\ task[u].timer_ticket \in Nat
    <3>1. \A u \in Tasks : task[u] \in TaskType
      BY DEF TypeOK, AllTasks
    <3> QED BY <3>1 DEF TimersKept, TaskType
  <2> QED BY <1>0, <2>1
<1>6. \A u \in Tasks \ {t}, d \in CPUs : <<u, task'[u].timer_ticket>> \in cpu'[d].timers <=>
            <<u, task[u].timer_ticket>> \in cpu[d].timers
  OBVIOUS
<1>7. \A d \in CPUs : <<t, task'[t].timer_ticket>> \in cpu'[d].timers => timed
  BY <1>2 DEF TimersKept, TimerWakesItsWait
<1>8. TimerWakesItsWait'
  BY <1>6, <1>7, SMTT(40) DEF TimersKept, TimerWakesItsWait
<1>9. \A u \in Tasks : task'[u].pc = "slept" =>
            (task'[u].state = "Blocked" <=> \E d \in CPUs : <<u, task'[u].timer_ticket>> \in cpu'[d].timers)
  <2> SUFFICES ASSUME NEW u \in Tasks, task'[u].pc = "slept"
               PROVE  task'[u].state = "Blocked" <=> \E d \in CPUs : <<u, task'[u].timer_ticket>> \in cpu'[d].timers
    BY Zenon
  <2>1. CASE u = t
    BY <2>1
  <2>2. CASE u # t
    BY <2>2, <1>6 DEF TimersKept
  <2> QED BY <2>1, <2>2
<1> QED BY <1>3, <1>4, <1>5, <1>8, <1>9, SMTT(40) DEF TimersKept
=============================================================================
