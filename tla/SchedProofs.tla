----------------------------- MODULE SchedProofs ----------------------------
(***************************************************************************)
(* For any CPUs, tasks and wait queues: a context is loaded only after it  *)
(* was saved, a task runs where its mask allows, a CPU that spins waits    *)
(* for one that goes on, and no task is lost.  Migration and requeue keep  *)
(* the invariant of SchedInv too, and so does every step.                  *)
(***************************************************************************)
EXTENDS SchedCalls, SchedSteps

MigrateIs(c, x) ==
    LET m == Migrator[c]
        t == Head(task[m].moved) IN
    /\ Executes(c, m, "migrate") /\ x \in task[t].cpumask
    /\ task' = [task EXCEPT ![m].state = "Exited", ![m].moved = <<>>]
    /\ cpu' = [cpu EXCEPT ![x].rq = Append(@, t), ![c].pc = "pick"]
    /\ UNCHANGED <<wq, wq_lock, next_ticket>>

\* The first part of requeue.
LEMMA DrainKeeps ==
    ASSUME Core, NEW c \in CPUs, NEW q \in Queues, NEW count \in 1..Len(wq[q]), RequeueDrain(c, q, count)
    PROVE  Core'
<1> DEFINE t == cpu[c].current
           m == SubSeq(wq[q], 1, count)
           l == SubSeq(wq[q], count + 1, Len(wq[q]))
           r == [task[t] EXCEPT !.moved = m, !.pc = "requeue"]
<1>1. t \in AllTasks /\ c \in CPUs /\ m \in Seq(AllTasks) /\ l \in Seq(AllTasks)
  <2>1. t \in AllTasks /\ wq[q] \in Seq(AllTasks)
    BY DEF Core, TypeOK, CPUType
  <2>2. m \in Seq(AllTasks) /\ l \in Seq(AllTasks)
    BY <2>1
  <2> QED BY <2>1, <2>2
<1>2. /\ task' = [task EXCEPT ![t] = r]
      /\ wq' = [wq EXCEPT ![q] = l] /\ UNCHANGED <<cpu, wq_lock, next_ticket>>
  BY Zenon DEF RequeueDrain
<1> HIDE DEF m, l
<1>t1a. task[t] \in TaskType
  BY <1>1 DEF Core, TypeOK
<1>t1b. r \in TaskType
  BY <1>1, <1>t1a, Zenon DEF TaskType
<1>t1c. /\ r.state = task[t].state /\ r.on_cpu = task[t].on_cpu /\ r.in_wait_queue = task[t].in_wait_queue
      /\ r.cpumask = task[t].cpumask /\ r.timer_ticket = task[t].timer_ticket /\ r.saved = task[t].saved
      /\ r.waitq = task[t].waitq /\ r.timeout = task[t].timeout /\ r.pc = "requeue"
      /\ r.moved = m
  BY <1>t1a DEF TaskType
<1> HIDE DEF r
<1>t1d. /\ task' \in [AllTasks -> TaskType]
      /\ \A u \in AllTasks : task'[u] = IF u = t THEN r ELSE task[u]
  BY <1>1, <1>2, <1>t1b DEF Core, TypeOK
<1>3. task[t].pc = "run" /\ t \in Tasks
  BY DEF RequeueDrain, Runs, Executes
<1> HIDE DEF t
<1>4. TypeOK'
  <2>1. wq' \in [Queues -> Seq(AllTasks)]
    BY <1>1, <1>2 DEF Core, TypeOK
  <2> QED BY <1>2, <1>t1d, <2>1 DEF Core, TypeOK
<1>5. (\A u \in AllTasks : TaskSame(u)) /\ \A d \in CPUs : CpuSame(d)
  <2>1. \A u \in AllTasks : TaskSame(u)
    BY <1>2, <1>3, <1>t1c, <1>t1d, OwnPcs DEF TaskSame
  <2>2. \A d \in CPUs : CpuSame(d)
    BY <1>2, <1>3 DEF CpuSame
  <2> QED BY <2>1, <2>2
<1> QED BY <1>4, <1>5, CoreFrame

\* The second part of requeue.
LEMMA ExtendKeeps ==
    ASSUME Core, NEW c \in CPUs, NEW q \in Queues, RequeueExtend(c, q)
    PROVE  Core'
<1> DEFINE t == cpu[c].current
           l == wq[q] \o task[t].moved
           r == [task[t] EXCEPT !.moved = <<>>, !.pc = "run"]
<1>1. t \in AllTasks /\ c \in CPUs /\ l \in Seq(AllTasks) /\ <<>> \in Seq(AllTasks)
  <2>1. t \in AllTasks /\ wq[q] \in Seq(AllTasks)
    BY DEF Core, TypeOK, CPUType
  <2>2. task[t].moved \in Seq(AllTasks)
    BY <2>1 DEF Core, TypeOK, TaskType
  <2> QED BY <2>1, <2>2
<1>2. /\ task' = [task EXCEPT ![t] = r]
      /\ wq' = [wq EXCEPT ![q] = l] /\ UNCHANGED <<cpu, wq_lock, next_ticket>>
  BY Zenon DEF RequeueExtend
<1> HIDE DEF l
<1>t1a. task[t] \in TaskType
  BY <1>1 DEF Core, TypeOK
<1>t1b. r \in TaskType
  BY <1>1, <1>t1a, Zenon DEF TaskType
<1>t1c. /\ r.state = task[t].state /\ r.on_cpu = task[t].on_cpu /\ r.in_wait_queue = task[t].in_wait_queue
      /\ r.cpumask = task[t].cpumask /\ r.timer_ticket = task[t].timer_ticket /\ r.saved = task[t].saved
      /\ r.waitq = task[t].waitq /\ r.timeout = task[t].timeout /\ r.pc = "run"
      /\ r.moved = <<>>
  BY <1>t1a DEF TaskType
<1> HIDE DEF r
<1>t1d. /\ task' \in [AllTasks -> TaskType]
      /\ \A u \in AllTasks : task'[u] = IF u = t THEN r ELSE task[u]
  BY <1>1, <1>2, <1>t1b, SMTT(40) DEF Core, TypeOK
<1>3. task[t].pc = "requeue"
  BY DEF RequeueExtend, Executes
<1>0. t \in Tasks
  BY <1>1, <1>3 DEF Core, OwnTasksKept, AllTasks
<1> HIDE DEF t
<1>4. TypeOK'
  <2>1. wq' \in [Queues -> Seq(AllTasks)]
    BY <1>1, <1>2 DEF Core, TypeOK
  <2> QED BY <1>2, <1>t1d, <2>1 DEF Core, TypeOK
<1>5. (\A u \in AllTasks : TaskSame(u)) /\ \A d \in CPUs : CpuSame(d)
  <2>1. \A u \in AllTasks : TaskSame(u)
    BY <1>0, <1>2, <1>3, <1>t1c, <1>t1d, OwnPcs, SMTT(40) DEF TaskSame
  <2>2. \A d \in CPUs : CpuSame(d)
    BY <1>0, <1>2, <1>3 DEF CpuSame
  <2> QED BY <2>1, <2>2
<1> QED BY <1>4, <1>5, CoreFrame

\* set_current_affinity that keeps the CPU.
LEMMA SetAffinityKeeps ==
    ASSUME Core, NEW c \in CPUs, NEW mask \in SUBSET CPUs, SetCurrentAffinity(c, mask)
    PROVE  Core'
<1> DEFINE t == cpu[c].current
           r == [task[t] EXCEPT !.cpumask = mask]
<1>1. t \in AllTasks /\ c \in CPUs
  BY DEF Core, TypeOK, CPUType
<1>2. /\ task' = [task EXCEPT ![t] = r]
      /\ UNCHANGED <<cpu, wq, wq_lock, next_ticket>>
  BY DEF SetCurrentAffinity
<1>t1a. task[t] \in TaskType
  BY <1>1 DEF Core, TypeOK
<1>t1b. r \in TaskType
  BY <1>1, <1>t1a DEF TaskType
<1>t1c. /\ r.state = task[t].state /\ r.on_cpu = task[t].on_cpu /\ r.in_wait_queue = task[t].in_wait_queue
      /\ r.cpumask = mask /\ r.timer_ticket = task[t].timer_ticket /\ r.saved = task[t].saved
      /\ r.waitq = task[t].waitq /\ r.timeout = task[t].timeout /\ r.pc = task[t].pc
      /\ r.moved = task[t].moved
  BY <1>t1a DEF TaskType
<1> HIDE DEF r
<1>t1d. /\ task' \in [AllTasks -> TaskType]
      /\ \A u \in AllTasks : task'[u] = IF u = t THEN r ELSE task[u]
  BY <1>1, <1>2, <1>t1b DEF Core, TypeOK
<1>3. /\ cpu[c].current = t /\ cpu[c].pc = "run" /\ t \in Tasks /\ c \in mask /\ "run" \in OnWay
  BY DEF SetCurrentAffinity, Runs, Executes, OnWay
<1>4. /\ \A d \in CPUs : t \notin Rq(d) \cup Wk(d) \cup Cr(d) /\ (d # c => cpu[d].current # t)
  BY <1>3, CurrentFree
<1> HIDE DEF t
<1>5. TypeOK'
  BY <1>2, <1>t1d DEF Core, TypeOK
<1>6. HwSame
  BY <1>2, <1>t1c, <1>t1d DEF HwSame
<1>7. CpusKept' /\ \A d \in CPUs : Held(d)' = Held(d)
  BY <1>6, HwFrame DEF Core
<1>m. \A d \in CPUs : Idle[d] \in AllTasks \ Tasks /\ Migrator[d] \in AllTasks \ Tasks /\ Migrator[d] # t /\ Idle[d] # t
  BY <1>3, SchedAssumption DEF AllTasks
<1>n. \A u \in AllTasks : /\ task'[u].state = task[u].state /\ (u # t => task'[u].cpumask = task[u].cpumask)
                          /\ task'[u].pc = task[u].pc /\ task'[u].moved = task[u].moved
                          /\ task'[u].on_cpu = task[u].on_cpu
  BY <1>t1c, <1>t1d
<1>o. OwnTasksKept'
  <2>1. \A d, e \in CPUs : d # e => Idle[d] \notin Held(e)' /\ Migrator[d] \notin Held(e)'
    BY <1>7 DEF Core, OwnTasksKept
  <2>2. \A d \in CPUs : /\ task'[Idle[d]].pc = "run" /\ task'[Idle[d]].state \in {"Running", "Ready"}
                        /\ task'[Migrator[d]].pc = "migrate" /\ task'[Migrator[d]].state # "Blocked"
                        /\ task'[Idle[d]].cpumask = CPUs /\ task'[Migrator[d]].cpumask = CPUs
    BY <1>m, <1>n DEF Core, OwnTasksKept
  <2>3. \A u \in Tasks : task'[u].pc # "migrate"
    BY <1>n DEF Core, OwnTasksKept, AllTasks
  <2> QED BY <2>1, <2>2, <2>3, SMTT(40) DEF OwnTasksKept
<1>r. RunningKept'
  <2>1. \A u \in AllTasks : task'[u].state = "Running" <=>
            \E d \in CPUs : cpu'[d].current = u /\ cpu'[d].pc \in OnWay
    BY <1>2, <1>n DEF Core, RunningKept
  <2>2. \A d \in CPUs : cpu'[d].pc \in OnWay => d \in task'[cpu'[d].current].cpumask
    <3>1. \A d \in CPUs : cpu[d].current \in AllTasks
      BY DEF Core, TypeOK, CPUType
    <3>2. task'[t].cpumask = mask
      BY <1>1, <1>t1c, <1>t1d
    <3> QED BY <1>2, <1>3, <1>4, <1>n, <3>1, <3>2, SMTT(40) DEF Core, RunningKept
  <2>3. \A u \in Tasks : task'[u].pc = "new" => task'[u].state = "Ready" /\ ~task'[u].on_cpu
    BY <1>n DEF Core, RunningKept, AllTasks
  <2> QED BY <2>1, <2>2, <2>3 DEF RunningKept
<1>p. \A d \in CPUs : Rq(d)' = Rq(d) /\ Wk(d)' = Wk(d) /\ Cr(d)' = Cr(d)
  BY <1>2, <1>m, <1>n DEF Rq, Wk, Cr
<1>q. PlacesKept'
  <2>1. \A d \in CPUs : \A u \in Rq(d)' \cup Wk(d)' \cup Cr(d)' :
            u \in Tasks /\ task'[u].state = "Ready" /\ task'[u].pc # "new"
    BY <1>n, <1>p, SMTT(40) DEF Core, PlacesKept, AllTasks
  <2>2. \A d, e \in CPUs : /\ Rq(d)' \cap Wk(e)' = {} /\ Rq(d)' \cap Cr(e)' = {} /\ Wk(d)' \cap Cr(e)' = {}
                           /\ d # e => Rq(d)' \cap Rq(e)' = {} /\ Wk(d)' \cap Wk(e)' = {} /\ Cr(d)' \cap Cr(e)' = {}
    BY <1>p, SMTT(40) DEF Core, PlacesKept
  <2>3. \A d \in CPUs : Distinct(cpu'[d].rq) /\ (cpu'[d].pc = "spin" <=> cpu'[d].wake.task # None)
    BY <1>2, SMTT(40) DEF Core, PlacesKept
  <2>4. \A d \in CPUs : cpu'[d].pc = "spin" => cpu'[d].wake.cpu \in task'[cpu'[d].wake.task].cpumask
    <3>1. \A d \in CPUs : cpu[d].pc = "spin" => cpu[d].wake.task \in Wk(d) /\ cpu[d].wake.task \in AllTasks
      BY DEF Core, PlacesKept, Wk, AllTasks
    <3> QED BY <1>2, <1>4, <1>n, <3>1, SMTT(40) DEF Core, PlacesKept
  <2>5. \A d \in CPUs : \A u \in Rq(d)' : d \in task'[u].cpumask
    BY <1>4, <1>n, <1>p, <2>1, SMTT(40) DEF Core, PlacesKept, AllTasks
  <2>6. MigratorsCarry'
    BY <1>m, <1>n, SameMigrators, SMTT(40) DEF Core, PlacesKept
  <2>7. \A u \in Tasks : task'[u].state = "Ready" /\ task'[u].pc # "new" =>
            \E d \in CPUs : u \in Rq(d)' \cup Wk(d)' \cup Cr(d)'
    BY <1>n, <1>p DEF Core, PlacesKept, AllTasks
  <2> QED BY <2>1, <2>2, <2>3, <2>4, <2>5, <2>6, <2>7, SMTT(40) DEF PlacesKept
<1>8. HandedOver'
  BY <1>6, <1>7, <1>p, HandedFrame DEF Core
<1> QED BY <1>5, <1>7, <1>8, <1>o, <1>q, <1>r, SMTT(40) DEF Core

\* migrate_current.
LEMMA MigrateCurrentKeeps ==
    ASSUME Core, NEW c \in CPUs, NEW mask \in SUBSET CPUs, MigrateCurrent(c, mask)
    PROVE  Core'
<1> DEFINE t == cpu[c].current
           m == Migrator[c]
           r == [task[t] EXCEPT !.cpumask = mask, !.state = "Ready"]
           task1 == [task EXCEPT ![t] = r]
           s == [task1[m] EXCEPT !.state = "Running", !.on_cpu = TRUE, !.moved = <<t>>]
           k == [cpu[c] EXCEPT !.pc = "ctx", !.prev = t, !.current = m]
<1>1. /\ c \in CPUs /\ t \in AllTasks /\ m \in AllTasks /\ t # m /\ <<t>> \in Seq(AllTasks)
  <2>1. t \in Tasks /\ t \in AllTasks /\ m \in AllTasks /\ m \notin Tasks
    BY SchedAssumption, ZenonT(30) DEF MigrateCurrent, Runs, AllTasks
  <2> QED BY <2>1, SMTT(30)
<1>2. /\ task' = [task1 EXCEPT ![m] = s]
      /\ cpu' = [cpu EXCEPT ![c] = k]
      /\ UNCHANGED <<wq, wq_lock, next_ticket>>
  BY Zenon DEF MigrateCurrent
<1>t1a. task[t] \in TaskType
  BY <1>1 DEF Core, TypeOK
<1>t1b. r \in TaskType
  BY <1>1, <1>t1a, Zenon DEF TaskType
<1>t1c. /\ r.state = "Ready" /\ r.on_cpu = task[t].on_cpu /\ r.in_wait_queue = task[t].in_wait_queue
      /\ r.cpumask = mask /\ r.timer_ticket = task[t].timer_ticket /\ r.saved = task[t].saved
      /\ r.waitq = task[t].waitq /\ r.timeout = task[t].timeout /\ r.pc = task[t].pc
      /\ r.moved = task[t].moved
  BY <1>t1a DEF TaskType
<1> HIDE DEF r
<1>t1d. /\ task1 \in [AllTasks -> TaskType]
      /\ \A u \in AllTasks : task1[u] = IF u = t THEN r ELSE task[u]
  BY <1>1, <1>2, <1>t1b DEF Core, TypeOK
<1> HIDE DEF task1
<1>t2a. task1[m] \in TaskType
  BY <1>1, <1>t1d DEF Core, TypeOK
<1>t2b. s \in TaskType
  BY <1>1, <1>t2a, Zenon DEF TaskType
<1>t2c. /\ s.state = "Running" /\ s.on_cpu = TRUE /\ s.in_wait_queue = task1[m].in_wait_queue
      /\ s.cpumask = task1[m].cpumask /\ s.timer_ticket = task1[m].timer_ticket /\ s.saved = task1[m].saved
      /\ s.waitq = task1[m].waitq /\ s.timeout = task1[m].timeout /\ s.pc = task1[m].pc
      /\ s.moved = <<t>>
  BY <1>t2a DEF TaskType
<1> HIDE DEF s
<1>t2d. /\ task' \in [AllTasks -> TaskType]
      /\ \A u \in AllTasks : task'[u] = IF u = m THEN s ELSE task1[u]
  BY <1>1, <1>2, <1>t2b, <1>t1d, SMTT(40) DEF Core, TypeOK
<1>k1a. cpu[c] \in CPUType
  BY <1>1 DEF Core, TypeOK
<1>k1b. k \in CPUType
  BY <1>1, <1>k1a, Zenon DEF CPUType
<1>k1c. /\ k.current = m /\ k.prev = t /\ k.rq = cpu[c].rq
      /\ k.timers = cpu[c].timers /\ k.pc = "ctx" /\ k.wake = cpu[c].wake
  BY <1>k1a DEF CPUType
<1> HIDE DEF k
<1>k1d. /\ cpu' \in [CPUs -> CPUType]
      /\ \A d \in CPUs : cpu'[d] = IF d = c THEN k ELSE cpu[d]
  BY <1>1, <1>2, <1>k1b DEF Core, TypeOK
<1>3. /\ cpu[c].current = t /\ cpu[c].pc = "run" /\ t \in Tasks /\ ~task[m].on_cpu /\ "run" \in OnWay
  BY Zenon DEF MigrateCurrent, Runs, Executes, OnWay
<1>4. /\ task[t].pc # "new"
      /\ \A d \in CPUs : t \notin Rq(d) \cup Wk(d) \cup Cr(d) /\ (d # c => cpu[d].current # t)
  BY <1>3, CurrentFree
<1>m. /\ \A d \in CPUs : /\ Idle[d] \in AllTasks \ Tasks /\ Migrator[d] \in AllTasks \ Tasks /\ Idle[d] \notin {t, m}
                         /\ Migrator[d] # t /\ (d # c => Migrator[d] # m)
      /\ m = Migrator[c]
  BY <1>3, SchedAssumption DEF AllTasks
<1> HIDE DEF t, m
<1>5. TypeOK'
  BY <1>2, <1>t2d, <1>k1d DEF Core, TypeOK
<1>n. /\ \A u \in AllTasks : /\ task'[u].saved = task[u].saved /\ task'[u].pc = task[u].pc
                             /\ u # t => task'[u].cpumask = task[u].cpumask
                             /\ u # m => task'[u].moved = task[u].moved /\ task'[u].on_cpu = task[u].on_cpu
                             /\ u # m /\ u # t => task'[u].state = task[u].state
      /\ task'[m].state = "Running" /\ task'[m].moved = <<t>> /\ task'[m].on_cpu = TRUE
      /\ task'[t].state = "Ready"
  BY <1>1, <1>t1c, <1>t1d, <1>t2c, <1>t2d
<1>k. /\ \A d \in CPUs \ {c} : cpu'[d] = cpu[d]
      /\ cpu'[c].pc = "ctx" /\ cpu'[c].prev = t /\ cpu'[c].current = m
      /\ cpu'[c].rq = cpu[c].rq /\ cpu'[c].wake = cpu[c].wake
  BY <1>k1c, <1>k1d
<1>6. /\ Held(c) = {t} /\ Held(c)' = {m, t} /\ \A d \in CPUs \ {c} : Held(d)' = Held(d)
      /\ \A d \in CPUs : m \notin Held(d)
      /\ \A d \in CPUs \ {c} : t \notin Held(d)
  <2>1. Held(c) = {t} /\ Held(c)' = {m, t} /\ \A d \in CPUs \ {c} : Held(d)' = Held(d)
    BY <1>3, <1>k DEF Held
  <2>2. \A d \in CPUs : m \notin Held(d)
    BY <1>1, <1>3 DEF Core, CpusKept
  <2> QED BY <2>1, <2>2 DEF Core, CpusKept
<1>7. CpusKept'
  <2>1. \A d \in CPUs : cpu'[d].pc \in {"ctx", "clear"} => cpu'[d].prev \in AllTasks /\ cpu'[d].prev # cpu'[d].current
    BY <1>1, <1>k DEF Core, CpusKept
  <2>2. \A d, e \in CPUs : d # e => Held(d)' \cap Held(e)' = {}
    BY <1>6 DEF Core, CpusKept
  <2>3. \A u \in AllTasks : task'[u].on_cpu <=> \E d \in CPUs : u \in Held(d)'
    <3>1. \A u \in AllTasks : task[u].on_cpu <=> \E d \in CPUs : u \in Held(d)
      BY DEF Core, CpusKept
    <3> QED BY <1>6, <1>n, <3>1
  <2>4. \A u \in AllTasks : ~task'[u].on_cpu => task'[u].saved
    BY <1>n DEF Core, CpusKept
  <2>5. task[m].saved
    BY <1>1, <1>3 DEF Core, CpusKept
  <2>6. \A d \in CPUs : /\ cpu[d].current \in AllTasks
                        /\ cpu[d].pc = "clear" => cpu[d].prev \in AllTasks
    BY DEF Core, CpusKept, TypeOK, CPUType
  <2>7. \A d \in CPUs : /\ cpu'[d].pc = "ctx" => task'[cpu'[d].current].saved
                        /\ cpu'[d].pc = "clear" => task'[cpu'[d].prev].saved
    <3>2. \A d \in CPUs : /\ cpu[d].pc = "ctx" => task[cpu[d].current].saved
                          /\ cpu[d].pc = "clear" => task[cpu[d].prev].saved
      BY DEF Core, CpusKept
    <3> QED BY <1>1, <1>k, <1>n, <2>5, <2>6, <3>2, SMTT(40)
  <2> QED BY <2>1, <2>2, <2>3, <2>4, <2>7 DEF CpusKept
<1>o. OwnTasksKept'
  <2>1. \A d, e \in CPUs : d # e => Idle[d] \notin Held(e)' /\ Migrator[d] \notin Held(e)'
    BY <1>6, <1>m DEF Core, OwnTasksKept
  <2>2. \A d \in CPUs : /\ task'[Idle[d]].pc = "run" /\ task'[Idle[d]].state \in {"Running", "Ready"}
                        /\ task'[Migrator[d]].pc = "migrate" /\ task'[Migrator[d]].state # "Blocked"
                        /\ task'[Idle[d]].cpumask = CPUs /\ task'[Migrator[d]].cpumask = CPUs
    BY <1>m, <1>n DEF Core, OwnTasksKept
  <2>3. \A u \in Tasks : task'[u].pc # "migrate"
    BY <1>n DEF Core, OwnTasksKept, AllTasks
  <2> QED BY <2>1, <2>2, <2>3 DEF OwnTasksKept
<1>r. RunningKept'
  <2>0. /\ cpu'[c].pc \in OnWay /\ cpu[c].pc \in OnWay
        /\ \A d \in CPUs : d # c => cpu[d].current # m
    BY <1>3, <1>6, <1>k DEF OnWay, Held
  <2>1. \A u \in AllTasks : task'[u].state = "Running" <=>
            \E d \in CPUs : cpu'[d].current = u /\ cpu'[d].pc \in OnWay
    <3> SUFFICES ASSUME NEW u \in AllTasks
                 PROVE  task'[u].state = "Running" <=> \E d \in CPUs : cpu'[d].current = u /\ cpu'[d].pc \in OnWay
      OBVIOUS
    <3>1. task[u].state = "Running" <=> \E d \in CPUs : cpu[d].current = u /\ cpu[d].pc \in OnWay
      BY DEF Core, RunningKept
    <3>2. CASE u = m
      BY <1>n, <1>k, <2>0, <3>2, SMTT(40)
    <3>3. CASE u = t
      BY <1>1, <1>4, <1>n, <1>k, <3>3, SMTT(40)
    <3>4. CASE u # m /\ u # t
      BY <1>3, <1>n, <1>k, <2>0, <3>1, <3>4, SMTT(30)
    <3> QED BY <3>2, <3>3, <3>4
  <2>2. \A d \in CPUs : cpu'[d].pc \in OnWay => d \in task'[cpu'[d].current].cpumask
    <3>1. \A d \in CPUs : cpu[d].current \in AllTasks
      BY DEF Core, TypeOK, CPUType
    <3>2. c \in task'[m].cpumask
      BY <1>1, <1>m, <1>n, SMTT(40) DEF Core, OwnTasksKept
    <3> QED BY <1>4, <1>n, <1>k, <3>1, <3>2, SMTT(30) DEF Core, RunningKept
  <2>3. \A u \in Tasks : task'[u].pc = "new" => task'[u].state = "Ready" /\ ~task'[u].on_cpu
    <3>1. \A u \in Tasks : u # m /\ u \in AllTasks
      BY <1>m DEF AllTasks
    <3> QED BY <1>4, <1>n, <3>1 DEF Core, RunningKept
  <2> QED BY <2>1, <2>2, <2>3 DEF RunningKept
<1>p. /\ Cr(c) = {} /\ Cr(c)' = {t}
      /\ \A d \in CPUs : (d # c => Cr(d)' = Cr(d)) /\ Wk(d)' = Wk(d) /\ Rq(d)' = Rq(d)
      /\ task[m].state # "Running"
  <2>1. Members(<<t>>) = {t} /\ Members(<<>>) = {}
    BY DEF Members
  <2>2. task[m].state # "Running"
    BY <1>1, <1>6 DEF Core, RunningKept, Held
  <2>3. task[m].moved = <<>>
    BY <1>m, <2>2 DEF Core, PlacesKept, MigratorsCarry
  <2>4. Cr(c) = Members(task[m].moved) /\ Cr(c)' = Members(task'[m].moved)
    BY <1>m DEF Cr
  <2>5. \A d \in CPUs : (d # c => Cr(d)' = Cr(d)) /\ Wk(d)' = Wk(d) /\ Rq(d)' = Rq(d)
    BY <1>m, <1>n, <1>k, SMTT(40) DEF Wk, Cr, Rq
  <2> QED BY <1>n, <2>1, <2>2, <2>3, <2>4, <2>5
<1>q. PlacesKept'
  <2>1. \A d \in CPUs : \A u \in Rq(d)' \cup Wk(d)' \cup Cr(d)' : u = t \/ u \in Rq(d) \cup Wk(d) \cup Cr(d)
    BY <1>p, SMTT(40)
  <2>2. \A d \in CPUs : \A u \in Rq(d)' \cup Wk(d)' \cup Cr(d)' :
            u \in Tasks /\ task'[u].state = "Ready" /\ task'[u].pc # "new"
    <3>1. \A u \in Tasks : u # m /\ u \in AllTasks
      BY <1>m DEF AllTasks
    <3> QED BY <1>3, <1>4, <1>n, <2>1, <3>1, SMTT(30) DEF Core, PlacesKept
  <2>3. \A d, e \in CPUs : /\ Rq(d)' \cap Wk(e)' = {} /\ Rq(d)' \cap Cr(e)' = {} /\ Wk(d)' \cap Cr(e)' = {}
                           /\ d # e => Rq(d)' \cap Rq(e)' = {} /\ Wk(d)' \cap Wk(e)' = {} /\ Cr(d)' \cap Cr(e)' = {}
    BY <1>4, <1>p, SMTT(40) DEF Core, PlacesKept
  <2>4. \A d \in CPUs : Distinct(cpu'[d].rq) /\ (cpu'[d].pc = "spin" <=> cpu'[d].wake.task # None)
    BY <1>3, <1>k, SMTT(30) DEF Core, PlacesKept
  <2>5. \A d \in CPUs : cpu'[d].pc = "spin" => cpu'[d].wake.cpu \in task'[cpu'[d].wake.task].cpumask
    <3>1. \A d \in CPUs : cpu[d].pc = "spin" => cpu[d].wake.task \in Wk(d) /\ cpu[d].wake.task \in AllTasks
      BY DEF Core, PlacesKept, Wk, AllTasks
    <3> QED BY <1>4, <1>k, <1>n, <3>1, SMTT(30) DEF Core, PlacesKept
  <2>6. \A d \in CPUs : \A u \in Rq(d)' : d \in task'[u].cpumask
    BY <1>4, <1>n, <1>p, <2>2, SMTT(30) DEF Core, PlacesKept, AllTasks
  <2>7. MigratorsCarry'
    <3> SUFFICES ASSUME NEW d \in CPUs
                 PROVE  IF task'[Migrator[d]].state = "Running"
                        THEN \E u \in Tasks : task'[Migrator[d]].moved = <<u>>
                        ELSE task'[Migrator[d]].moved = <<>>
      BY DEF MigratorsCarry
    <3>1. CASE d = c
      BY <1>3, <1>m, <1>n, <3>1, SMTT(40)
    <3>2. CASE d # c
      <4>1. /\ task'[Migrator[d]].state = task[Migrator[d]].state
            /\ task'[Migrator[d]].moved = task[Migrator[d]].moved
        BY <1>m, <1>n, <3>2, SMTT(40)
      <4>2. IF task[Migrator[d]].state = "Running" THEN \E u \in Tasks : task[Migrator[d]].moved = <<u>>
                                                   ELSE task[Migrator[d]].moved = <<>>
        BY DEF Core, PlacesKept, MigratorsCarry
      <4> QED BY <4>1, <4>2, SMTT(40)
    <3> QED BY <3>1, <3>2
  <2>8. \A u \in Tasks : task'[u].state = "Ready" /\ task'[u].pc # "new" =>
            \E d \in CPUs : u \in Rq(d)' \cup Wk(d)' \cup Cr(d)'
    <3> SUFFICES ASSUME NEW u \in Tasks, task'[u].state = "Ready", task'[u].pc # "new"
                 PROVE  \E d \in CPUs : u \in Rq(d)' \cup Wk(d)' \cup Cr(d)'
      OBVIOUS
    <3>1. CASE u = t
      BY <1>p, <3>1
    <3>2. CASE u # t
      <4>1. u # m /\ u \in AllTasks
        BY <1>m, SMTT(40) DEF AllTasks
      <4>2. PICK d \in CPUs : u \in Rq(d) \cup Wk(d) \cup Cr(d)
        BY <1>n, <3>2, <4>1, SMTT(40) DEF Core, PlacesKept
      <4> QED BY <1>p, <4>2
    <3> QED BY <3>1, <3>2
  <2> QED BY <2>2, <2>3, <2>4, <2>5, <2>6, <2>7, <2>8 DEF PlacesKept
<1>8. HandedOver'
  <2> SUFFICES ASSUME NEW d \in CPUs, NEW u \in Rq(d)' \cup Cr(d)', task'[u].on_cpu
               PROVE  u \in Held(d)'
    BY DEF HandedOver
  <2>1. CASE u = t
    BY <1>4, <1>6, <1>p, <2>1
  <2>2. CASE u # t
    <3>1. u \in Rq(d) \cup Cr(d)
      BY <1>p, <2>2, SMTT(30)
    <3>2. u \in AllTasks /\ u # m
      BY <1>m, <3>1 DEF Core, PlacesKept, AllTasks
    <3>3. u \in Held(d)
      BY <1>n, <3>1, <3>2 DEF Core, HandedOver
    <3> QED BY <1>6, <2>2, <3>3
  <2> QED BY <2>1, <2>2
<1> QED BY <1>5, <1>7, <1>8, <1>o, <1>q, <1>r, SMTT(40) DEF Core

\* migrate_entry on CPU c.
LEMMA MigrateEntryKeeps ==
    ASSUME Core, NEW c \in CPUs, NEW x, MigrateIs(c, x)
    PROVE  Core'
<1> DEFINE m == Migrator[c]
           t == Head(task[m].moved)
           r == [task[m] EXCEPT !.state = "Exited", !.moved = <<>>]
           j == [cpu[x] EXCEPT !.rq = Append(cpu[x].rq, t)]
           cpu1 == [cpu EXCEPT ![x] = j]
           k == [cpu1[c] EXCEPT !.pc = "pick"]
<1>1. /\ c \in CPUs /\ x \in CPUs /\ m \in AllTasks /\ m \notin Tasks /\ t \in Tasks /\ task[m].moved = <<t>>
      /\ cpu[c].current = m /\ cpu[c].pc = "run" /\ x \in task[t].cpumask /\ <<>> \in Seq(AllTasks)
  <2>1. /\ m \in AllTasks /\ m \notin Tasks /\ cpu[c].current = m /\ cpu[c].pc = "run" /\ x \in task[t].cpumask
        /\ "run" \in OnWay
    BY SchedAssumption DEF MigrateIs, Executes, AllTasks, OnWay
  <2>2. task[m].state = "Running"
    BY <2>1, SMTT(40) DEF Core, RunningKept
  <2>3. PICK u \in Tasks : task[m].moved = <<u>>
    BY <2>2 DEF Core, PlacesKept, MigratorsCarry
  <2>4. t \in Tasks /\ task[m].moved = <<t>>
    BY <2>3
  <2>5. x \in CPUs
    BY <2>1, <2>4, Zenon DEF Core, TypeOK, TaskType, AllTasks
  <2> QED BY <2>1, <2>4, <2>5
<1>2. /\ task' = [task EXCEPT ![m] = r]
      /\ cpu' = [cpu1 EXCEPT ![c] = k]
      /\ UNCHANGED <<wq, wq_lock, next_ticket>>
  BY Zenon DEF MigrateIs
<1>t1a. task[m] \in TaskType
  BY <1>1 DEF Core, TypeOK
<1>t1b. r \in TaskType
  BY <1>1, <1>t1a, Zenon DEF TaskType
<1>t1c. /\ r.state = "Exited" /\ r.on_cpu = task[m].on_cpu /\ r.in_wait_queue = task[m].in_wait_queue
      /\ r.cpumask = task[m].cpumask /\ r.timer_ticket = task[m].timer_ticket /\ r.saved = task[m].saved
      /\ r.waitq = task[m].waitq /\ r.timeout = task[m].timeout /\ r.pc = task[m].pc
      /\ r.moved = <<>>
  BY <1>t1a DEF TaskType
<1> HIDE DEF r
<1>t1d. /\ task' \in [AllTasks -> TaskType]
      /\ \A u \in AllTasks : task'[u] = IF u = m THEN r ELSE task[u]
  BY <1>1, <1>2, <1>t1b, SMTT(40) DEF Core, TypeOK
<1>k1a. cpu[x] \in CPUType
  BY <1>1 DEF Core, TypeOK
<1>k1b. j \in CPUType
  <2> DEFINE q == Append(cpu[x].rq, t)
  <2>1. q \in Seq(AllTasks)
    BY <1>1, <1>k1a DEF CPUType, AllTasks
  <2> HIDE DEF q
  <2>2. j = [cpu[x] EXCEPT !.rq = q]
    BY DEF q
  <2> QED BY <2>1, <2>2, <1>k1a, SMTT(30) DEF CPUType
<1>k1c. /\ j.current = cpu[x].current /\ j.prev = cpu[x].prev /\ j.rq = Append(cpu[x].rq, t)
      /\ j.timers = cpu[x].timers /\ j.pc = cpu[x].pc /\ j.wake = cpu[x].wake
  BY <1>k1a DEF CPUType
<1> HIDE DEF j
<1>k1d. /\ cpu1 \in [CPUs -> CPUType]
      /\ \A d \in CPUs : cpu1[d] = IF d = x THEN j ELSE cpu[d]
  BY <1>1, <1>2, <1>k1b, SMTT(40) DEF Core, TypeOK
<1> HIDE DEF cpu1
<1>k2a. cpu1[c] \in CPUType
  BY <1>1, <1>k1d DEF Core, TypeOK
<1>k2b. k \in CPUType
  BY <1>1, <1>k2a DEF CPUType
<1>k2c. /\ k.current = cpu1[c].current /\ k.prev = cpu1[c].prev /\ k.rq = cpu1[c].rq
      /\ k.timers = cpu1[c].timers /\ k.pc = "pick" /\ k.wake = cpu1[c].wake
  BY <1>k2a, SMTT(40) DEF CPUType
<1> HIDE DEF k
<1>k2d. /\ cpu' \in [CPUs -> CPUType]
      /\ \A d \in CPUs : cpu'[d] = IF d = c THEN k ELSE cpu1[d]
  BY <1>1, <1>2, <1>k2b, <1>k1d, SMTT(40) DEF Core, TypeOK
<1>3. t \in AllTasks /\ t # m
  BY <1>1 DEF AllTasks
<1> HIDE DEF t, m
<1>4. /\ \A d \in CPUs : /\ cpu'[d].current = cpu[d].current /\ cpu'[d].prev = cpu[d].prev
                         /\ cpu'[d].wake = cpu[d].wake
                         /\ d # c => cpu'[d].pc = cpu[d].pc
                         /\ cpu'[d].rq = IF d = x THEN Append(cpu[d].rq, t) ELSE cpu[d].rq
      /\ cpu'[c].pc = "pick"
  <2>1. \A d \in CPUs \ {c} : cpu'[d] = cpu1[d]
    BY <1>k1c, <1>k1d, <1>k2c, <1>k2d
  <2>2. /\ cpu'[c].pc = "pick" /\ cpu'[c].current = cpu1[c].current /\ cpu'[c].prev = cpu1[c].prev
        /\ cpu'[c].wake = cpu1[c].wake /\ cpu'[c].rq = cpu1[c].rq
    BY <1>1, <1>k1c, <1>k1d, <1>k2c, <1>k2d
  <2>3. \A d \in CPUs : /\ cpu1[d].current = cpu[d].current /\ cpu1[d].prev = cpu[d].prev
                        /\ cpu1[d].wake = cpu[d].wake /\ cpu1[d].pc = cpu[d].pc
                        /\ d = x => cpu1[d].rq = Append(cpu[d].rq, t)
                        /\ d # x => cpu1[d].rq = cpu[d].rq
    BY <1>k1c, <1>k1d, Zenon
  <2> QED BY <2>1, <2>2, <2>3, ZenonT(30)
<1>5. TypeOK'
  BY <1>2, <1>t1d, <1>k2d DEF Core, TypeOK
<1>n. /\ \A u \in AllTasks : /\ task'[u].saved = task[u].saved /\ task'[u].cpumask = task[u].cpumask
                             /\ task'[u].pc = task[u].pc /\ task'[u].on_cpu = task[u].on_cpu
                             /\ u # m => task'[u].state = task[u].state /\ task'[u].moved = task[u].moved
      /\ task'[m].state = "Exited" /\ task'[m].moved = <<>>
  BY <1>1, <1>t1c, <1>t1d
<1>6. HwSame
  BY <1>1, <1>4, <1>n DEF HwSame
<1>7. CpusKept' /\ \A d \in CPUs : Held(d)' = Held(d)
  BY <1>6, HwFrame DEF Core
<1>m. /\ \A d \in CPUs : /\ Idle[d] \in AllTasks \ Tasks /\ Migrator[d] \in AllTasks \ Tasks /\ Idle[d] # m
                         /\ d # c => Migrator[d] # m
      /\ m = Migrator[c]
  BY SchedAssumption DEF AllTasks, m
<1>o. OwnTasksKept'
  <2>1. \A d, e \in CPUs : d # e => Idle[d] \notin Held(e)' /\ Migrator[d] \notin Held(e)'
    BY <1>7, SMTT(30) DEF Core, OwnTasksKept
  <2>2. \A d \in CPUs : /\ task'[Idle[d]].pc = "run" /\ task'[Idle[d]].state \in {"Running", "Ready"}
                        /\ task'[Migrator[d]].pc = "migrate" /\ task'[Migrator[d]].state # "Blocked"
                        /\ task'[Idle[d]].cpumask = CPUs /\ task'[Migrator[d]].cpumask = CPUs
    BY <1>m, <1>n DEF Core, OwnTasksKept
  <2>3. \A u \in Tasks : task'[u].pc # "migrate"
    BY <1>n DEF Core, OwnTasksKept, AllTasks
  <2> QED BY <2>1, <2>2, <2>3, SMTT(30) DEF OwnTasksKept
<1>r. RunningKept'
  <2>0. /\ cpu'[c].pc \notin OnWay
        /\ \A d \in CPUs : d # c => cpu[d].current # m
    BY <1>1, <1>4, CurrentsDiffer DEF OnWay
  <2>1. \A u \in AllTasks : task'[u].state = "Running" <=>
            \E d \in CPUs : cpu'[d].current = u /\ cpu'[d].pc \in OnWay
    <3> SUFFICES ASSUME NEW u \in AllTasks
                 PROVE  task'[u].state = "Running" <=> \E d \in CPUs : cpu'[d].current = u /\ cpu'[d].pc \in OnWay
      OBVIOUS
    <3>1. task[u].state = "Running" <=> \E d \in CPUs : cpu[d].current = u /\ cpu[d].pc \in OnWay
      BY DEF Core, RunningKept
    <3>2. CASE u = m
      BY <1>4, <1>n, <2>0, <3>2, SMTT(30)
    <3>3. CASE u # m
      BY <1>1, <1>4, <1>n, <2>0, <3>1, <3>3, SMTT(30)
    <3> QED BY <3>2, <3>3
  <2>2. \A d \in CPUs : cpu'[d].pc \in OnWay => d \in task'[cpu'[d].current].cpumask
    <3>1. \A d \in CPUs : cpu[d].current \in AllTasks
      BY DEF Core, TypeOK, CPUType
    <3> QED BY <1>4, <1>n, <2>0, <3>1, SMTT(40) DEF Core, RunningKept
  <2>3. \A u \in Tasks : task'[u].pc = "new" => task'[u].state = "Ready" /\ ~task'[u].on_cpu
    BY <1>1, <1>n DEF Core, RunningKept, AllTasks
  <2> QED BY <2>1, <2>2, <2>3 DEF RunningKept
<1>p. /\ Cr(c) = {t} /\ Cr(c)' = {}
      /\ \A d \in CPUs : (d # c => Cr(d)' = Cr(d) /\ t \notin Cr(d)) /\ Wk(d)' = Wk(d) /\ t \notin Wk(d) /\ t \notin Rq(d)
  <2>1. Cr(c) = {t} /\ Cr(c)' = {}
    <3>1. Members(<<t>>) = {t} /\ Members(<<>>) = {}
      BY DEF Members
    <3>2. Cr(c) = Members(task[m].moved) /\ Cr(c)' = Members(task'[m].moved)
      BY <1>m DEF Cr
    <3> QED BY <1>1, <1>n, <3>1, <3>2
  <2>2. \A d \in CPUs : (d # c => Cr(d)' = Cr(d)) /\ Wk(d)' = Wk(d)
    BY <1>4, <1>m, <1>n, SMTT(30) DEF Wk, Cr
  <2>3. \A d \in CPUs : (d # c => t \notin Cr(d)) /\ t \notin Wk(d) /\ t \notin Rq(d)
    BY <2>1, SMTT(30) DEF Core, PlacesKept
  <2> QED BY <2>1, <2>2, <2>3, SMTT(40)
<1>q. PlacesKept' /\ \A d \in CPUs : Rq(d)' = IF d = x THEN Rq(d) \cup {t} ELSE Rq(d)
  <2>1. \A d \in CPUs : cpu'[d].rq = IF d = x THEN Append(cpu[d].rq, t) ELSE cpu[d].rq
    BY <1>4
  <2>2. \A d \in CPUs : t \notin Rq(d) /\ t \notin Wk(d)' /\ t \notin Cr(d)'
    BY <1>p
  <2>3. \A d \in CPUs : Wk(d)' = Wk(d) \ {t} /\ Cr(d)' = Cr(d) \ {t}
    BY <1>p, SMTT(30)
  <2>4. \A d \in CPUs : cpu'[d].pc = "spin" <=> cpu'[d].wake.task # None
    BY <1>1, <1>4, SMTT(30) DEF Core, PlacesKept
  <2>5. \A u \in Tasks \ {t} : /\ task'[u].state = "Ready" <=> task[u].state = "Ready"
                               /\ task'[u].pc = "new" <=> task[u].pc = "new"
                               /\ task'[u].cpumask = task[u].cpumask
    BY <1>1, <1>n, SMTT(30) DEF AllTasks
  <2>6. task'[t].state = "Ready" /\ task'[t].pc # "new" /\ x \in task'[t].cpumask
    BY <1>1, <1>3, <1>n, <1>p, SMTT(30) DEF Core, PlacesKept
  <2>7. MigratorsCarry'
    <3> SUFFICES ASSUME NEW d \in CPUs
                 PROVE  IF task'[Migrator[d]].state = "Running"
                        THEN \E u \in Tasks : task'[Migrator[d]].moved = <<u>>
                        ELSE task'[Migrator[d]].moved = <<>>
      BY DEF MigratorsCarry
    <3>1. CASE d = c
      BY <1>m, <1>n, <3>1, SMTT(40)
    <3>2. CASE d # c
      <4>1. /\ task'[Migrator[d]].state = task[Migrator[d]].state
            /\ task'[Migrator[d]].moved = task[Migrator[d]].moved
        BY <1>m, <1>n, <3>2, SMTT(30)
      <4>2. IF task[Migrator[d]].state = "Running" THEN \E u \in Tasks : task[Migrator[d]].moved = <<u>>
                                                   ELSE task[Migrator[d]].moved = <<>>
        BY DEF Core, PlacesKept, MigratorsCarry
      <4> QED BY <4>1, <4>2
    <3> QED BY <3>1, <3>2
  <2>8. \A d \in CPUs : cpu'[d].pc = "spin" => cpu[d].pc = "spin" /\ cpu'[d].wake = cpu[d].wake
    BY <1>4
  <2> QED BY <1>1, <2>1, <2>2, <2>3, <2>4, <2>5, <2>6, <2>7, <2>8, EnqueueKeeps, SMTT(40) DEF Core
<1>8. HandedOver'
  <2>1. \A d \in CPUs : (t \in Rq(d)' => d = x) /\ Rq(d)' \subseteq Rq(d) \cup {t} /\ Cr(d)' \subseteq Cr(d)
    BY <1>p, <1>q
  <2>2. ~task[t].on_cpu
    <3>1. task[t].on_cpu => t \in Held(c)
      BY <1>p DEF Core, HandedOver
    <3> QED BY <1>1, <1>3, <3>1 DEF Held
  <2> QED BY <1>1, <1>3, <1>6, <1>7, <2>1, <2>2, HandedEnqueue, SMTT(40) DEF Core
<1> QED BY <1>5, <1>7, <1>8, <1>o, <1>q, <1>r, SMTT(30) DEF Core
-----------------------------------------------------------------------------
(* Every state.                                                            *)

\* The steps of Spec keep Core, and the waits and timers with it.
LEMMA StepKeeps ==
    ASSUME Core, NEW c \in CPUs, SchedStep(c) \/ TaskStep(c)
    PROVE  Core' /\ (WaitsKept /\ TimersKept => WaitsKept' /\ TimersKept')
<1>1. CASE SchedStep(c)
  BY <1>1, ReschedKeeps, SwitchKeeps, ClearKeeps, BlockedReschedKeeps, PutTaskKeeps, SMTT(40) DEF SchedStep
<1>2. CASE YieldCurrent(c) \/ SleepUntil(c) \/ Slept(c) \/ ExitCurrent(c) \/ ReadTimeout(c) \/ CancelEvents(c)
  BY <1>2, YieldKeeps, SleepKeeps, SleptKeeps, ExitKeeps, ReadTimeoutKeeps, CancelKeeps
<1>3. ASSUME NEW q \in Queues, NotifyOne(c, q)
      PROVE  Core' /\ (WaitsKept /\ TimersKept => WaitsKept' /\ TimersKept')
  <2>1. CASE task[Head(wq[q])].state = "Blocked"
    <3>1. PICK x \in task[Head(wq[q])].cpumask : cpu' = [cpu EXCEPT ![c] = Waking(cpu[c], Head(wq[q]), x, q)]
      BY <1>3, <2>1 DEF NotifyOne
    <3> QED BY <1>3, <2>1, <3>1, NotifyWakes, Zenon
  <2>2. CASE task[Head(wq[q])].state # "Blocked"
    BY <1>3, <2>2, NotifySkips
  <2> QED BY <2>1, <2>2, SMTT(30)
<1>4. ASSUME NEW q \in Queues, NEW timed \in BOOLEAN, Wait(c, q, timed)
      PROVE  Core' /\ (WaitsKept /\ TimersKept => WaitsKept' /\ TimersKept')
  BY <1>4, WaitKeeps
<1>5. CASE CheckEvents(c)
  <2>1. PICK e \in cpu[c].timers :
            /\ IrqsEnabled(c)
            /\ \/ /\ task[e[1]].timer_ticket = e[2]
                  /\ task[e[1]].state = "Blocked"
                  /\ task' = [task EXCEPT ![e[1]].state = "Ready"]
                  /\ \E x \in task[e[1]].cpumask :
                        cpu' = [cpu EXCEPT ![c] = Waking([cpu[c] EXCEPT !.timers = @ \ {e}], e[1], x, None)]
               \/ /\ task[e[1]].timer_ticket # e[2] \/ task[e[1]].state # "Blocked"
                  /\ cpu' = [cpu EXCEPT ![c] = [cpu[c] EXCEPT !.timers = @ \ {e}]]
                  /\ UNCHANGED task
            /\ UNCHANGED <<wq, wq_lock, next_ticket>>
    BY <1>5, Zenon DEF CheckEvents
  <2>2. CASE /\ task[e[1]].timer_ticket = e[2]
             /\ task[e[1]].state = "Blocked"
             /\ task' = [task EXCEPT ![e[1]].state = "Ready"]
             /\ \E x \in task[e[1]].cpumask :
                   cpu' = [cpu EXCEPT ![c] = Waking([cpu[c] EXCEPT !.timers = @ \ {e}], e[1], x, None)]
    <3>1. PICK x \in task[e[1]].cpumask :
              cpu' = [cpu EXCEPT ![c] = Waking([cpu[c] EXCEPT !.timers = @ \ {e}], e[1], x, None)]
      BY <2>2, Zenon
    <3>2. TimerFires(c, e, x)
      BY <2>1, <2>2, <3>1, Zenon DEF TimerFires
    <3> QED BY <3>2, TimerWakes
  <2>3. CASE /\ task[e[1]].timer_ticket # e[2] \/ task[e[1]].state # "Blocked"
             /\ cpu' = [cpu EXCEPT ![c] = [cpu[c] EXCEPT !.timers = @ \ {e}]]
             /\ UNCHANGED task
    BY <2>1, <2>3, TimerSkips, Zenon
  <2> QED BY <2>1, <2>2, <2>3
<1>6. ASSUME NEW t \in Tasks, SpawnTask(c, t)
      PROVE  Core' /\ (WaitsKept /\ TimersKept => WaitsKept' /\ TimersKept')
  <2>1. PICK x \in task[t].cpumask : cpu' = [cpu EXCEPT ![x].rq = Append(@, t)]
    BY <1>6, Zenon DEF SpawnTask
  <2>2. SpawnIs(c, t, x)
    BY <1>6, <2>1, Zenon DEF SpawnTask, SpawnIs
  <2> QED BY <2>2, SpawnKeeps
<1> QED BY <1>1, <1>2, <1>3, <1>4, <1>5, <1>6, SMTT(40) DEF TaskStep

\* The steps of migration and of requeue keep Core.
LEMMA MoveKeeps ==
    ASSUME Core, NEW c \in CPUs, Affinity(c) \/ Requeue(c)
    PROVE  Core'
<1>1. ASSUME MigrateEntry(c) PROVE Core'
  <2> DEFINE m == cpu[c].current
             t == Head(task[m].moved)
  <2>1. m = Migrator[c]
    <3>1. task[m].pc = "migrate" /\ m \in AllTasks /\ m \in Held(c)
      BY <1>1, SMTT(30) DEF MigrateEntry, Executes, Core, TypeOK, CPUType, Held
    <3>2. PICK d \in CPUs : m = Migrator[d]
      BY <3>1, SMTT(30) DEF Core, OwnTasksKept, AllTasks
    <3> QED BY <3>1, <3>2, SMTT(40) DEF Core, OwnTasksKept
  <2>2. PICK x \in task[t].cpumask : cpu' = [cpu EXCEPT ![x].rq = Append(@, t), ![c].pc = "pick"]
    BY <1>1, ZenonT(30) DEF MigrateEntry
  <2>3. MigrateIs(c, x)
    BY <1>1, <2>1, <2>2, Zenon DEF MigrateEntry, MigrateIs
  <2> QED BY <2>3, MigrateEntryKeeps, SMTT(40)
<1>2. ASSUME NEW mask \in SUBSET CPUs, MigrateCurrent(c, mask) \/ SetCurrentAffinity(c, mask) PROVE Core'
  BY <1>2, MigrateCurrentKeeps, SetAffinityKeeps
<1>3. ASSUME NEW q \in Queues, NEW count \in 1..Len(wq[q]), RequeueDrain(c, q, count) PROVE Core'
  BY <1>3, DrainKeeps
<1>4. ASSUME NEW q \in Queues, RequeueExtend(c, q) PROVE Core'
  BY <1>4, ExtendKeeps
<1> QED BY <1>1, <1>2, <1>3, <1>4, SMTT(40) DEF Affinity, Requeue

\* A step that changes nothing.
LEMMA StutterKeeps ==
    ASSUME Core, UNCHANGED vars
    PROVE  Core' /\ (WaitsKept /\ TimersKept => WaitsKept' /\ TimersKept')
<1>1. task' = task /\ cpu' = cpu /\ wq' = wq /\ wq_lock' = wq_lock /\ next_ticket' = next_ticket
  BY DEF vars
<1>2. TypeOK'
  BY <1>1 DEF Core, TypeOK
<1>3. (\A u \in AllTasks : TaskSame(u)) /\ \A d \in CPUs : CpuSame(d)
  <2>1. \A u \in AllTasks : TaskSame(u)
    BY <1>1, OwnPcs DEF TaskSame
  <2>2. \A d \in CPUs : CpuSame(d)
    BY <1>1, SMTT(40) DEF CpuSame
  <2> QED BY <2>1, <2>2
<1>4. WaitsKept => WaitsKept'
  BY <1>1, WaitsFrame
<1>5. TimersKept => TimersKept'
  BY <1>1, TimersFrame
<1> QED BY <1>2, <1>3, <1>4, <1>5, CoreFrame

\* The tasks that init makes: those that wait in a run queue or are still to be
\* created, and the ones that the CPUs run.
LEMMA FirstTasks ==
    /\ NewTask \in TaskType /\ BootTask \in TaskType
    /\ NewTask.state = "Ready" /\ NewTask.on_cpu = FALSE /\ NewTask.in_wait_queue = FALSE
    /\ NewTask.cpumask = CPUs /\ NewTask.timer_ticket = 0 /\ NewTask.saved = TRUE
    /\ NewTask.pc = "new" /\ NewTask.moved = <<>>
    /\ BootTask.state = "Running" /\ BootTask.on_cpu = TRUE /\ BootTask.in_wait_queue = FALSE
    /\ BootTask.cpumask = CPUs /\ BootTask.timer_ticket = 0 /\ BootTask.saved = FALSE
    /\ BootTask.pc = "run" /\ BootTask.moved = <<>>
<1>1. NewTask \in TaskType
  <2>1. 0 \in 0..MaxTicket /\ <<>> \in Seq(AllTasks)
    BY SchedAssumption
  <2> QED BY <2>1 DEF TaskType, NewTask
<1>2. BootTask \in TaskType
  BY <1>1, Zenon DEF TaskType, BootTask
<1>3. /\ NewTask.state = "Ready" /\ NewTask.on_cpu = FALSE /\ NewTask.in_wait_queue = FALSE
      /\ NewTask.cpumask = CPUs /\ NewTask.timer_ticket = 0 /\ NewTask.saved = TRUE
      /\ NewTask.pc = "new" /\ NewTask.moved = <<>>
  BY DEF NewTask
<1>4. /\ BootTask.state = "Running" /\ BootTask.on_cpu = TRUE /\ BootTask.in_wait_queue = FALSE
      /\ BootTask.cpumask = CPUs /\ BootTask.timer_ticket = 0 /\ BootTask.saved = FALSE
      /\ BootTask.pc = "run" /\ BootTask.moved = <<>>
  BY <1>1 DEF BootTask, NewTask
<1> QED BY <1>1, <1>2, <1>3, <1>4

\* The same for the tasks that differ from a new one in their position.
LEMMA PlacedTask ==
    ASSUME NEW p \in {"run", "migrate"}, NEW r, r = [NewTask EXCEPT !.pc = p]
    PROVE  /\ r \in TaskType /\ r.state = "Ready" /\ r.on_cpu = FALSE /\ r.in_wait_queue = FALSE
           /\ r.cpumask = CPUs /\ r.timer_ticket = 0 /\ r.saved = TRUE /\ r.pc = p /\ r.moved = <<>>
<1>1. r \in TaskType
  BY FirstTasks DEF TaskType
<1> QED BY <1>1, FirstTasks DEF TaskType

\* The state that init and init_secondary make.
LEMMA InitIInv == Init => IInv
<1> SUFFICES ASSUME Init PROVE IInv
  OBVIOUS
<1> DEFINE boot(c) == IF c = BootCPU THEN Main ELSE Idle[c]
<1>1. /\ Main \in AllTasks /\ Main \in Tasks /\ BootCPU \in CPUs
      /\ \A c \in CPUs : /\ boot(c) \in AllTasks /\ Idle[c] \in AllTasks /\ Idle[c] \notin Tasks
                         /\ Migrator[c] \in AllTasks /\ Migrator[c] \notin Tasks
      /\ \A c, d \in CPUs : Idle[c] # Migrator[d]
      /\ \A c, d \in CPUs : c # d => Idle[c] # Idle[d] /\ Migrator[c] # Migrator[d]
  BY SchedAssumption DEF AllTasks
<1> DEFINE ready == [NewTask EXCEPT !.pc = "run"]
           mover == [NewTask EXCEPT !.pc = "migrate"]
<1>2. /\ ready \in TaskType /\ ready.state = "Ready" /\ ready.on_cpu = FALSE /\ ready.in_wait_queue = FALSE
      /\ ready.cpumask = CPUs /\ ready.timer_ticket = 0 /\ ready.saved = TRUE /\ ready.pc = "run" /\ ready.moved = <<>>
  BY PlacedTask, Zenon
<1>2a. /\ mover \in TaskType /\ mover.state = "Ready" /\ mover.on_cpu = FALSE /\ mover.in_wait_queue = FALSE
       /\ mover.cpumask = CPUs /\ mover.timer_ticket = 0 /\ mover.saved = TRUE /\ mover.pc = "migrate" /\ mover.moved = <<>>
  BY PlacedTask, Zenon
<1>3. \A t \in AllTasks : task[t] = IF \E c \in CPUs : t = boot(c) THEN BootTask
                                    ELSE IF t = Idle[BootCPU] THEN ready
                                    ELSE IF t \in Tasks THEN NewTask
                                    ELSE mover
  BY <1>1 DEF Init
<1>3a. \A t \in AllTasks : task[t] \in {BootTask, ready, NewTask, mover}
  BY <1>3
<1> HIDE DEF ready, mover
<1>4. \A c \in CPUs : /\ cpu[c].current = boot(c) /\ cpu[c].prev = None /\ cpu[c].rq = <<>>
                      /\ cpu[c].timers = {} /\ cpu[c].pc = "run" /\ cpu[c].wake = NoWake
  BY Zenon DEF Init
<1>4a. NoWake.task = None
  BY DEF NoWake
<1>5. TypeOK
  <2>1. task \in [AllTasks -> TaskType]
    BY <1>2, <1>2a, <1>3a, FirstTasks, SMTT(40) DEF Init
  <2>2. cpu \in [CPUs -> CPUType]
    BY <1>1 DEF Init, CPUType, NoWake
  <2> QED BY <2>1, <2>2, SchedAssumption DEF Init, TypeOK
<1>6. \A c, d \in CPUs : c # d => boot(c) # boot(d)
  BY <1>1
<1>7. \A c \in CPUs : boot(c) # Migrator[c] /\ (boot(c) = Idle[BootCPU] => FALSE)
  BY <1>1, Zenon
<1>8. \A c, d \in CPUs : boot(c) # Migrator[d] /\ (c # d => boot(c) # Idle[d])
  BY <1>1
<1> HIDE DEF boot
<1>9. \A c \in CPUs : Held(c) = {boot(c)}
  BY <1>4, Zenon DEF Held
<1>10. \A t \in AllTasks :
          /\ task[t].on_cpu <=> \E c \in CPUs : t = boot(c)
          /\ task[t].saved <=> ~task[t].on_cpu
          /\ task[t].state = "Running" <=> \E c \in CPUs : t = boot(c)
          /\ task[t].state \in {"Running", "Ready"} /\ task[t].cpumask = CPUs /\ task[t].moved = <<>>
          /\ ~task[t].in_wait_queue /\ task[t].timer_ticket = 0
          /\ (\E c \in CPUs : t = boot(c)) => task[t].pc = "run"
          /\ task[t].pc \in {"new", "run", "migrate"}
  BY <1>2, <1>2a, <1>3, FirstTasks
<1>11. /\ \A c \in CPUs : task[Idle[c]].pc = "run" /\ task[Migrator[c]].pc = "migrate"
       /\ \A t \in Tasks : task[t].pc # "migrate" /\ (task[t].pc # "new" => \E c \in CPUs : t = boot(c))
  <2>1. \A c \in CPUs : task[Migrator[c]].pc = "migrate"
    <3> TAKE c \in CPUs
    <3>1. /\ Migrator[c] \in AllTasks /\ Migrator[c] \notin Tasks /\ Migrator[c] # Idle[BootCPU]
          /\ ~\E d \in CPUs : Migrator[c] = boot(d)
      BY <1>1, <1>8
    <3>2. task[Migrator[c]] = mover
      BY <1>3, <3>1, Zenon
    <3> QED BY <1>2a, <3>2
  <2>2. \A c \in CPUs : c = BootCPU \/ Idle[c] = boot(c)
    BY DEF boot
  <2>3. \A c \in CPUs : task[Idle[c]].pc = "run"
    <3> TAKE c \in CPUs
    <3>1. CASE Idle[c] = boot(c)
      BY <1>1, <1>10, <3>1
    <3>2. CASE c = BootCPU /\ Idle[c] # boot(c)
      <4>1. ~\E d \in CPUs : Idle[c] = boot(d)
        BY <1>8, <3>2
      <4>2. task[Idle[c]] = ready
        BY <1>1, <1>3, <3>2, <4>1, Zenon
      <4> QED BY <1>2, <4>2
    <3> QED BY <2>2, <3>1, <3>2
  <2>4. \A t \in Tasks : task[t].pc # "migrate" /\ (task[t].pc # "new" => \E c \in CPUs : t = boot(c))
    BY <1>1, <1>2, <1>3, FirstTasks, SMTT(40) DEF AllTasks
  <2> QED BY <2>1, <2>3, <2>4, SMTT(40)
<1>12. CpusKept
  BY <1>4, <1>6, <1>9, <1>10, SMTT(40) DEF CpusKept
<1>13. OwnTasksKept
  BY <1>1, <1>8, <1>9, <1>10, <1>11, SMTT(30) DEF OwnTasksKept
<1>14. RunningKept
  <2>1. \A t \in AllTasks : task[t].state = "Running" <=> \E c \in CPUs : cpu[c].current = t /\ cpu[c].pc \in OnWay
    BY <1>4, <1>10, SMTT(40) DEF OnWay
  <2>2. \A c \in CPUs : cpu[c].pc \in OnWay => c \in task[cpu[c].current].cpumask
    BY <1>1, <1>4, <1>10, SMTT(40) DEF boot
  <2>3. \A t \in Tasks : task[t].pc = "new" => task[t].state = "Ready" /\ ~task[t].on_cpu
    BY <1>10 DEF AllTasks
  <2> QED BY <2>1, <2>2, <2>3 DEF RunningKept
<1>15. \A c \in CPUs : Rq(c) = {} /\ Wk(c) = {} /\ Cr(c) = {} /\ Distinct(cpu[c].rq)
  <2> TAKE c \in CPUs
  <2>1. cpu[c].wake.task = None
    BY <1>4, <1>4a
  <2>2. Wk(c) = {}
    BY <2>1 DEF Wk
  <2>3. Rq(c) = {} /\ Distinct(cpu[c].rq)
    BY <1>4, EmptyQueue DEF Rq
  <2>4. Cr(c) = {}
    BY <1>1, <1>10, EmptyQueue DEF Cr
  <2> QED BY <2>2, <2>3, <2>4
<1>16. PlacesKept
  <2>1. MigratorsCarry
    <3> SUFFICES ASSUME NEW c \in CPUs
                 PROVE  task[Migrator[c]].state # "Running" /\ task[Migrator[c]].moved = <<>>
      BY Zenon DEF MigratorsCarry
    <3> QED BY <1>1, <1>8, <1>10
  <2>2. \A t \in Tasks : task[t].state = "Ready" /\ task[t].pc # "new" =>
            \E c \in CPUs : t \in Rq(c) \cup Wk(c) \cup Cr(c)
    BY <1>10, <1>11 DEF AllTasks
  <2>3. \A c \in CPUs : cpu[c].pc # "spin" /\ cpu[c].wake.task = None
    BY <1>4, <1>4a, Zenon
  <2> QED BY <1>15, <2>1, <2>2, <2>3, Zenon DEF PlacesKept
<1>17. HandedOver
  BY <1>15 DEF HandedOver
<1>18. WaitsKept
  <2>1. \A q \in Queues : Members(wq[q]) = {} /\ Distinct(wq[q])
    BY EmptyQueue DEF Init
  <2> QED BY <1>4, <1>10, <2>1, Zenon DEF WaitsKept, AllTasks
<1>19. TimersKept
  <2>1. next_ticket = 1 /\ \A t \in Tasks : task[t].timer_ticket = 0 /\ task[t].pc # "slept"
    BY <1>10, Zenon DEF Init, AllTasks
  <2> QED BY <1>4, <2>1 DEF TimersKept, TimerWakesItsWait
<1> QED BY <1>5, <1>12, <1>13, <1>14, <1>16, <1>17, <1>18, <1>19 DEF IInv, Core

\* Core holds always, with migration and requeue as well.
LEMMA AlwaysCore == SpecFull => []Core
<1>1. Init => Core
  BY InitIInv DEF IInv
<1>2. Core /\ [NextFull]_vars => Core'
  <2> SUFFICES ASSUME Core, [NextFull]_vars PROVE Core'
    OBVIOUS
  <2>1. CASE UNCHANGED vars
    BY <2>1, StutterKeeps
  <2>2. CASE NextFull
    BY <2>2, StepKeeps, MoveKeeps DEF NextFull, Next
  <2> QED BY <2>1, <2>2
<1> QED BY <1>1, <1>2, PTL DEF SpecFull

\* The waits and timers are kept too, when no task migrates or requeues.
LEMMA AlwaysIInv == Spec => []IInv
<1>1. IInv /\ [Next]_vars => IInv'
  <2> SUFFICES ASSUME IInv, [Next]_vars PROVE IInv'
    OBVIOUS
  <2>1. CASE UNCHANGED vars
    BY <2>1, StutterKeeps DEF IInv
  <2>2. CASE Next
    BY <2>2, StepKeeps DEF Next, IInv
  <2> QED BY <2>1, <2>2
<1> QED BY <1>1, InitIInv, PTL DEF Spec

\* No context is loaded before it was saved or used by two CPUs, whatever the CPUs,
\* tasks, wait queues, migrations and requeues: the on_cpu handshake of switch_to,
\* clear_prev_task_on_cpu and put_task_with_state is enough.
THEOREM ContextAlwaysSaved == SpecFull => []ContextSaved
<1>1. Core => ContextSaved
  <2> SUFFICES ASSUME Core PROVE ContextSaved
    OBVIOUS
  <2>1. \A c, d \in CPUs : c # d => cpu[c].current # cpu[d].current
    BY CurrentsDiffer
  <2>2. \A c \in CPUs : cpu[c].pc = "ctx" => task[cpu[c].current].saved
    BY SMTT(30) DEF Core, CpusKept
  <2> QED BY <2>1, <2>2 DEF ContextSaved
<1> QED BY <1>1, AlwaysCore, PTL

\* A task runs and is queued only where its affinity mask allows, also when
\* set_current_affinity moves it while other CPUs wake tasks onto the same queues.
THEOREM AffinityAlwaysRespected == SpecFull => []AffinityRespected
<1>1. Core => AffinityRespected
  BY Zenon DEF Core, RunningKept, PlacesKept, AffinityRespected, OnWay, Rq, Members, Entries
<1> QED BY <1>1, AlwaysCore, PTL

\* The CPU that spins in put_task_with_state waits for another CPU that goes on to
\* clear on_cpu without taking a wait queue's lock.
THEOREM SpinAlwaysEnds == SpecFull => []SpinEnds
<1>1. Core => SpinEnds
  <2> SUFFICES ASSUME Core, NEW c \in CPUs, cpu[c].pc = "spin", task[cpu[c].wake.task].on_cpu
               PROVE  \E d \in CPUs \ {c} :
                        \/ cpu[d].pc \in {"push", "pick"} /\ cpu[d].current = cpu[c].wake.task
                        \/ cpu[d].pc \in {"ctx", "clear"} /\ cpu[d].prev = cpu[c].wake.task
    BY SMTT(30) DEF SpinEnds
  <2> DEFINE t == cpu[c].wake.task
  <2>1. t \in Tasks /\ t \in AllTasks /\ task[t].state = "Ready"
    BY DEF Core, PlacesKept, Wk, AllTasks
  <2>2. PICK d \in CPUs : t \in Held(d)
    BY <2>1 DEF Core, CpusKept
  <2>3. cpu[d].pc \in {"run", "push", "pick", "ctx", "clear", "spin"}
    BY DEF Core, TypeOK, CPUType
  <2>4. \A e \in CPUs : cpu[e].pc \in OnWay => cpu[e].current # t
    BY <2>1 DEF Core, RunningKept
  <2>5. d # c
    BY <2>2, <2>4 DEF Held, OnWay
  <2>6. CASE t = cpu[d].current
    BY <2>3, <2>4, <2>5, <2>6 DEF OnWay
  <2>7. CASE t # cpu[d].current
    BY <2>2, <2>5, <2>7 DEF Held
  <2> QED BY <2>6, <2>7
<1> QED BY <1>1, AlwaysCore, PTL

\* An event left in a timer list can only wake the wait or sleep that set it.
THEOREM TimerAlwaysWakesItsWait == Spec => []TimerWakesItsWait
<1>1. IInv => TimerWakesItsWait
  BY DEF IInv, TimersKept
<1> QED BY <1>1, AlwaysIInv, PTL

\* No task is lost, queued twice or left Blocked where nobody finds it, for any
\* number of CPUs, tasks and wait queues.
THEOREM TasksNeverLost == Spec => []NoTaskLost
<1>1. IInv => NoTaskLost
  <2> SUFFICES ASSUME IInv PROVE NoTaskLost
    OBVIOUS
  <2>0. \A s : Entries(s) = Members(s)
    BY DEF Entries, Members
  <2>1. ReadyReachable
    <3> SUFFICES ASSUME NEW t \in Tasks, task[t].state = "Ready", task[t].pc # "new"
                 PROVE  \E c \in CPUs : \/ t \in Entries(cpu[c].rq)
                                        \/ cpu[c].wake.task = t
                                        \/ t \in Entries(task[Migrator[c]].moved)
      BY SMTT(40) DEF ReadyReachable
    <3>1. PICK c \in CPUs : t \in Rq(c) \cup Wk(c) \cup Cr(c)
      BY DEF IInv, Core, PlacesKept
    <3> QED BY <2>0, <3>1 DEF Rq, Wk, Cr
  <2>2. BlockedReachable
    <3> SUFFICES ASSUME NEW t \in Tasks, task[t].state = "Blocked"
                 PROVE  \/ \E q \in Queues : t \in Entries(wq[q])
                        \/ \E c \in CPUs : <<t, task[t].timer_ticket>> \in cpu[c].timers
                        \/ \E c \in CPUs : cpu[c].pc = "push" /\ cpu[c].current = t
      BY DEF BlockedReachable
    <3>1. CASE task[t].pc = "slept"
      BY <3>1 DEF IInv, TimersKept
    <3>2. CASE task[t].pc # "slept" /\ task[t].in_wait_queue
      <4>1. task[t].waitq \in Queues
        BY <3>2, SMTT(40) DEF IInv, WaitsKept
      <4>2. t \in Members(wq[task[t].waitq])
        BY <3>2, <4>1, SMTT(40) DEF IInv, WaitsKept
      <4> QED BY <2>0, <4>1, <4>2, SMTT(40)
    <3>3. CASE task[t].pc # "slept" /\ ~task[t].in_wait_queue
      BY <3>3 DEF IInv, WaitsKept
    <3> QED BY <3>1, <3>2, <3>3
  <2>3. QueuedOnce
    <3> SUFFICES ASSUME NEW c \in CPUs, NEW i \in 1..Len(cpu[c].rq)
                 PROVE  /\ task[cpu[c].rq[i]].state = "Ready"
                        /\ \A d \in CPUs : /\ cpu[d].wake.task # cpu[c].rq[i]
                                           /\ \A j \in 1..Len(cpu[d].rq) :
                                                 cpu[d].rq[j] = cpu[c].rq[i] => c = d /\ i = j
      BY DEF QueuedOnce
    <3> DEFINE t == cpu[c].rq[i]
    <3>1. t \in Rq(c)
      BY SMTT(40) DEF Rq, Members
    <3>2. task[t].state = "Ready" /\ t \in Tasks
      BY <3>1 DEF IInv, Core, PlacesKept
    <3>3. \A d \in CPUs : cpu[d].wake.task # t
      <4>1. t # None
        BY <3>2, SchedAssumption, SMTT(30) DEF AllTasks
      <4>2. \A d \in CPUs : t \notin Wk(d)
        BY <3>1, SMTT(40) DEF IInv, Core, PlacesKept
      <4> QED BY <4>1, <4>2, Zenon DEF Wk
    <3>4. ASSUME NEW d \in CPUs, NEW j \in 1..Len(cpu[d].rq), cpu[d].rq[j] = t
          PROVE  c = d /\ i = j
      <4>1. t \in Rq(d)
        BY <3>4, SMTT(40) DEF Rq, Members
      <4>2. c = d
        BY <3>1, <4>1, SMTT(30) DEF IInv, Core, PlacesKept
      <4>3. Distinct(cpu[c].rq)
        BY SMTT(40) DEF IInv, Core, PlacesKept
      <4> QED BY <3>4, <4>2, <4>3 DEF Distinct
    <3> QED BY <3>2, <3>3, <3>4, SMTT(40)
  <2>4. QueuedTasksWait
    BY <2>0 DEF QueuedTasksWait, IInv, WaitsKept, Distinct
  <2>5. TypeOK
    BY DEF IInv, Core
  <2> QED BY <2>1, <2>2, <2>3, <2>4, <2>5 DEF NoTaskLost
<1> QED BY <1>1, AlwaysIInv, PTL
=============================================================================
