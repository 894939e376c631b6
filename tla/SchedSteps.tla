----------------------------- MODULE SchedSteps -----------------------------
(***************************************************************************)
(* The wake-up paths, spawn and the context switch keep the invariant of   *)
(* SchedInv.                                                               *)
(***************************************************************************)
EXTENDS SchedInv

\* The first task t of wait queue q leaves it.
LEMMA PopKeepsWaits ==
    ASSUME Core, WaitsKept, NEW q \in Queues, wq[q] # <<>>, NEW t, t = Head(wq[q]),
           wq' = [wq EXCEPT ![q] = Tail(wq[q])],
           \A u \in Tasks \ {t} : task'[u] = task[u],
           task'[t].in_wait_queue = FALSE, task'[t].pc = task[t].pc, task'[t].waitq = task[t].waitq,
           task'[t].state # "Blocked",
           \A d \in CPUs : /\ cpu'[d].pc = "push" <=> cpu[d].pc = "push"
                           /\ cpu'[d].current = cpu[d].current
    PROVE  WaitsKept' /\ t \in Tasks /\ task[t].in_wait_queue
<1>1. wq[q] \in Seq(AllTasks) /\ Distinct(wq[q])
  BY DEF Core, TypeOK, WaitsKept
<1>2. /\ t \in Members(wq[q]) /\ Distinct(Tail(wq[q])) /\ t \notin Members(Tail(wq[q]))
      /\ Members(wq[q]) = Members(Tail(wq[q])) \cup {t}
  BY <1>1, PoppedQueue
<1>3. t \in Tasks /\ task[t].in_wait_queue /\ task[t].waitq = q
  BY <1>2 DEF WaitsKept
<1>4. wq'[q] = Tail(wq[q]) /\ \A y \in Queues \ {q} : wq'[y] = wq[y]
  BY DEF Core, TypeOK
<1>5. \A y \in Queues : Members(wq'[y]) \subseteq Tasks /\ Distinct(wq'[y])
  BY <1>2, <1>4 DEF WaitsKept
<1>6. \A u \in Tasks, y \in Queues : u \in Members(wq'[y]) <=> task'[u].in_wait_queue /\ task'[u].waitq = y
  BY <1>2, <1>3, <1>4 DEF WaitsKept
<1>7. \A u \in Tasks : /\ task'[u].in_wait_queue => task'[u].pc \in {"waited", "waited_to", "cancel_to"}
                       /\ task'[u].pc \in {"waited", "waited_to", "cancel_to"} => task'[u].waitq \in Queues
                       /\ task'[u].state = "Blocked" => task'[u].pc \in {"waited", "waited_to", "slept"}
  BY DEF WaitsKept
<1>8. \A u \in Tasks : task'[u].state = "Blocked" /\ task'[u].pc # "slept" =>
            task'[u].in_wait_queue \/ \E d \in CPUs : cpu'[d].pc = "push" /\ cpu'[d].current = u
  BY DEF WaitsKept
<1>9. \A d \in CPUs : cpu'[d].pc = "push" =>
            /\ cpu'[d].current \in Tasks /\ ~task'[cpu'[d].current].in_wait_queue
            /\ task'[cpu'[d].current].pc \in {"waited", "waited_to"}
  BY DEF WaitsKept
<1> QED BY <1>3, <1>5, <1>6, <1>7, <1>8, <1>9, SMTT(40) DEF WaitsKept

\* notify_one of a task that is Blocked.
LEMMA NotifyWakes ==
    ASSUME Core, NEW c \in CPUs, NEW q \in Queues, NEW x \in task[Head(wq[q])].cpumask, NotifyOne(c, q),
           task[Head(wq[q])].state = "Blocked", cpu' = [cpu EXCEPT ![c] = Waking(cpu[c], Head(wq[q]), x, q)]
    PROVE  Core' /\ (WaitsKept /\ TimersKept => WaitsKept' /\ TimersKept')
<1> DEFINE t == Head(wq[q])
           w == [task |-> t, cpu |-> x, lock |-> q]
           r == [task[t] EXCEPT !.in_wait_queue = FALSE, !.state = "Ready"]
           k == [cpu[c] EXCEPT !.pc = "spin", !.wake = w]
<1>1. /\ t \in AllTasks /\ c \in CPUs /\ x \in CPUs
      /\ w \in [task : AllTasks \cup {None}, cpu : CPUs \cup {None}, lock : Queues \cup {None}]
  <2>1. wq[q] \in Seq(AllTasks) /\ wq[q] # <<>>
    BY DEF Core, TypeOK, NotifyOne
  <2>2. t \in AllTasks
    BY <2>1, PoppedQueue
  <2>3. x \in CPUs
    BY <2>2, SMTT(30) DEF Core, TypeOK, TaskType
  <2> QED BY <2>2, <2>3
<1>2. /\ task' = [task EXCEPT ![t] = r]
      /\ cpu' = [cpu EXCEPT ![c] = k]
      /\ wq' = [wq EXCEPT ![q] = Tail(wq[q])] /\ wq_lock' = [wq_lock EXCEPT ![q] = c]
      /\ next_ticket' = next_ticket
  BY Zenon DEF NotifyOne, Waking
<1> HIDE DEF w
<1>t1a. task[t] \in TaskType
  BY <1>1 DEF Core, TypeOK
<1>t1b. r \in TaskType
  BY <1>1, <1>t1a, Zenon DEF TaskType
<1>t1c. /\ r.state = "Ready" /\ r.on_cpu = task[t].on_cpu /\ r.in_wait_queue = FALSE
      /\ r.cpumask = task[t].cpumask /\ r.timer_ticket = task[t].timer_ticket /\ r.saved = task[t].saved
      /\ r.waitq = task[t].waitq /\ r.timeout = task[t].timeout /\ r.pc = task[t].pc
      /\ r.moved = task[t].moved
  BY <1>t1a DEF TaskType
<1> HIDE DEF r
<1>t1d. /\ task' \in [AllTasks -> TaskType]
      /\ \A u \in AllTasks : task'[u] = IF u = t THEN r ELSE task[u]
  BY <1>1, <1>2, <1>t1b DEF Core, TypeOK
<1>k1a. cpu[c] \in CPUType
  BY <1>1 DEF Core, TypeOK
<1>k1b. k \in CPUType
  BY <1>1, <1>k1a, Zenon DEF CPUType
<1>k1c. /\ k.current = cpu[c].current /\ k.prev = cpu[c].prev /\ k.rq = cpu[c].rq
      /\ k.timers = cpu[c].timers /\ k.pc = "spin" /\ k.wake = w
  BY <1>k1a DEF CPUType
<1> HIDE DEF k
<1>k1d. /\ cpu' \in [CPUs -> CPUType]
      /\ \A d \in CPUs : cpu'[d] = IF d = c THEN k ELSE cpu[d]
  BY <1>1, <1>2, <1>k1b DEF Core, TypeOK
<1>3. /\ cpu[c].pc = "run" /\ t = Head(wq[q]) /\ wq[q] # <<>> /\ task[t].state = "Blocked"
      /\ w.task = t /\ w.cpu = x /\ x \in task[t].cpumask
  BY DEF NotifyOne, Runs, Executes, w
<1> HIDE DEF t
<1>4. TypeOK'
  <2>1. wq[q] \in Seq(AllTasks)
    BY DEF Core, TypeOK
  <2>2. Tail(wq[q]) \in Seq(AllTasks)
    BY <1>3, <2>1, PoppedQueue
  <2>3. wq' \in [Queues -> Seq(AllTasks)] /\ wq_lock' \in [Queues -> CPUs \cup {None}]
    BY <1>2, <2>2 DEF Core, TypeOK
  <2> QED BY <1>2, <1>t1d, <1>k1d, <2>3 DEF Core, TypeOK
<1>5. /\ \A u \in AllTasks \ {t} : TaskSame(u)
      /\ \A d \in CPUs \ {c} : CpuSame(d)
  <2>1. \A u \in AllTasks \ {t} : TaskSame(u)
    BY <1>t1d, OwnPcs DEF TaskSame
  <2>2. \A d \in CPUs \ {c} : CpuSame(d)
    BY <1>k1d DEF CpuSame
  <2> QED BY <2>1, <2>2
<1>6. Core' /\ t \in Tasks
  <2>1. /\ task'[t].state = "Ready" /\ task'[t].pc = task[t].pc /\ task'[t].on_cpu = task[t].on_cpu
        /\ task'[t].saved = task[t].saved /\ task'[t].cpumask = task[t].cpumask
        /\ cpu'[c].pc = "spin" /\ cpu'[c].wake.task = t /\ cpu'[c].wake.cpu = x
        /\ cpu'[c].current = cpu[c].current /\ cpu'[c].prev = cpu[c].prev /\ cpu'[c].rq = cpu[c].rq
    BY <1>1, <1>3, <1>t1c, <1>t1d, <1>k1c, <1>k1d
  <2> QED BY <1>1, <1>3, <1>4, <1>5, <2>1, WakeKeeps, Zenon
<1>7. ASSUME WaitsKept PROVE WaitsKept' /\ task[t].in_wait_queue
  <2>1. /\ \A u \in Tasks \ {t} : task'[u] = task[u]
        /\ task'[t].in_wait_queue = FALSE /\ task'[t].pc = task[t].pc /\ task'[t].waitq = task[t].waitq
        /\ task'[t].state # "Blocked"
    BY <1>1, <1>t1c, <1>t1d DEF AllTasks
  <2>2. \A d \in CPUs : /\ cpu'[d].pc = "push" <=> cpu[d].pc = "push"
                        /\ cpu'[d].current = cpu[d].current
    BY <1>3, <1>k1c, <1>k1d
  <2> QED BY <1>2, <1>3, <1>7, <2>1, <2>2, PopKeepsWaits, ZenonT(30)
<1>8. ASSUME WaitsKept, TimersKept PROVE TimersKept'
  <2>1. task[t].pc # "slept"
    BY <1>6, <1>7, <1>8 DEF WaitsKept
  <2> QED BY <1>2, <1>3, <1>8, <2>1, <1>t1c, <1>t1d, <1>k1c, <1>k1d, TimersFrame, Zenon DEF AllTasks
<1> QED BY <1>6, <1>7, <1>8

\* notify_one of a task that a timer has woken.
LEMMA NotifySkips ==
    ASSUME Core, NEW c \in CPUs, NEW q \in Queues, NotifyOne(c, q), task[Head(wq[q])].state # "Blocked"
    PROVE  Core' /\ (WaitsKept /\ TimersKept => WaitsKept' /\ TimersKept')
<1> DEFINE t == Head(wq[q])
           r == [task[t] EXCEPT !.in_wait_queue = FALSE]
<1>1. t \in AllTasks /\ c \in CPUs
  <2>1. wq[q] \in Seq(AllTasks) /\ wq[q] # <<>>
    BY DEF Core, TypeOK, NotifyOne
  <2> QED BY <2>1, PoppedQueue
<1>2. /\ task' = [task EXCEPT ![t] = r]
      /\ wq' = [wq EXCEPT ![q] = Tail(wq[q])] /\ UNCHANGED <<cpu, wq_lock, next_ticket>>
  BY DEF NotifyOne
<1>t1a. task[t] \in TaskType
  BY <1>1 DEF Core, TypeOK
<1>t1b. r \in TaskType
  BY <1>1, <1>t1a, Zenon DEF TaskType
<1>t1c. /\ r.state = task[t].state /\ r.on_cpu = task[t].on_cpu /\ r.in_wait_queue = FALSE
      /\ r.cpumask = task[t].cpumask /\ r.timer_ticket = task[t].timer_ticket /\ r.saved = task[t].saved
      /\ r.waitq = task[t].waitq /\ r.timeout = task[t].timeout /\ r.pc = task[t].pc
      /\ r.moved = task[t].moved
  BY <1>t1a DEF TaskType
<1> HIDE DEF r
<1>t1d. /\ task' \in [AllTasks -> TaskType]
      /\ \A u \in AllTasks : task'[u] = IF u = t THEN r ELSE task[u]
  BY <1>1, <1>2, <1>t1b DEF Core, TypeOK
<1>3. t = Head(wq[q]) /\ wq[q] # <<>> /\ task[t].state # "Blocked"
  BY DEF NotifyOne
<1> HIDE DEF t
<1>4. TypeOK'
  <2>1. wq[q] \in Seq(AllTasks)
    BY DEF Core, TypeOK
  <2>2. Tail(wq[q]) \in Seq(AllTasks)
    BY <1>3, <2>1, PoppedQueue
  <2>3. wq' \in [Queues -> Seq(AllTasks)]
    BY <1>2, <2>2 DEF Core, TypeOK
  <2> QED BY <1>2, <1>t1d, <2>3 DEF Core, TypeOK
<1>5. (\A u \in AllTasks : TaskSame(u)) /\ \A d \in CPUs : CpuSame(d)
  <2>1. \A u \in AllTasks : TaskSame(u)
    BY <1>2, <1>t1c, <1>t1d, OwnPcs DEF TaskSame
  <2>2. \A d \in CPUs : CpuSame(d)
    BY <1>2 DEF CpuSame
  <2> QED BY <2>1, <2>2
<1>6. ASSUME WaitsKept PROVE WaitsKept'
  <2>1. /\ \A u \in Tasks \ {t} : task'[u] = task[u]
        /\ task'[t].in_wait_queue = FALSE /\ task'[t].pc = task[t].pc /\ task'[t].waitq = task[t].waitq
        /\ task'[t].state # "Blocked"
    BY <1>1, <1>3, <1>t1c, <1>t1d DEF AllTasks
  <2> QED BY <1>2, <1>3, <1>6, <2>1, PopKeepsWaits, ZenonT(30)
<1>7. TimersKept => TimersKept'
  <2>1. \A u \in Tasks : /\ task'[u].timer_ticket = task[u].timer_ticket
                         /\ task[u].pc \in {"waited_to", "cancel_to", "slept"} =>
                                task'[u].pc \in {"waited_to", "cancel_to", "slept"}
                         /\ task'[u].pc = "slept" => /\ task[u].pc = "slept"
                                                     /\ task'[u].state = "Blocked" <=> task[u].state = "Blocked"
    BY <1>t1c, <1>t1d DEF AllTasks
  <2>2. \A d \in CPUs : cpu'[d].timers = cpu[d].timers
    BY <1>2
  <2> QED BY <1>2, <2>1, <2>2, TimersFrame
<1> QED BY <1>4, <1>5, <1>6, <1>7, CoreFrame

\* check_events of an event e whose task is Blocked and goes to CPU x.
TimerFires(c, e, x) ==
    /\ IrqsEnabled(c) /\ task[e[1]].timer_ticket = e[2] /\ task[e[1]].state = "Blocked"
    /\ task' = [task EXCEPT ![e[1]].state = "Ready"]
    /\ cpu' = [cpu EXCEPT ![c] = Waking([cpu[c] EXCEPT !.timers = @ \ {e}], e[1], x, None)]
    /\ UNCHANGED <<wq, wq_lock, next_ticket>>

\* check_events wakes the task of an event.
LEMMA TimerWakes ==
    ASSUME Core, NEW c \in CPUs, NEW e \in cpu[c].timers, NEW x \in task[e[1]].cpumask, TimerFires(c, e, x)
    PROVE  Core' /\ (WaitsKept /\ TimersKept => WaitsKept' /\ TimersKept')
<1> DEFINE t == e[1]
           w == [task |-> t, cpu |-> x, lock |-> None]
           v == cpu[c].timers \ {e}
           r == [task[t] EXCEPT !.state = "Ready"]
           k == [cpu[c] EXCEPT !.pc = "spin", !.wake = w, !.timers = v]
<1>1. /\ t \in AllTasks /\ c \in CPUs /\ x \in CPUs /\ v \in SUBSET (AllTasks \X (1..MaxTicket))
      /\ w \in [task : AllTasks \cup {None}, cpu : CPUs \cup {None}, lock : Queues \cup {None}]
      /\ e = <<t, e[2]>>
  <2>1. cpu[c].timers \subseteq AllTasks \X (1..MaxTicket)
    BY DEF Core, TypeOK, CPUType
  <2>2. t \in AllTasks /\ v \in SUBSET (AllTasks \X (1..MaxTicket)) /\ e = <<t, e[2]>>
    BY <2>1
  <2>3. x \in CPUs
    BY <2>2 DEF Core, TypeOK, TaskType
  <2> QED BY <2>2, <2>3
<1>2. /\ task' = [task EXCEPT ![t] = r]
      /\ cpu' = [cpu EXCEPT ![c] = k]
      /\ UNCHANGED <<wq, wq_lock, next_ticket>>
  BY Zenon DEF TimerFires, Waking
<1> HIDE DEF w, v
<1>t1a. task[t] \in TaskType
  BY <1>1 DEF Core, TypeOK
<1>t1b. r \in TaskType
  BY <1>1, <1>t1a DEF TaskType
<1>t1c. /\ r.state = "Ready" /\ r.on_cpu = task[t].on_cpu /\ r.in_wait_queue = task[t].in_wait_queue
      /\ r.cpumask = task[t].cpumask /\ r.timer_ticket = task[t].timer_ticket /\ r.saved = task[t].saved
      /\ r.waitq = task[t].waitq /\ r.timeout = task[t].timeout /\ r.pc = task[t].pc
      /\ r.moved = task[t].moved
  BY <1>t1a DEF TaskType
<1> HIDE DEF r
<1>t1d. /\ task' \in [AllTasks -> TaskType]
      /\ \A u \in AllTasks : task'[u] = IF u = t THEN r ELSE task[u]
  BY <1>1, <1>2, <1>t1b DEF Core, TypeOK
<1>k1a. cpu[c] \in CPUType
  BY <1>1 DEF Core, TypeOK
<1>k1b. k \in CPUType
  BY <1>1, <1>k1a, Zenon DEF CPUType
<1>k1c. /\ k.current = cpu[c].current /\ k.prev = cpu[c].prev /\ k.rq = cpu[c].rq
      /\ k.timers = v /\ k.pc = "spin" /\ k.wake = w
  BY <1>k1a DEF CPUType
<1> HIDE DEF k
<1>k1d. /\ cpu' \in [CPUs -> CPUType]
      /\ \A d \in CPUs : cpu'[d] = IF d = c THEN k ELSE cpu[d]
  BY <1>1, <1>2, <1>k1b DEF Core, TypeOK
<1>3. /\ cpu[c].pc = "run" /\ task[t].state = "Blocked" /\ task[t].timer_ticket = e[2]
      /\ w.task = t /\ w.cpu = x /\ x \in task[t].cpumask /\ v = cpu[c].timers \ {e}
  BY DEF TimerFires, IrqsEnabled, w, v
<1> HIDE DEF t
<1>4. TypeOK'
  BY <1>2, <1>t1d, <1>k1d DEF Core, TypeOK
<1>5. /\ \A u \in AllTasks \ {t} : TaskSame(u)
      /\ \A d \in CPUs \ {c} : CpuSame(d)
  <2>1. \A u \in AllTasks \ {t} : TaskSame(u)
    BY <1>t1d, OwnPcs DEF TaskSame
  <2>2. \A d \in CPUs \ {c} : CpuSame(d)
    BY <1>k1d DEF CpuSame
  <2> QED BY <2>1, <2>2
<1>6. Core' /\ t \in Tasks
  <2>1. /\ task'[t].state = "Ready" /\ task'[t].pc = task[t].pc /\ task'[t].on_cpu = task[t].on_cpu
        /\ task'[t].saved = task[t].saved /\ task'[t].cpumask = task[t].cpumask
        /\ cpu'[c].pc = "spin" /\ cpu'[c].wake.task = t /\ cpu'[c].wake.cpu = x
        /\ cpu'[c].current = cpu[c].current /\ cpu'[c].prev = cpu[c].prev /\ cpu'[c].rq = cpu[c].rq
    BY <1>1, <1>3, <1>t1c, <1>t1d, <1>k1c, <1>k1d
  <2> QED BY <1>1, <1>3, <1>4, <1>5, <2>1, WakeKeeps
<1>7. WaitsKept => WaitsKept'
  <2>1. \A u \in Tasks : /\ task'[u].in_wait_queue = task[u].in_wait_queue
                         /\ task'[u].waitq = task[u].waitq /\ task'[u].pc = task[u].pc
                         /\ task'[u].state = "Blocked" => task[u].state = "Blocked"
    BY <1>t1c, <1>t1d DEF AllTasks
  <2>2. \A d \in CPUs : /\ cpu'[d].pc = "push" <=> cpu[d].pc = "push"
                        /\ cpu'[d].current = cpu[d].current
    BY <1>3, <1>k1c, <1>k1d
  <2> QED BY <1>2, <2>1, <2>2, WaitsFrame
<1>8. ASSUME TimersKept PROVE TimersKept'
  <2>1. /\ \A u \in Tasks \ {t} : task'[u] = task[u]
        /\ task'[t].state = "Ready"
        /\ \A u \in Tasks : task'[u].timer_ticket = task[u].timer_ticket /\ task'[u].pc = task[u].pc
    BY <1>1, <1>t1c, <1>t1d DEF AllTasks
  <2>2. /\ \A d \in CPUs \ {c} : cpu'[d].timers = cpu[d].timers
        /\ cpu'[c].timers = cpu[c].timers \ {e}
    BY <1>3, <1>k1c, <1>k1d
  <2>3. \A d \in CPUs : <<t, task[t].timer_ticket>> \notin cpu'[d].timers
    <3>1. e = <<t, task[t].timer_ticket>>
      BY <1>1, <1>3
    <3>2. \A d \in CPUs \ {c} : e \notin cpu[d].timers
      BY <1>8 DEF TimersKept
    <3> QED BY <2>2, <3>1, <3>2
  <2>4. TimerWakesItsWait'
    BY <1>8, <2>1, <2>2 DEF TimersKept, TimerWakesItsWait
  <2>5. \A u \in Tasks : task'[u].pc = "slept" =>
            (task'[u].state = "Blocked" <=> \E d \in CPUs : <<u, task'[u].timer_ticket>> \in cpu'[d].timers)
    <3> SUFFICES ASSUME NEW u \in Tasks, task'[u].pc = "slept"
                 PROVE  task'[u].state = "Blocked" <=> \E d \in CPUs : <<u, task'[u].timer_ticket>> \in cpu'[d].timers
      BY Zenon
    <3>1. CASE u = t
      BY <2>1, <2>3, <3>1
    <3>2. CASE u # t
      <4>1. <<u, task[u].timer_ticket>> # e
        BY <1>1, <3>2
      <4>2. \A d \in CPUs : <<u, task[u].timer_ticket>> \in cpu'[d].timers <=> <<u, task[u].timer_ticket>> \in cpu[d].timers
        BY <2>2, <4>1
      <4> QED BY <1>8, <2>1, <3>2, <4>2 DEF TimersKept
    <3> QED BY <3>1, <3>2
  <2>6. \A d \in CPUs : \A y \in cpu'[d].timers : y[1] \in Tasks /\ y[2] < next_ticket'
    BY <1>2, <1>8, <2>2 DEF TimersKept
  <2>7. \A d, y \in CPUs : d # y => cpu'[d].timers \cap cpu'[y].timers = {}
    BY <1>8, <2>2 DEF TimersKept
  <2>8. \A u \in Tasks : task'[u].timer_ticket < next_ticket'
    BY <1>2, <1>8, <2>1 DEF TimersKept
  <2> QED BY <2>4, <2>5, <2>6, <2>7, <2>8 DEF TimersKept
<1> QED BY <1>6, <1>7, <1>8

\* check_events drops a stale event.
LEMMA TimerSkips ==
    ASSUME Core, NEW c \in CPUs, NEW e \in cpu[c].timers,
           task[e[1]].timer_ticket # e[2] \/ task[e[1]].state # "Blocked",
           cpu' = [cpu EXCEPT ![c] = [cpu[c] EXCEPT !.timers = @ \ {e}]],
           UNCHANGED <<task, wq, wq_lock, next_ticket>>
    PROVE  Core' /\ (WaitsKept /\ TimersKept => WaitsKept' /\ TimersKept')
<1> DEFINE v == cpu[c].timers \ {e}
           k == [cpu[c] EXCEPT !.timers = v]
<1>1. c \in CPUs /\ v \in SUBSET (AllTasks \X (1..MaxTicket)) /\ e = <<e[1], e[2]>>
  <2>1. cpu[c].timers \subseteq AllTasks \X (1..MaxTicket)
    BY DEF Core, TypeOK, CPUType
  <2> QED BY <2>1
<1>2. /\ cpu' = [cpu EXCEPT ![c] = k]
      /\ UNCHANGED <<task, wq, wq_lock, next_ticket>>
  OBVIOUS
<1> HIDE DEF v
<1>k1a. cpu[c] \in CPUType
  BY <1>1 DEF Core, TypeOK
<1>k1b. k \in CPUType
  BY <1>1, <1>k1a DEF CPUType
<1>k1c. /\ k.current = cpu[c].current /\ k.prev = cpu[c].prev /\ k.rq = cpu[c].rq
      /\ k.timers = v /\ k.pc = cpu[c].pc /\ k.wake = cpu[c].wake
  BY <1>k1a DEF CPUType
<1> HIDE DEF k
<1>k1d. /\ cpu' \in [CPUs -> CPUType]
      /\ \A d \in CPUs : cpu'[d] = IF d = c THEN k ELSE cpu[d]
  BY <1>1, <1>2, <1>k1b, Zenon DEF Core, TypeOK
<1>3. v = cpu[c].timers \ {e}
  BY DEF v
<1>4. TypeOK'
  BY <1>2, <1>k1d DEF Core, TypeOK
<1>5. (\A u \in AllTasks : TaskSame(u)) /\ \A d \in CPUs : CpuSame(d)
  <2>1. \A u \in AllTasks : TaskSame(u)
    BY <1>2, OwnPcs DEF TaskSame
  <2>2. \A d \in CPUs : CpuSame(d)
    BY <1>2, <1>k1c, <1>k1d DEF CpuSame
  <2> QED BY <2>1, <2>2
<1>6. WaitsKept => WaitsKept'
  BY <1>2, <1>k1c, <1>k1d, WaitsFrame
<1>7. ASSUME TimersKept PROVE TimersKept'
  <2>1. /\ \A d \in CPUs \ {c} : cpu'[d].timers = cpu[d].timers
        /\ cpu'[c].timers = cpu[c].timers \ {e}
    BY <1>3, <1>k1c, <1>k1d
  <2>2. TimerWakesItsWait'
    BY <1>2, <1>7, <2>1 DEF TimersKept, TimerWakesItsWait
  <2>3. \A u \in Tasks : task'[u].pc = "slept" =>
            (task'[u].state = "Blocked" <=> \E d \in CPUs : <<u, task'[u].timer_ticket>> \in cpu'[d].timers)
    <3> SUFFICES ASSUME NEW u \in Tasks, task[u].pc = "slept"
                 PROVE  task[u].state = "Blocked" <=> \E d \in CPUs : <<u, task[u].timer_ticket>> \in cpu'[d].timers
      BY <1>2
    <3>1. task[u].state = "Blocked" <=> \E d \in CPUs : <<u, task[u].timer_ticket>> \in cpu[d].timers
      BY <1>7 DEF TimersKept
    <3>2. <<u, task[u].timer_ticket>> # e
      BY <1>1, <3>1
    <3>3. \A d \in CPUs : <<u, task[u].timer_ticket>> \in cpu'[d].timers <=> <<u, task[u].timer_ticket>> \in cpu[d].timers
      BY <2>1, <3>2
    <3> QED BY <3>1, <3>3
  <2>4. \A d \in CPUs : \A y \in cpu'[d].timers : y[1] \in Tasks /\ y[2] < next_ticket'
    BY <1>2, <1>7, <2>1 DEF TimersKept
  <2>5. \A d, y \in CPUs : d # y => cpu'[d].timers \cap cpu'[y].timers = {}
    BY <1>7, <2>1 DEF TimersKept
  <2>6. \A u \in Tasks : task'[u].timer_ticket < next_ticket'
    BY <1>2, <1>7 DEF TimersKept
  <2> QED BY <2>2, <2>3, <2>4, <2>5, <2>6 DEF TimersKept
<1> QED BY <1>4, <1>5, <1>6, <1>7, CoreFrame

\* spawn_task of t to CPU x.
SpawnIs(c, t, x) ==
    /\ Runs(c, cpu[c].current) /\ task[t].pc = "new"
    /\ task' = [task EXCEPT ![t].pc = "run"]
    /\ cpu' = [cpu EXCEPT ![x].rq = Append(@, t)]
    /\ UNCHANGED <<wq, wq_lock, next_ticket>>

\* spawn_task to CPU x.
LEMMA SpawnKeeps ==
    ASSUME Core, NEW c \in CPUs, NEW t \in Tasks, NEW x \in task[t].cpumask, SpawnIs(c, t, x)
    PROVE  Core' /\ (WaitsKept /\ TimersKept => WaitsKept' /\ TimersKept')
<1> DEFINE q == Append(cpu[x].rq, t)
           r == [task[t] EXCEPT !.pc = "run"]
           k == [cpu[x] EXCEPT !.rq = q]
<1>1. t \in AllTasks /\ x \in CPUs /\ q \in Seq(AllTasks)
  <2>1. t \in AllTasks /\ x \in CPUs
    BY Zenon DEF Core, TypeOK, TaskType, AllTasks
  <2>2. cpu[x].rq \in Seq(AllTasks)
    BY <2>1 DEF Core, TypeOK, CPUType
  <2> QED BY <2>1, <2>2
<1>2. /\ task' = [task EXCEPT ![t] = r]
      /\ cpu' = [cpu EXCEPT ![x] = k]
      /\ UNCHANGED <<wq, wq_lock, next_ticket>>
  BY DEF SpawnIs
<1> HIDE DEF q
<1>t1a. task[t] \in TaskType
  BY <1>1 DEF Core, TypeOK
<1>t1b. r \in TaskType
  BY <1>1, <1>t1a DEF TaskType
<1>t1c. /\ r.state = task[t].state /\ r.on_cpu = task[t].on_cpu /\ r.in_wait_queue = task[t].in_wait_queue
      /\ r.cpumask = task[t].cpumask /\ r.timer_ticket = task[t].timer_ticket /\ r.saved = task[t].saved
      /\ r.waitq = task[t].waitq /\ r.timeout = task[t].timeout /\ r.pc = "run"
      /\ r.moved = task[t].moved
  BY <1>t1a DEF TaskType
<1> HIDE DEF r
<1>t1d. /\ task' \in [AllTasks -> TaskType]
      /\ \A u \in AllTasks : task'[u] = IF u = t THEN r ELSE task[u]
  BY <1>1, <1>2, <1>t1b DEF Core, TypeOK
<1>k1a. cpu[x] \in CPUType
  BY <1>1 DEF Core, TypeOK
<1>k1b. k \in CPUType
  BY <1>1, <1>k1a, SMTT(30) DEF CPUType
<1>k1c. /\ k.current = cpu[x].current /\ k.prev = cpu[x].prev /\ k.rq = q
      /\ k.timers = cpu[x].timers /\ k.pc = cpu[x].pc /\ k.wake = cpu[x].wake
  BY <1>k1a DEF CPUType
<1> HIDE DEF k
<1>k1d. /\ cpu' \in [CPUs -> CPUType]
      /\ \A d \in CPUs : cpu'[d] = IF d = x THEN k ELSE cpu[d]
  BY <1>1, <1>2, <1>k1b DEF Core, TypeOK
<1>3. task[t].pc = "new" /\ q = Append(cpu[x].rq, t)
  BY DEF SpawnIs, q
<1>4. /\ task[t].state = "Ready" /\ ~task[t].on_cpu
      /\ \A d \in CPUs : t \notin Rq(d) \cup Wk(d) \cup Cr(d)
  BY <1>3 DEF Core, RunningKept, PlacesKept
<1>5. TypeOK'
  BY <1>2, <1>t1d, <1>k1d DEF Core, TypeOK
<1>6. HwSame
  BY <1>t1c, <1>t1d, <1>k1c, <1>k1d DEF HwSame
<1>7. CpusKept' /\ \A d \in CPUs : Held(d)' = Held(d)
  BY <1>6, HwFrame DEF Core
<1>8. \A d \in CPUs : /\ Idle[d] \in AllTasks \ Tasks /\ Migrator[d] \in AllTasks \ Tasks /\ Migrator[d] # t
  BY SchedAssumption DEF AllTasks
<1>9. OwnTasksKept'
  <2>1. \A u \in AllTasks \ Tasks : task'[u].pc = task[u].pc /\ task'[u].cpumask = task[u].cpumask
    BY <1>t1c, <1>t1d
  <2>2. \A d \in CPUs : /\ task'[Idle[d]].state \in {"Running", "Ready"}
                        /\ task'[Migrator[d]].state # "Blocked"
    BY <1>8, <1>t1c, <1>t1d DEF Core, OwnTasksKept
  <2>3. \A u \in Tasks : task'[u].pc # "migrate"
    BY <1>t1c, <1>t1d DEF Core, OwnTasksKept, AllTasks
  <2> QED BY <2>1, <2>2, <2>3, <1>7, SchedAssumption, OwnFrame DEF Core
<1>10. RunningKept'
  <2>1. \A d \in CPUs : cpu'[d].current = cpu[d].current /\ cpu'[d].pc = cpu[d].pc
    BY <1>k1c, <1>k1d
  <2>2. \A u \in AllTasks : /\ task'[u].state = task[u].state /\ task'[u].cpumask = task[u].cpumask
                            /\ task'[u].on_cpu = task[u].on_cpu
                            /\ task'[u].pc = "new" => task[u].pc = "new"
    BY <1>t1c, <1>t1d
  <2> QED BY <2>1, <2>2, RunningFrame DEF Core, AllTasks
<1>11. \A d \in CPUs : /\ task'[Migrator[d]].moved = task[Migrator[d]].moved
                       /\ task'[Migrator[d]].state = task[Migrator[d]].state
                       /\ cpu'[d].wake = cpu[d].wake /\ cpu'[d].pc = cpu[d].pc
  BY <1>8, <1>t1c, <1>t1d, <1>k1c, <1>k1d
<1>12. \A d \in CPUs : Wk(d)' = Wk(d) /\ Cr(d)' = Cr(d)
  BY <1>11 DEF Wk, Cr
<1>13. PlacesKept' /\ \A d \in CPUs : Rq(d)' = IF d = x THEN Rq(d) \cup {t} ELSE Rq(d)
  <2>1. \A d \in CPUs : cpu'[d].rq = IF d = x THEN Append(cpu[d].rq, t) ELSE cpu[d].rq
    BY <1>3, <1>k1c, <1>k1d, Zenon
  <2>2. \A d \in CPUs : t \notin Rq(d) /\ t \notin Wk(d)' /\ t \notin Cr(d)'
    BY <1>4, <1>12
  <2>3. \A d \in CPUs : Wk(d)' = Wk(d) \ {t} /\ Cr(d)' = Cr(d) \ {t}
    BY <1>4, <1>12
  <2>4. \A d \in CPUs : cpu'[d].pc = "spin" <=> cpu'[d].wake.task # None
    BY <1>11 DEF Core, PlacesKept
  <2>5. \A u \in Tasks \ {t} : /\ task'[u].state = "Ready" <=> task[u].state = "Ready"
                               /\ task'[u].pc = "new" <=> task[u].pc = "new"
                               /\ task'[u].cpumask = task[u].cpumask
    BY <1>t1c, <1>t1d DEF AllTasks
  <2>6. task'[t].state = "Ready" /\ task'[t].pc # "new" /\ x \in task'[t].cpumask
    BY <1>1, <1>4, <1>t1c, <1>t1d
  <2>7. MigratorsCarry'
    BY <1>11, SameMigrators DEF Core, PlacesKept
  <2>8. \A d \in CPUs : cpu'[d].pc = "spin" => cpu[d].pc = "spin" /\ cpu'[d].wake = cpu[d].wake
    BY <1>11
  <2> QED BY <1>1, <2>1, <2>2, <2>3, <2>4, <2>5, <2>6, <2>7, <2>8, EnqueueKeeps DEF Core
<1>14. HandedOver'
  <2>1. \A d \in CPUs : t \in Rq(d)' => d = x
    BY <1>4, <1>13
  <2> QED BY <1>1, <1>4, <1>6, <1>7, <1>12, <1>13, <2>1, HandedEnqueue DEF Core
<1>15. ASSUME WaitsKept PROVE WaitsKept'
  <2>1. \A u \in Tasks : /\ task'[u].in_wait_queue = task[u].in_wait_queue
                         /\ task'[u].waitq = task[u].waitq /\ task'[u].state = task[u].state
                         /\ u # t => task'[u].pc = task[u].pc
    BY <1>t1c, <1>t1d DEF AllTasks
  <2>2. task'[t].pc = "run"
    BY <1>1, <1>t1c, <1>t1d
  <2>3. \A d \in CPUs : cpu'[d].current = cpu[d].current /\ cpu'[d].pc = cpu[d].pc
    BY <1>k1c, <1>k1d
  <2> QED BY <1>2, <1>3, <1>4, <1>15, <2>1, <2>2, <2>3, WaitsFrame, SMTT(40)
<1>16. TimersKept => TimersKept'
  <2>1. \A u \in Tasks : /\ task'[u].timer_ticket = task[u].timer_ticket
                         /\ task[u].pc \in {"waited_to", "cancel_to", "slept"} =>
                                task'[u].pc \in {"waited_to", "cancel_to", "slept"}
                         /\ task'[u].pc = "slept" => /\ task[u].pc = "slept"
                                                     /\ task'[u].state = "Blocked" <=> task[u].state = "Blocked"
    BY <1>3, <1>t1c, <1>t1d DEF AllTasks
  <2>2. \A d \in CPUs : cpu'[d].timers = cpu[d].timers
    BY <1>k1c, <1>k1d
  <2> QED BY <1>2, <2>1, <2>2, TimersFrame, SMTT(40)
<1> QED BY <1>5, <1>7, <1>9, <1>10, <1>13, <1>14, <1>15, <1>16 DEF Core

\* put_task_with_state queues the woken task.
LEMMA PutTaskKeeps ==
    ASSUME Core, NEW c \in CPUs, PutTask(c)
    PROVE  Core' /\ (WaitsKept /\ TimersKept => WaitsKept' /\ TimersKept')
<1> DEFINE t == cpu[c].wake.task
           x == cpu[c].wake.cpu
           l == cpu[c].wake.lock
           k == [cpu[c] EXCEPT !.pc = "run", !.wake = NoWake]
           cpu1 == [cpu EXCEPT ![c] = k]
           j == [cpu1[x] EXCEPT !.rq = Append(cpu1[x].rq, t)]
<1>1. /\ c \in CPUs /\ x \in CPUs /\ t \in Tasks /\ t \in Wk(c) /\ x \in task[t].cpumask
  <2>1. cpu[c].pc = "spin"
    BY Zenon DEF PutTask
  <2>2. t \in Wk(c) /\ x \in task[t].cpumask
    BY <2>1 DEF Core, PlacesKept, Wk
  <2>3. t \in Tasks
    BY <2>2, SMTT(30) DEF Core, PlacesKept
  <2> QED BY <2>2, <2>3, ZenonT(30) DEF Core, TypeOK, TaskType, AllTasks
<1>2. /\ cpu' = [cpu1 EXCEPT ![x] = j]
      /\ wq_lock' = IF l = None THEN wq_lock ELSE [wq_lock EXCEPT ![l] = None]
      /\ UNCHANGED <<task, wq, next_ticket>>
  BY Zenon DEF PutTask
<1>k1a. cpu[c] \in CPUType
  BY <1>1 DEF Core, TypeOK
<1>k1b. k \in CPUType
  BY <1>1, <1>k1a, Zenon DEF CPUType, NoWake
<1>k1c. /\ k.current = cpu[c].current /\ k.prev = cpu[c].prev /\ k.rq = cpu[c].rq
      /\ k.timers = cpu[c].timers /\ k.pc = "run" /\ k.wake = NoWake
  BY <1>k1a DEF CPUType
<1> HIDE DEF k
<1>k1d. /\ cpu1 \in [CPUs -> CPUType]
      /\ \A d \in CPUs : cpu1[d] = IF d = c THEN k ELSE cpu[d]
  BY <1>1, <1>2, <1>k1b DEF Core, TypeOK
<1> HIDE DEF cpu1
<1>k2a. cpu1[x] \in CPUType
  BY <1>1, <1>k1d DEF Core, TypeOK
<1>k2b. j \in CPUType
  <2> DEFINE q == Append(cpu1[x].rq, t)
  <2>1. q \in Seq(AllTasks)
    BY <1>1, <1>k2a DEF CPUType, AllTasks
  <2> HIDE DEF q
  <2>2. j = [cpu1[x] EXCEPT !.rq = q]
    BY DEF q
  <2> QED BY <2>1, <2>2, <1>k2a, Zenon DEF CPUType
<1>k2c. /\ j.current = cpu1[x].current /\ j.prev = cpu1[x].prev /\ j.rq = Append(cpu1[x].rq, t)
      /\ j.timers = cpu1[x].timers /\ j.pc = cpu1[x].pc /\ j.wake = cpu1[x].wake
  BY <1>k2a, Zenon DEF CPUType
<1> HIDE DEF j
<1>k2d. /\ cpu' \in [CPUs -> CPUType]
      /\ \A d \in CPUs : cpu'[d] = IF d = x THEN j ELSE cpu1[d]
  BY <1>1, <1>2, <1>k2b, <1>k1d, SMTT(40) DEF Core, TypeOK
<1>3. /\ cpu[c].pc = "spin" /\ ~task[t].on_cpu /\ cpu[c].wake.task = t /\ NoWake.task = None
  BY DEF PutTask, NoWake
<1> HIDE DEF t, x, l
<1>4. /\ \A d \in CPUs : /\ cpu'[d].current = cpu[d].current /\ cpu'[d].prev = cpu[d].prev
                         /\ cpu'[d].timers = cpu[d].timers
                         /\ d # c => cpu'[d].pc = cpu[d].pc /\ cpu'[d].wake = cpu[d].wake
                         /\ cpu'[d].rq = IF d = x THEN Append(cpu[d].rq, t) ELSE cpu[d].rq
      /\ cpu'[c].pc = "run" /\ cpu'[c].wake = NoWake
  BY <1>1, <1>k1c, <1>k1d, <1>k2c, <1>k2d, ZenonT(30)
<1>5. TypeOK'
  <2>1. wq_lock' \in [Queues -> CPUs \cup {None}]
    BY <1>2, Zenon DEF Core, TypeOK
  <2> QED BY <1>2, <1>k2d, <2>1 DEF Core, TypeOK
<1>6. HwSame
  BY <1>2, <1>3, <1>4 DEF HwSame
<1>7. CpusKept' /\ \A d \in CPUs : Held(d)' = Held(d)
  BY <1>6, HwFrame DEF Core
<1>9. OwnTasksKept'
  BY <1>2, <1>7 DEF Core, OwnTasksKept
<1>10. RunningKept'
  <2>1. \A d \in CPUs : cpu'[d].current = cpu[d].current /\ (cpu'[d].pc \in OnWay <=> cpu[d].pc \in OnWay)
    BY <1>3, <1>4 DEF OnWay
  <2> QED BY <1>2, <2>1, RunningFrame DEF Core
<1>11. t # None
  BY <1>1, SchedAssumption DEF AllTasks
<1>12. /\ Wk(c) = {t} /\ Wk(c)' = {}
       /\ \A d \in CPUs : (d # c => Wk(d)' = Wk(d) /\ t \notin Wk(d)) /\ Cr(d)' = Cr(d) /\ t \notin Cr(d) /\ t \notin Rq(d)
  <2>1. Wk(c) = {t} /\ Wk(c)' = {}
    BY <1>3, <1>4, <1>11 DEF Wk
  <2>2. \A d \in CPUs : (d # c => Wk(d)' = Wk(d)) /\ Cr(d)' = Cr(d)
    BY <1>2, <1>4 DEF Wk, Cr
  <2>3. \A d \in CPUs : (d # c => t \notin Wk(d)) /\ t \notin Cr(d) /\ t \notin Rq(d)
    BY <2>1 DEF Core, PlacesKept
  <2> QED BY <2>1, <2>2, <2>3
<1>13. PlacesKept' /\ \A d \in CPUs : Rq(d)' = IF d = x THEN Rq(d) \cup {t} ELSE Rq(d)
  <2>1. \A d \in CPUs : cpu'[d].rq = IF d = x THEN Append(cpu[d].rq, t) ELSE cpu[d].rq
    BY <1>4
  <2>2. \A d \in CPUs : t \notin Rq(d) /\ t \notin Wk(d)' /\ t \notin Cr(d)'
    BY <1>12
  <2>3. \A d \in CPUs : Wk(d)' = Wk(d) \ {t} /\ Cr(d)' = Cr(d) \ {t}
    BY <1>12
  <2>4. \A d \in CPUs : cpu'[d].pc = "spin" <=> cpu'[d].wake.task # None
    BY <1>3, <1>4, SMTT(40) DEF Core, PlacesKept
  <2>6. task'[t].state = "Ready" /\ task'[t].pc # "new" /\ x \in task'[t].cpumask
    BY <1>1, <1>2 DEF Core, PlacesKept
  <2>7. MigratorsCarry'
    BY <1>2 DEF Core, PlacesKept, MigratorsCarry
  <2>8. \A d \in CPUs : cpu'[d].pc = "spin" => cpu[d].pc = "spin" /\ cpu'[d].wake = cpu[d].wake
    BY <1>4
  <2> QED BY <1>1, <1>2, <2>1, <2>2, <2>3, <2>4, <2>6, <2>7, <2>8, EnqueueKeeps DEF Core
<1>14. HandedOver'
  <2>1. \A d \in CPUs : t \in Rq(d)' => d = x
    BY <1>12, <1>13
  <2> QED BY <1>1, <1>3, <1>6, <1>7, <1>12, <1>13, <2>1, HandedEnqueue DEF Core, AllTasks
<1>15. WaitsKept => WaitsKept'
  <2>1. \A d \in CPUs : (cpu'[d].pc = "push" <=> cpu[d].pc = "push") /\ cpu'[d].current = cpu[d].current
    BY <1>3, <1>4
  <2> QED BY <1>2, <2>1, WaitsFrame
<1>16. TimersKept => TimersKept'
  BY <1>2, <1>4, TimersFrame, SMTT(40)
<1> QED BY <1>5, <1>7, <1>9, <1>10, <1>13, <1>14, <1>15, <1>16 DEF Core

-----------------------------------------------------------------------------
(* The context switch.                                                     *)

NextOf(c) == IF cpu[c].rq = <<>> THEN Idle[c] ELSE Head(cpu[c].rq)
RestOf(c) == IF cpu[c].rq = <<>> THEN <<>> ELSE Tail(cpu[c].rq)

\* The task that resched takes is the current one, or one that no CPU uses.
LEMMA NextFree ==
    ASSUME Core, NEW c \in CPUs, cpu[c].pc = "pick"
    PROVE  /\ NextOf(c) \in AllTasks /\ RestOf(c) \in Seq(AllTasks) /\ Distinct(RestOf(c))
           /\ \/ NextOf(c) = Idle[c] /\ RestOf(c) = cpu[c].rq
              \/ /\ NextOf(c) \in Tasks /\ task[NextOf(c)].state = "Ready" /\ NextOf(c) \in Rq(c)
                 /\ Members(RestOf(c)) = Rq(c) \ {NextOf(c)}
           /\ task[NextOf(c)].pc # "new" /\ c \in task[NextOf(c)].cpumask
           /\ NextOf(c) # cpu[c].current =>
                /\ ~task[NextOf(c)].on_cpu /\ task[NextOf(c)].saved
                /\ \A d \in CPUs : NextOf(c) \notin Held(d)
<1> DEFINE n == NextOf(c)
           q == RestOf(c)
<1>1. cpu[c].rq \in Seq(AllTasks) /\ Distinct(cpu[c].rq)
  BY DEF Core, TypeOK, CPUType, PlacesKept
<1>2. CASE cpu[c].rq = <<>>
  <2>1. n = Idle[c] /\ q = cpu[c].rq /\ Idle[c] \in AllTasks
    BY <1>2 DEF NextOf, RestOf, AllTasks
  <2>2. task[n].pc # "new" /\ c \in task[n].cpumask
    BY <2>1 DEF Core, OwnTasksKept
  <2>3. ASSUME n # cpu[c].current PROVE \A d \in CPUs : n \notin Held(d)
    BY <2>1, <2>3, SMTT(40) DEF Core, OwnTasksKept, Held
  <2>4. n # cpu[c].current => ~task[n].on_cpu /\ task[n].saved
    BY <2>1, <2>3 DEF Core, CpusKept
  <2> QED BY <1>1, <2>1, <2>2, <2>3, <2>4
<1>3. CASE cpu[c].rq # <<>>
  <2>1. n = Head(cpu[c].rq) /\ q = Tail(cpu[c].rq)
    BY <1>3 DEF NextOf, RestOf
  <2> HIDE DEF n, q
  <2>2. /\ n \in Rq(c) /\ Rq(c) = Members(q) \cup {n} /\ q \in Seq(AllTasks)
        /\ Distinct(q) /\ n \notin Members(q)
    BY <1>1, <1>3, <2>1, PoppedQueue DEF Rq
  <2>3. n \in Tasks /\ task[n].state = "Ready" /\ task[n].pc # "new" /\ c \in task[n].cpumask
    BY <2>2 DEF Core, PlacesKept
  <2>4. ASSUME n # cpu[c].current PROVE \A d \in CPUs : n \notin Held(d)
    <3> SUFFICES ASSUME NEW d \in CPUs, n \in Held(d) PROVE FALSE
      BY Zenon
    <3>1. task[n].on_cpu
      BY <2>3 DEF Core, CpusKept, AllTasks
    <3>2. n \in Held(c)
      BY <2>2, <3>1, SMTT(40) DEF Core, HandedOver
    <3> QED BY <2>4, <3>2 DEF Held
  <2>5. n # cpu[c].current => ~task[n].on_cpu /\ task[n].saved
    BY <2>3, <2>4 DEF Core, CpusKept, AllTasks
  <2>6. n \in AllTasks /\ Members(q) = Rq(c) \ {n}
    BY <2>2, <2>3 DEF AllTasks
  <2> QED BY <2>2, <2>3, <2>4, <2>5, <2>6 DEF n, q
<1> QED BY <1>2, <1>3

\* resched up to the exchange of registers.
LEMMA ReschedKeeps ==
    ASSUME Core, NEW c \in CPUs, Resched(c)
    PROVE  Core' /\ (WaitsKept /\ TimersKept => WaitsKept' /\ TimersKept')
<1> DEFINE n == NextOf(c)
           q == RestOf(c)
           o == cpu[c].current
           h == task[n].on_cpu \/ n # o
           p == IF n = o THEN "run" ELSE "ctx"
           v == IF n = o THEN cpu[c].prev ELSE o
           r == [task[n] EXCEPT !.state = "Running", !.on_cpu = h]
           k == [cpu[c] EXCEPT !.rq = q, !.pc = p, !.prev = v, !.current = n]
<1>1. /\ c \in CPUs /\ n \in AllTasks /\ q \in Seq(AllTasks) /\ h \in BOOLEAN /\ p \in {"run", "ctx"}
      /\ v \in AllTasks \cup {None} /\ o \in AllTasks
  <2>1. n \in AllTasks /\ q \in Seq(AllTasks)
    BY NextFree, Zenon DEF Resched
  <2>2. o \in AllTasks /\ v \in AllTasks \cup {None}
    BY SMTT(30) DEF Core, TypeOK, CPUType
  <2> QED BY <2>1, <2>2, SMTT(30)
<1>2. /\ task' = [task EXCEPT ![n] = r]
      /\ cpu' = [cpu EXCEPT ![c] = k]
      /\ UNCHANGED <<wq, wq_lock, next_ticket>>
  BY Zenon DEF Resched, NextOf, RestOf
<1> HIDE DEF h, p, v
<1>t1a. task[n] \in TaskType
  BY <1>1 DEF Core, TypeOK
<1>t1b. r \in TaskType
  BY <1>1, <1>t1a, Zenon DEF TaskType
<1>t1c. /\ r.state = "Running" /\ r.on_cpu = h /\ r.in_wait_queue = task[n].in_wait_queue
      /\ r.cpumask = task[n].cpumask /\ r.timer_ticket = task[n].timer_ticket /\ r.saved = task[n].saved
      /\ r.waitq = task[n].waitq /\ r.timeout = task[n].timeout /\ r.pc = task[n].pc
      /\ r.moved = task[n].moved
  BY <1>t1a DEF TaskType
<1> HIDE DEF r
<1>t1d. /\ task' \in [AllTasks -> TaskType]
      /\ \A u \in AllTasks : task'[u] = IF u = n THEN r ELSE task[u]
  BY <1>1, <1>2, <1>t1b DEF Core, TypeOK
<1>k1a. cpu[c] \in CPUType
  BY <1>1 DEF Core, TypeOK
<1>k1b. k \in CPUType
  BY <1>1, <1>k1a, Zenon DEF CPUType
<1>k1c. /\ k.current = n /\ k.prev = v /\ k.rq = q
      /\ k.timers = cpu[c].timers /\ k.pc = p /\ k.wake = cpu[c].wake
  BY <1>k1a DEF CPUType
<1> HIDE DEF k
<1>k1d. /\ cpu' \in [CPUs -> CPUType]
      /\ \A d \in CPUs : cpu'[d] = IF d = c THEN k ELSE cpu[d]
  BY <1>1, <1>2, <1>k1b DEF Core, TypeOK
<1>3. /\ cpu[c].pc = "pick" /\ cpu[c].current = o
      /\ h = (task[n].on_cpu \/ n # o) /\ p = (IF n = o THEN "run" ELSE "ctx") /\ v = IF n = o THEN cpu[c].prev ELSE o
  BY Zenon DEF Resched, h, p, v
<1>4. /\ Distinct(q)
      /\ \/ n = Idle[c] /\ q = cpu[c].rq
         \/ n \in Tasks /\ task[n].state = "Ready" /\ n \in Rq(c) /\ Members(q) = Rq(c) \ {n}
      /\ task[n].pc # "new" /\ c \in task[n].cpumask
      /\ n # o => ~task[n].on_cpu /\ task[n].saved /\ \A d \in CPUs : n \notin Held(d)
  BY <1>3, NextFree
<1> HIDE DEF n, q, o
<1>5. TypeOK'
  BY <1>2, <1>t1d, <1>k1d DEF Core, TypeOK
<1>6. /\ Held(c) = {o} /\ Held(c)' = (IF n = o THEN {o} ELSE {n, o})
      /\ \A d \in CPUs \ {c} : Held(d)' = Held(d) /\ o \notin Held(d)
  <2>1. Held(c) = {o}
    BY <1>3 DEF Held
  <2>2. \A d \in CPUs \ {c} : Held(d)' = Held(d)
    BY <1>k1c, <1>k1d, SMTT(30) DEF Held
  <2>3. \A d \in CPUs \ {c} : o \notin Held(d)
    BY <2>1 DEF Core, CpusKept
  <2>4. CASE n = o
    BY <1>3, <2>1, <2>2, <2>3, <2>4, <1>k1c, <1>k1d, Zenon DEF Held
  <2>5. CASE n # o
    BY <1>3, <2>1, <2>2, <2>3, <2>5, <1>k1c, <1>k1d, Zenon DEF Held
  <2> QED BY <2>4, <2>5
<1>7. CpusKept'
  <2>1. CASE n = o
    <3>a. task[n].on_cpu \in BOOLEAN
      BY <1>t1a DEF TaskType
    <3>b. h = task[n].on_cpu
      BY <1>3, <2>1, <3>a
    <3>c. /\ p = "run" /\ v = cpu[c].prev
      BY <1>3, <2>1, SMTT(40)
    <3>1. HwSame
      BY <1>3, <2>1, <3>b, <3>c, <1>t1c, <1>t1d, <1>k1c, <1>k1d DEF HwSame
    <3> QED BY <3>1, HwFrame DEF Core
  <2>2. CASE n # o
    <3>0. /\ task'[n].on_cpu = TRUE /\ task'[n].saved = TRUE
          /\ \A u \in AllTasks \ {n} : task'[u].on_cpu = task[u].on_cpu /\ task'[u].saved = task[u].saved
          /\ cpu'[c].pc = "ctx" /\ cpu'[c].prev = o /\ cpu'[c].current = n
          /\ \A d \in CPUs \ {c} : cpu'[d] = cpu[d]
      BY <1>1, <1>3, <1>4, <2>2, <1>t1c, <1>t1d, <1>k1c, <1>k1d, Zenon
    <3>1. \A d \in CPUs : cpu'[d].pc \in {"ctx", "clear"} => cpu'[d].prev \in AllTasks /\ cpu'[d].prev # cpu'[d].current
      BY <1>1, <2>2, <3>0 DEF Core, CpusKept
    <3>2. \A d, e \in CPUs : d # e => Held(d)' \cap Held(e)' = {}
      BY <1>4, <1>6, <2>2, SMTT(40) DEF Core, CpusKept
    <3>3. \A u \in AllTasks : task'[u].on_cpu <=> \E d \in CPUs : u \in Held(d)'
      <4>1. \A u \in AllTasks : task[u].on_cpu <=> \E d \in CPUs : u \in Held(d)
        BY DEF Core, CpusKept
      <4> QED BY <1>4, <1>6, <2>2, <3>0, <4>1
    <3>4. \A u \in AllTasks : ~task'[u].on_cpu => task'[u].saved
      BY <3>0 DEF Core, CpusKept
    <3>5. \A d \in CPUs : /\ cpu'[d].pc = "ctx" => task'[cpu'[d].current].saved
                          /\ cpu'[d].pc = "clear" => task'[cpu'[d].prev].saved
      <4>1. \A d \in CPUs : cpu[d].current \in AllTasks
        BY DEF Core, TypeOK, CPUType
      <4>2. \A d \in CPUs : cpu[d].pc = "clear" => cpu[d].prev \in AllTasks
        BY DEF Core, CpusKept
      <4> QED BY <3>0, <4>1, <4>2 DEF Core, CpusKept
    <3> QED BY <3>1, <3>2, <3>3, <3>4, <3>5 DEF CpusKept
  <2> QED BY <2>1, <2>2
<1>8. \A d \in CPUs : /\ Idle[d] \in AllTasks \ Tasks /\ Migrator[d] \in AllTasks \ Tasks
                      /\ Migrator[d] # n /\ (n = Idle[d] => d = c)
  BY <1>4, SchedAssumption, Zenon DEF AllTasks
<1>9. OwnTasksKept'
  <2>1. \A d, e \in CPUs : d # e => Idle[d] \notin Held(e)' /\ Migrator[d] \notin Held(e)'
    BY <1>6, <1>8, SMTT(40) DEF Core, OwnTasksKept
  <2>2. \A d \in CPUs : /\ task'[Idle[d]].pc = "run" /\ task'[Idle[d]].state \in {"Running", "Ready"}
                        /\ task'[Migrator[d]].pc = "migrate" /\ task'[Migrator[d]].state # "Blocked"
                        /\ task'[Idle[d]].cpumask = CPUs /\ task'[Migrator[d]].cpumask = CPUs
    BY <1>8, <1>t1c, <1>t1d, SMTT(40) DEF Core, OwnTasksKept
  <2>3. \A u \in Tasks : task'[u].pc # "migrate"
    BY <1>t1c, <1>t1d DEF Core, OwnTasksKept, AllTasks
  <2> QED BY <2>1, <2>2, <2>3 DEF OwnTasksKept
<1>10. RunningKept'
  <2>0. /\ cpu'[c].current = n /\ cpu'[c].pc \in OnWay /\ cpu[c].pc \notin OnWay
        /\ \A d \in CPUs \ {c} : cpu'[d] = cpu[d] /\ cpu'[d].current \in AllTasks
    BY <1>1, <1>3, <1>k1c, <1>k1d DEF OnWay, Core, TypeOK, CPUType
  <2>1. \A u \in AllTasks : task'[u].state = "Running" <=>
            \E d \in CPUs : cpu'[d].current = u /\ cpu'[d].pc \in OnWay
    <3> SUFFICES ASSUME NEW u \in AllTasks
                 PROVE  task'[u].state = "Running" <=> \E d \in CPUs : cpu'[d].current = u /\ cpu'[d].pc \in OnWay
      OBVIOUS
    <3>1. CASE u = n
      BY <1>1, <2>0, <3>1, <1>t1c, <1>t1d
    <3>2. CASE u # n
      <4>1. task'[u].state = task[u].state
        BY <3>2, <1>t1c, <1>t1d
      <4>2. task[u].state = "Running" <=> \E d \in CPUs : cpu[d].current = u /\ cpu[d].pc \in OnWay
        BY DEF Core, RunningKept
      <4> QED BY <2>0, <3>2, <4>1, <4>2
    <3> QED BY <3>1, <3>2
  <2>2. \A d \in CPUs : cpu'[d].pc \in OnWay => d \in task'[cpu'[d].current].cpumask
    <3>1. \A u \in AllTasks : task'[u].cpumask = task[u].cpumask
      BY <1>t1c, <1>t1d, SMTT(30)
    <3> QED BY <1>1, <1>4, <2>0, <3>1 DEF Core, RunningKept
  <2>3. \A u \in Tasks : task'[u].pc = "new" => task'[u].state = "Ready" /\ ~task'[u].on_cpu
    BY <1>4, <1>t1c, <1>t1d, SMTT(30) DEF Core, RunningKept, AllTasks
  <2> QED BY <2>1, <2>2, <2>3, SMTT(40) DEF RunningKept
<1>11. \A d \in CPUs : /\ task'[Migrator[d]].moved = task[Migrator[d]].moved
                       /\ task'[Migrator[d]].state = task[Migrator[d]].state
                       /\ cpu'[d].wake = cpu[d].wake
                       /\ cpu'[d].pc = "spin" <=> cpu[d].pc = "spin"
  BY <1>1, <1>3, <1>8, <1>t1c, <1>t1d, <1>k1c, <1>k1d
<1>12. \A d \in CPUs : Wk(d)' = Wk(d) /\ Cr(d)' = Cr(d)
  BY <1>11 DEF Wk, Cr
<1>13. \A u \in AllTasks : task'[u].cpumask = task[u].cpumask /\ task'[u].pc = task[u].pc
                           /\ (u # n => task'[u].state = task[u].state)
  BY <1>t1c, <1>t1d
<1>14. PlacesKept' /\ \A d \in CPUs : Rq(d)' = Rq(d) \ {n}
  <2>1. CASE n = Idle[c] /\ q = cpu[c].rq
    <3>1. \A d \in CPUs : cpu'[d].rq = cpu[d].rq
      BY <2>1, <1>k1c, <1>k1d
    <3>2. \A u \in Tasks : task'[u].state = task[u].state /\ task'[u].pc = task[u].pc /\ task'[u].cpumask = task[u].cpumask
      BY <1>8, <1>13, <2>1, SMTT(40) DEF AllTasks
    <3>3. PlacesKept' /\ \A d \in CPUs : Rq(d)' = Rq(d)
      BY <1>11, <3>1, <3>2, PlacesFrame DEF Core
    <3>4. \A d \in CPUs : n \notin Rq(d)
      BY <1>8, <2>1, ZenonT(30) DEF Core, PlacesKept
    <3> QED BY <3>3, <3>4
  <2>2. CASE n \in Tasks /\ task[n].state = "Ready" /\ n \in Rq(c) /\ Members(q) = Rq(c) \ {n}
    <3>1. \A d \in CPUs : Rq(d)' = Rq(d) \ {n} /\ Distinct(cpu'[d].rq)
      <4>1. Rq(c)' = Members(q) /\ cpu'[c].rq = q
        BY <1>k1c, <1>k1d DEF Rq
      <4>2. \A d \in CPUs \ {c} : Rq(d)' = Rq(d) /\ cpu'[d].rq = cpu[d].rq
        BY <1>k1c, <1>k1d, SMTT(40) DEF Rq
      <4>3. \A d \in CPUs \ {c} : n \notin Rq(d)
        BY <2>2, SMTT(40) DEF Core, PlacesKept
      <4> QED BY <1>4, <2>2, <4>1, <4>2, <4>3 DEF Core, PlacesKept
    <3>2. \A d \in CPUs : n \notin Wk(d) /\ n \notin Cr(d)
      BY <2>2, SMTT(40) DEF Core, PlacesKept
    <3>3. \A d \in CPUs : \A u \in Rq(d)' \cup Wk(d)' \cup Cr(d)' :
              u \in Tasks /\ task'[u].state = "Ready" /\ task'[u].pc # "new" /\ u # n
      BY <1>12, <1>13, <3>1, <3>2, SMTT(30) DEF Core, PlacesKept, AllTasks
    <3>4. \A d, e \in CPUs : /\ Rq(d)' \cap Wk(e)' = {} /\ Rq(d)' \cap Cr(e)' = {} /\ Wk(d)' \cap Cr(e)' = {}
                             /\ d # e => Rq(d)' \cap Rq(e)' = {} /\ Wk(d)' \cap Wk(e)' = {} /\ Cr(d)' \cap Cr(e)' = {}
      BY <1>12, <3>1, SMTT(30) DEF Core, PlacesKept
    <3>5. \A d \in CPUs : /\ cpu'[d].pc = "spin" <=> cpu'[d].wake.task # None
                          /\ cpu'[d].pc = "spin" => cpu'[d].wake.cpu \in task'[cpu'[d].wake.task].cpumask
      <4>1. \A d \in CPUs : cpu[d].pc = "spin" => cpu[d].wake.task \in AllTasks
        BY SMTT(40) DEF Core, PlacesKept, Wk, AllTasks
      <4> QED BY <1>11, <1>13, <4>1, SMTT(30) DEF Core, PlacesKept
    <3>6. \A d \in CPUs : \A u \in Rq(d)' : d \in task'[u].cpumask
      BY <1>13, <3>1, <3>3, SMTT(30) DEF Core, PlacesKept, AllTasks
    <3>7. MigratorsCarry'
      BY <1>11, SameMigrators DEF Core, PlacesKept
    <3>8. \A u \in Tasks : task'[u].state = "Ready" /\ task'[u].pc # "new" =>
              \E d \in CPUs : u \in Rq(d)' \cup Wk(d)' \cup Cr(d)'
      <4> SUFFICES ASSUME NEW u \in Tasks, task'[u].state = "Ready", task'[u].pc # "new"
                   PROVE  \E d \in CPUs : u \in Rq(d)' \cup Wk(d)' \cup Cr(d)'
        OBVIOUS
      <4>1. u # n
        BY <1>1, <1>t1c, <1>t1d, SMTT(40)
      <4>2. PICK d \in CPUs : u \in Rq(d) \cup Wk(d) \cup Cr(d)
        BY <1>13, <4>1 DEF Core, PlacesKept, AllTasks
      <4> QED BY <1>12, <3>1, <4>1, <4>2, SMTT(40)
    <3> QED BY <3>1, <3>3, <3>4, <3>5, <3>6, <3>7, <3>8, SMTT(30) DEF PlacesKept
  <2> QED BY <1>4, <2>1, <2>2
<1>15. HandedOver'
  <2> SUFFICES ASSUME NEW d \in CPUs, NEW u \in Rq(d)' \cup Cr(d)', task'[u].on_cpu
               PROVE  u \in Held(d)'
    BY DEF HandedOver
  <2>1. u \in Rq(d) \cup Cr(d)
    BY <1>12, <1>14
  <2>2. u \in AllTasks /\ u # n
    <3>1. u \in Tasks /\ task[u].state = "Ready" /\ (u = n => u \in Cr(d))
      <4>1. u \in Tasks /\ task[u].state = "Ready"
        BY <2>1 DEF Core, PlacesKept
      <4>2. u = n => u \in Cr(d)
        BY <1>12, <1>14, SMTT(40)
      <4> QED BY <4>1, <4>2, SMTT(40)
    <3>2. u # n
      <4>1. n \in Tasks => n \in Rq(c)
        BY <1>4, <1>8, SMTT(40)
      <4>2. Rq(c) \cap Cr(d) = {}
        BY DEF Core, PlacesKept
      <4> QED BY <3>1, <4>1, <4>2
    <3>3. u \in AllTasks
      BY <3>1, Zenon DEF AllTasks
    <3> QED BY <3>2, <3>3
  <2>3. task[u].on_cpu
    BY <2>2, <1>t1c, <1>t1d
  <2>4. u \in Held(d)
    BY <2>1, <2>3 DEF Core, HandedOver
  <2> QED BY <1>6, <2>4
<1>16. WaitsKept => WaitsKept'
  <2>1. \A u \in Tasks : /\ task'[u].in_wait_queue = task[u].in_wait_queue
                         /\ task'[u].waitq = task[u].waitq /\ task'[u].pc = task[u].pc
                         /\ task'[u].state = "Blocked" => task[u].state = "Blocked"
    BY <1>t1c, <1>t1d, SMTT(40) DEF AllTasks
  <2>2. \A d \in CPUs : /\ cpu'[d].pc = "push" <=> cpu[d].pc = "push"
                        /\ cpu[d].pc = "push" => cpu'[d].current = cpu[d].current
    BY <1>1, <1>3, <1>k1c, <1>k1d
  <2> QED BY <1>2, <2>1, <2>2, WaitsFrame, SMTT(40)
<1>17. TimersKept => TimersKept'
  <2>1. \A u \in Tasks : /\ task'[u].timer_ticket = task[u].timer_ticket /\ task'[u].pc = task[u].pc
                         /\ task'[u].state = "Blocked" <=> task[u].state = "Blocked"
    BY <1>4, <1>8, <1>t1c, <1>t1d DEF AllTasks
  <2>2. \A d \in CPUs : cpu'[d].timers = cpu[d].timers
    BY <1>k1c, <1>k1d
  <2> QED BY <1>2, <2>1, <2>2, TimersFrame, SMTT(30)
<1> QED BY <1>5, <1>7, <1>9, <1>10, <1>14, <1>15, <1>16, <1>17 DEF Core

\* TaskContext::switch_to.
LEMMA SwitchKeeps ==
    ASSUME Core, NEW c \in CPUs, SwitchContext(c)
    PROVE  Core' /\ (WaitsKept /\ TimersKept => WaitsKept' /\ TimersKept')
<1> DEFINE a == cpu[c].prev
           o == cpu[c].current
           r == [task[a] EXCEPT !.saved = TRUE]
           task1 == [task EXCEPT ![a] = r]
           s == [task1[o] EXCEPT !.saved = FALSE]
           k == [cpu[c] EXCEPT !.pc = "clear"]
<1>1. c \in CPUs /\ a \in AllTasks /\ o \in AllTasks /\ a # o
  <2>1. cpu[c].pc = "ctx" /\ o \in AllTasks
    BY DEF SwitchContext, Core, TypeOK, CPUType
  <2> QED BY <2>1 DEF Core, CpusKept
<1>2. /\ task' = [task1 EXCEPT ![o] = s]
      /\ cpu' = [cpu EXCEPT ![c] = k]
      /\ UNCHANGED <<wq, wq_lock, next_ticket>>
  BY DEF SwitchContext
<1>t1a. task[a] \in TaskType
  BY <1>1 DEF Core, TypeOK
<1>t1b. r \in TaskType
  BY <1>1, <1>t1a, Zenon DEF TaskType
<1>t1c. /\ r.state = task[a].state /\ r.on_cpu = task[a].on_cpu /\ r.in_wait_queue = task[a].in_wait_queue
      /\ r.cpumask = task[a].cpumask /\ r.timer_ticket = task[a].timer_ticket /\ r.saved = TRUE
      /\ r.waitq = task[a].waitq /\ r.timeout = task[a].timeout /\ r.pc = task[a].pc
      /\ r.moved = task[a].moved
  BY <1>t1a DEF TaskType
<1> HIDE DEF r
<1>t1d. /\ task1 \in [AllTasks -> TaskType]
      /\ \A u \in AllTasks : task1[u] = IF u = a THEN r ELSE task[u]
  BY <1>1, <1>2, <1>t1b DEF Core, TypeOK
<1> HIDE DEF task1
<1>t2a. task1[o] \in TaskType
  BY <1>1, <1>t1d DEF Core, TypeOK
<1>t2b. s \in TaskType
  BY <1>1, <1>t2a, Zenon DEF TaskType
<1>t2c. /\ s.state = task1[o].state /\ s.on_cpu = task1[o].on_cpu /\ s.in_wait_queue = task1[o].in_wait_queue
      /\ s.cpumask = task1[o].cpumask /\ s.timer_ticket = task1[o].timer_ticket /\ s.saved = FALSE
      /\ s.waitq = task1[o].waitq /\ s.timeout = task1[o].timeout /\ s.pc = task1[o].pc
      /\ s.moved = task1[o].moved
  BY <1>t2a DEF TaskType
<1> HIDE DEF s
<1>t2d. /\ task' \in [AllTasks -> TaskType]
      /\ \A u \in AllTasks : task'[u] = IF u = o THEN s ELSE task1[u]
  BY <1>1, <1>2, <1>t2b, <1>t1d DEF Core, TypeOK
<1>k1a. cpu[c] \in CPUType
  BY <1>1 DEF Core, TypeOK
<1>k1b. k \in CPUType
  BY <1>1, <1>k1a, SMTT(40) DEF CPUType
<1>k1c. /\ k.current = cpu[c].current /\ k.prev = cpu[c].prev /\ k.rq = cpu[c].rq
      /\ k.timers = cpu[c].timers /\ k.pc = "clear" /\ k.wake = cpu[c].wake
  BY <1>k1a DEF CPUType
<1> HIDE DEF k
<1>k1d. /\ cpu' \in [CPUs -> CPUType]
      /\ \A d \in CPUs : cpu'[d] = IF d = c THEN k ELSE cpu[d]
  BY <1>1, <1>2, <1>k1b DEF Core, TypeOK
<1>3. cpu[c].pc = "ctx" /\ cpu[c].prev = a /\ cpu[c].current = o
  BY DEF SwitchContext
<1> HIDE DEF a, o
<1>5. TypeOK'
  BY <1>2, <1>t2d, <1>k1d DEF Core, TypeOK
<1>6. /\ \A u \in AllTasks : task'[u].on_cpu = task[u].on_cpu
      /\ task'[a].saved = TRUE
      /\ \A u \in AllTasks \ {a, o} : task'[u].saved = task[u].saved
  BY <1>1, <1>t1c, <1>t1d, <1>t2c, <1>t2d
<1>8. /\ \A d \in CPUs \ {c} : cpu'[d] = cpu[d]
      /\ cpu'[c].pc = "clear" /\ cpu'[c].current = o /\ cpu'[c].prev = a
  BY <1>1, <1>3, <1>k1c, <1>k1d
<1>h. \A d \in CPUs : Held(d)' = Held(d)
  BY <1>3, <1>8 DEF Held
<1>g. \A d \in CPUs, u \in AllTasks : /\ task'[u].on_cpu => task[u].on_cpu
                                      /\ u \in Held(d) /\ task'[u].on_cpu => u \in Held(d)'
  BY <1>6, <1>h
<1>7. CpusKept'
  <2>0. /\ a \in Held(c) /\ o \in Held(c) /\ task[o].on_cpu
        /\ \A d \in CPUs : /\ cpu[d].current \in Held(d) /\ cpu[d].current \in AllTasks
                           /\ cpu[d].pc \in {"ctx", "clear"} => cpu[d].prev \in Held(d) /\ cpu[d].prev \in AllTasks
    <3>1. a \in Held(c) /\ o \in Held(c)
      BY <1>3 DEF Held
    <3>2. task[o].on_cpu
      BY <1>1, <3>1, SMTT(40) DEF Core, CpusKept
    <3>3. \A d \in CPUs : /\ cpu[d].current \in Held(d) /\ cpu[d].current \in AllTasks
                          /\ cpu[d].pc \in {"ctx", "clear"} => cpu[d].prev \in Held(d) /\ cpu[d].prev \in AllTasks
      BY DEF Held, Core, CpusKept, TypeOK, CPUType
    <3> QED BY <3>1, <3>2, <3>3
  <2>1. \A d \in CPUs : cpu'[d].pc \in {"ctx", "clear"} => cpu'[d].prev \in AllTasks /\ cpu'[d].prev # cpu'[d].current
    BY <1>1, <1>8 DEF Core, CpusKept
  <2>2. \A d, e \in CPUs : d # e => Held(d)' \cap Held(e)' = {}
    BY <1>h DEF Core, CpusKept
  <2>3. \A u \in AllTasks : task'[u].on_cpu <=> \E d \in CPUs : u \in Held(d)'
    <3>1. \A u \in AllTasks : task[u].on_cpu <=> \E d \in CPUs : u \in Held(d)
      BY DEF Core, CpusKept
    <3> QED BY <1>6, <1>h, <3>1, SMTT(40)
  <2>4. \A u \in AllTasks : ~task'[u].on_cpu => task'[u].saved
    BY <1>6, <2>0 DEF Core, CpusKept
  <2>5. \A d \in CPUs : /\ cpu'[d].pc = "ctx" => task'[cpu'[d].current].saved
                        /\ cpu'[d].pc = "clear" => task'[cpu'[d].prev].saved
    <3> SUFFICES ASSUME NEW d \in CPUs
                 PROVE  /\ cpu'[d].pc = "ctx" => task'[cpu'[d].current].saved
                        /\ cpu'[d].pc = "clear" => task'[cpu'[d].prev].saved
      OBVIOUS
    <3>1. CASE d = c
      BY <1>1, <1>6, <1>8, <3>1
    <3>2. CASE d # c
      <4>1. o \notin Held(d) /\ cpu'[d] = cpu[d]
        BY <1>8, <2>0, <3>2 DEF Core, CpusKept
      <4>2. \A u \in AllTasks : u # o /\ task[u].saved => task'[u].saved
        BY <1>6, SMTT(40)
      <4>3. cpu[d].pc = "ctx" => task[cpu[d].current].saved /\ cpu[d].current \in AllTasks /\ cpu[d].current # o
        BY <2>0, <4>1, SMTT(40) DEF Core, CpusKept
      <4>4. cpu[d].pc = "clear" => task[cpu[d].prev].saved /\ cpu[d].prev \in AllTasks /\ cpu[d].prev # o
        BY <2>0, <4>1 DEF Core, CpusKept
      <4> QED BY <4>1, <4>2, <4>3, <4>4, SMTT(40)
    <3> QED BY <3>1, <3>2
  <2> QED BY <2>1, <2>2, <2>3, <2>4, <2>5 DEF CpusKept
<1>m. \A d \in CPUs : Idle[d] \in AllTasks \ Tasks /\ Migrator[d] \in AllTasks \ Tasks
  BY SchedAssumption DEF AllTasks
<1>n. \A u \in AllTasks : /\ task'[u].state = task[u].state /\ task'[u].cpumask = task[u].cpumask
                          /\ task'[u].pc = task[u].pc /\ task'[u].moved = task[u].moved
  BY <1>t1c, <1>t1d, <1>t2c, <1>t2d, SMTT(40)
<1>o. OwnTasksKept'
  <2>1. \A d, e \in CPUs : d # e => Idle[d] \notin Held(e)' /\ Migrator[d] \notin Held(e)'
    BY <1>h, SMTT(40) DEF Core, OwnTasksKept
  <2>2. \A d \in CPUs : /\ task'[Idle[d]].pc = "run" /\ task'[Idle[d]].state \in {"Running", "Ready"}
                        /\ task'[Migrator[d]].pc = "migrate" /\ task'[Migrator[d]].state # "Blocked"
                        /\ task'[Idle[d]].cpumask = CPUs /\ task'[Migrator[d]].cpumask = CPUs
    BY <1>m, <1>n, SMTT(40) DEF Core, OwnTasksKept
  <2>3. \A u \in Tasks : task'[u].pc # "migrate"
    BY <1>n, SMTT(40) DEF Core, OwnTasksKept, AllTasks
  <2> QED BY <2>1, <2>2, <2>3 DEF OwnTasksKept
<1>r. RunningKept'
  <2>1. \A d \in CPUs : cpu'[d].current = cpu[d].current /\ (cpu'[d].pc \in OnWay <=> cpu[d].pc \in OnWay)
    BY <1>1, <1>3, <1>k1c, <1>k1d, SMTT(30) DEF OnWay
  <2>2. \A u \in Tasks : task'[u].pc = "new" => ~task'[u].on_cpu
    <3>1. \A u \in Tasks : u \in AllTasks
      BY SMTT(40) DEF AllTasks
    <3> QED BY <1>6, <1>n, <3>1, SMTT(40) DEF Core, RunningKept
  <2>3. \A u \in AllTasks : task'[u].state = "Running" <=>
            \E d \in CPUs : cpu'[d].current = u /\ cpu'[d].pc \in OnWay
    BY <1>n, <2>1 DEF Core, RunningKept
  <2>4. \A d \in CPUs : cpu'[d].pc \in OnWay => d \in task'[cpu'[d].current].cpumask
    <3>1. \A d \in CPUs : cpu[d].current \in AllTasks
      BY DEF Core, TypeOK, CPUType
    <3> QED BY <1>n, <2>1, <3>1, SMTT(30) DEF Core, RunningKept
  <2> QED BY <1>n, <2>2, <2>3, <2>4, SMTT(40) DEF Core, RunningKept, AllTasks
<1>p. PlacesKept' /\ \A d \in CPUs : Rq(d)' = Rq(d) /\ Wk(d)' = Wk(d) /\ Cr(d)' = Cr(d)
  <2>1. \A d \in CPUs : /\ cpu'[d].rq = cpu[d].rq /\ cpu'[d].wake = cpu[d].wake
                        /\ cpu'[d].pc = "spin" <=> cpu[d].pc = "spin"
    BY <1>1, <1>3, <1>k1c, <1>k1d
  <2> QED BY <1>m, <1>n, <2>1, PlacesFrame, SMTT(40) DEF Core, AllTasks
<1>q. HandedOver'
  <2> SUFFICES ASSUME NEW d \in CPUs, NEW u \in Rq(d)' \cup Cr(d)', task'[u].on_cpu
               PROVE  u \in Held(d)'
    BY DEF HandedOver
  <2>1. u \in Rq(d) \cup Cr(d) /\ u \in AllTasks
    BY <1>p, ZenonT(30) DEF Core, PlacesKept, AllTasks
  <2>2. task[u].on_cpu /\ (u \in Held(d) => u \in Held(d)')
    BY <1>g, <2>1, SMTT(40)
  <2> QED BY <2>1, <2>2, SMTT(30) DEF Core, HandedOver
<1>w. WaitsKept => WaitsKept'
  <2>1. \A u \in Tasks : /\ task'[u].in_wait_queue = task[u].in_wait_queue
                         /\ task'[u].waitq = task[u].waitq /\ task'[u].pc = task[u].pc
                         /\ task'[u].state = task[u].state
    BY <1>t1c, <1>t1d, <1>t2c, <1>t2d, SMTT(40) DEF AllTasks
  <2>2. \A d \in CPUs : /\ cpu'[d].pc = "push" <=> cpu[d].pc = "push"
                        /\ cpu[d].pc = "push" => cpu'[d].current = cpu[d].current
    BY <1>1, <1>3, <1>k1c, <1>k1d, SMTT(40)
  <2> QED BY <1>2, <2>1, <2>2, WaitsFrame, SMTT(40)
<1>x. TimersKept => TimersKept'
  <2>1. \A u \in Tasks : /\ task'[u].timer_ticket = task[u].timer_ticket /\ task'[u].pc = task[u].pc
                         /\ task'[u].state = task[u].state
    BY <1>t1c, <1>t1d, <1>t2c, <1>t2d, SMTT(40) DEF AllTasks
  <2>2. \A d \in CPUs : cpu'[d].timers = cpu[d].timers
    BY <1>k1c, <1>k1d, SMTT(40)
  <2> QED BY <1>2, <2>1, <2>2, TimersFrame, SMTT(40)
<1> QED BY <1>5, <1>7, <1>o, <1>p, <1>q, <1>r, <1>w, <1>x, SMTT(40) DEF Core

\* clear_prev_task_on_cpu.
LEMMA ClearKeeps ==
    ASSUME Core, NEW c \in CPUs, ClearPrevTaskOnCpu(c)
    PROVE  Core' /\ (WaitsKept /\ TimersKept => WaitsKept' /\ TimersKept')
<1> DEFINE a == cpu[c].prev
           o == cpu[c].current
           r == [task[a] EXCEPT !.on_cpu = FALSE]
           k == [cpu[c] EXCEPT !.pc = "run", !.prev = None]
<1>1. c \in CPUs /\ a \in AllTasks /\ o \in AllTasks /\ a # o
  <2>1. cpu[c].pc = "clear" /\ o \in AllTasks
    BY DEF ClearPrevTaskOnCpu, Core, TypeOK, CPUType
  <2> QED BY <2>1 DEF Core, CpusKept
<1>2. /\ task' = [task EXCEPT ![a] = r]
      /\ cpu' = [cpu EXCEPT ![c] = k]
      /\ UNCHANGED <<wq, wq_lock, next_ticket>>
  BY Zenon DEF ClearPrevTaskOnCpu
<1>t1a. task[a] \in TaskType
  BY <1>1 DEF Core, TypeOK
<1>t1b. r \in TaskType
  BY <1>1, <1>t1a, Zenon DEF TaskType
<1>t1c. /\ r.state = task[a].state /\ r.on_cpu = FALSE /\ r.in_wait_queue = task[a].in_wait_queue
      /\ r.cpumask = task[a].cpumask /\ r.timer_ticket = task[a].timer_ticket /\ r.saved = task[a].saved
      /\ r.waitq = task[a].waitq /\ r.timeout = task[a].timeout /\ r.pc = task[a].pc
      /\ r.moved = task[a].moved
  BY <1>t1a DEF TaskType
<1> HIDE DEF r
<1>t1d. /\ task' \in [AllTasks -> TaskType]
      /\ \A u \in AllTasks : task'[u] = IF u = a THEN r ELSE task[u]
  BY <1>1, <1>2, <1>t1b DEF Core, TypeOK
<1>k1a. cpu[c] \in CPUType
  BY <1>1 DEF Core, TypeOK
<1>k1b. k \in CPUType
  BY <1>1, <1>k1a, Zenon DEF CPUType
<1>k1c. /\ k.current = cpu[c].current /\ k.prev = None /\ k.rq = cpu[c].rq
      /\ k.timers = cpu[c].timers /\ k.pc = "run" /\ k.wake = cpu[c].wake
  BY <1>k1a DEF CPUType
<1> HIDE DEF k
<1>k1d. /\ cpu' \in [CPUs -> CPUType]
      /\ \A d \in CPUs : cpu'[d] = IF d = c THEN k ELSE cpu[d]
  BY <1>1, <1>2, <1>k1b DEF Core, TypeOK
<1>3. cpu[c].pc = "clear" /\ cpu[c].prev = a /\ cpu[c].current = o
  BY DEF ClearPrevTaskOnCpu
<1> HIDE DEF a, o
<1>5. TypeOK'
  BY <1>2, <1>t1d, <1>k1d DEF Core, TypeOK
<1>6. /\ \A u \in AllTasks : /\ task'[u].saved = task[u].saved
                             /\ task'[u].on_cpu = IF u = a THEN FALSE ELSE task[u].on_cpu
      /\ \A d \in CPUs \ {c} : cpu'[d] = cpu[d]
      /\ cpu'[c].pc = "run" /\ cpu'[c].current = o
  BY <1>1, <1>3, <1>t1c, <1>t1d, <1>k1c, <1>k1d, Zenon
<1>4. Held(c) = {a, o} /\ \A d \in CPUs \ {c} : a \notin Held(d)
  <2>1. Held(c) = {a, o}
    BY <1>3 DEF Held
  <2> QED BY <2>1 DEF Core, CpusKept
<1>8. \A d \in CPUs : Held(d)' = Held(d) \ {a}
  <2>1. Held(c)' = {o}
    BY <1>6 DEF Held
  <2>2. \A d \in CPUs \ {c} : Held(d)' = Held(d)
    BY <1>6 DEF Held
  <2> QED BY <1>1, <1>4, <2>1, <2>2
<1>h. \A d \in CPUs : Held(d)' \subseteq Held(d)
  BY <1>8
<1>g. \A d \in CPUs, u \in AllTasks : /\ task'[u].on_cpu => task[u].on_cpu
                                      /\ u \in Held(d) /\ task'[u].on_cpu => u \in Held(d)'
  BY <1>6, <1>8, Zenon
<1>7. CpusKept'
  <2>1. \A d \in CPUs : cpu'[d].pc \in {"ctx", "clear"} => cpu'[d].prev \in AllTasks /\ cpu'[d].prev # cpu'[d].current
    BY <1>1, <1>6 DEF Core, CpusKept
  <2>2. \A d, e \in CPUs : d # e => Held(d)' \cap Held(e)' = {}
    BY <1>h DEF Core, CpusKept
  <2>3. \A u \in AllTasks : task'[u].on_cpu <=> \E d \in CPUs : u \in Held(d)'
    <3>1. \A u \in AllTasks : task[u].on_cpu <=> \E d \in CPUs : u \in Held(d)
      BY DEF Core, CpusKept
    <3> QED BY <1>6, <1>8, <3>1, Zenon
  <2>4. task[a].saved
    BY <1>3 DEF Core, CpusKept
  <2>5. \A u \in AllTasks : ~task'[u].on_cpu => task'[u].saved
    BY <1>6, <2>4, Zenon DEF Core, CpusKept
  <2>6. \A d \in CPUs : /\ cpu[d].current \in AllTasks
                        /\ cpu[d].pc = "clear" => cpu[d].prev \in AllTasks
    BY DEF Core, CpusKept, TypeOK, CPUType
  <2>7. \A d \in CPUs : /\ cpu'[d].pc = "ctx" => task'[cpu'[d].current].saved
                        /\ cpu'[d].pc = "clear" => task'[cpu'[d].prev].saved
    <3>1. \A u \in AllTasks : task[u].saved => task'[u].saved
      BY <1>6, Zenon
    <3>2. \A d \in CPUs : /\ cpu[d].pc = "ctx" => task[cpu[d].current].saved
                          /\ cpu[d].pc = "clear" => task[cpu[d].prev].saved
      BY DEF Core, CpusKept
    <3> QED BY <1>6, <2>6, <3>1, <3>2
  <2> QED BY <2>1, <2>2, <2>3, <2>5, <2>7 DEF CpusKept
<1>m. \A d \in CPUs : Idle[d] \in AllTasks \ Tasks /\ Migrator[d] \in AllTasks \ Tasks
  BY SchedAssumption DEF AllTasks
<1>n. \A u \in AllTasks : /\ task'[u].state = task[u].state /\ task'[u].cpumask = task[u].cpumask
                          /\ task'[u].pc = task[u].pc /\ task'[u].moved = task[u].moved
  BY <1>t1c, <1>t1d, SMTT(40)
<1>o. OwnTasksKept'
  <2>1. \A d, e \in CPUs : d # e => Idle[d] \notin Held(e)' /\ Migrator[d] \notin Held(e)'
    BY <1>h, SMTT(40) DEF Core, OwnTasksKept
  <2>2. \A d \in CPUs : /\ task'[Idle[d]].pc = "run" /\ task'[Idle[d]].state \in {"Running", "Ready"}
                        /\ task'[Migrator[d]].pc = "migrate" /\ task'[Migrator[d]].state # "Blocked"
                        /\ task'[Idle[d]].cpumask = CPUs /\ task'[Migrator[d]].cpumask = CPUs
    BY <1>m, <1>n DEF Core, OwnTasksKept
  <2>3. \A u \in Tasks : task'[u].pc # "migrate"
    BY <1>n DEF Core, OwnTasksKept, AllTasks
  <2> QED BY <2>1, <2>2, <2>3 DEF OwnTasksKept
<1>r. RunningKept'
  <2>1. \A d \in CPUs : cpu'[d].current = cpu[d].current /\ (cpu'[d].pc \in OnWay <=> cpu[d].pc \in OnWay)
    BY <1>1, <1>3, <1>k1c, <1>k1d, SMTT(40) DEF OnWay
  <2>2. \A u \in Tasks : task'[u].pc = "new" => ~task'[u].on_cpu
    BY <1>1, <1>3, <1>t1c, <1>t1d, SMTT(30) DEF Core, RunningKept, AllTasks
  <2>3. \A u \in AllTasks : task'[u].state = "Running" <=>
            \E d \in CPUs : cpu'[d].current = u /\ cpu'[d].pc \in OnWay
    BY <1>n, <2>1 DEF Core, RunningKept
  <2>4. \A d \in CPUs : cpu'[d].pc \in OnWay => d \in task'[cpu'[d].current].cpumask
    <3>1. \A d \in CPUs : cpu[d].current \in AllTasks
      BY DEF Core, TypeOK, CPUType
    <3> QED BY <1>n, <2>1, <3>1 DEF Core, RunningKept
  <2> QED BY <1>n, <2>2, <2>3, <2>4 DEF Core, RunningKept, AllTasks
<1>p. PlacesKept' /\ \A d \in CPUs : Rq(d)' = Rq(d) /\ Wk(d)' = Wk(d) /\ Cr(d)' = Cr(d)
  <2>1. \A d \in CPUs : /\ cpu'[d].rq = cpu[d].rq /\ cpu'[d].wake = cpu[d].wake
                        /\ cpu'[d].pc = "spin" <=> cpu[d].pc = "spin"
    BY <1>1, <1>3, <1>k1c, <1>k1d, SMTT(30)
  <2> QED BY <1>m, <1>n, <2>1, PlacesFrame DEF Core, AllTasks
<1>q. HandedOver'
  <2> SUFFICES ASSUME NEW d \in CPUs, NEW u \in Rq(d)' \cup Cr(d)', task'[u].on_cpu
               PROVE  u \in Held(d)'
    BY DEF HandedOver
  <2>1. u \in Rq(d) \cup Cr(d) /\ u \in AllTasks
    BY <1>p, Zenon DEF Core, PlacesKept, AllTasks
  <2>2. task[u].on_cpu /\ (u \in Held(d) => u \in Held(d)')
    BY <1>g, <2>1
  <2> QED BY <2>1, <2>2 DEF Core, HandedOver
<1>w. WaitsKept => WaitsKept'
  <2>1. \A u \in Tasks : /\ task'[u].in_wait_queue = task[u].in_wait_queue
                         /\ task'[u].waitq = task[u].waitq /\ task'[u].pc = task[u].pc
                         /\ task'[u].state = task[u].state
    BY <1>t1c, <1>t1d DEF AllTasks
  <2>2. \A d \in CPUs : /\ cpu'[d].pc = "push" <=> cpu[d].pc = "push"
                        /\ cpu[d].pc = "push" => cpu'[d].current = cpu[d].current
    BY <1>1, <1>3, <1>k1c, <1>k1d
  <2> QED BY <1>2, <2>1, <2>2, WaitsFrame, SMTT(30)
<1>x. TimersKept => TimersKept'
  <2>1. \A u \in Tasks : /\ task'[u].timer_ticket = task[u].timer_ticket /\ task'[u].pc = task[u].pc
                         /\ task'[u].state = task[u].state
    BY <1>t1c, <1>t1d DEF AllTasks
  <2>2. \A d \in CPUs : cpu'[d].timers = cpu[d].timers
    BY <1>k1c, <1>k1d
  <2> QED BY <1>2, <2>1, <2>2, TimersFrame
<1> QED BY <1>5, <1>7, <1>o, <1>p, <1>q, <1>r, <1>w, <1>x DEF Core

\* migrate_entry of CPU c's migration task, to CPU x.
=============================================================================
