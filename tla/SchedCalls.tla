----------------------------- MODULE SchedCalls -----------------------------
(***************************************************************************)
(* The calls of the current task (yield, wait, sleep, exit, cancel_events) *)
(* keep the invariant of SchedInv.                                         *)
(***************************************************************************)
EXTENDS SchedInv, WellFoundedInduction

\* Every nonempty set of naturals has a least element.
LEMMA LeastNat ==
    ASSUME NEW S \in SUBSET Nat, S # {}
    PROVE  \E m \in S : \A n \in S : m <= n
<1> DEFINE Less == {ij \in Nat \X Nat : ij[1] < ij[2]}
<1>1. IsWellFoundedOn(Less, Nat)
  BY NatLessThanWellFounded DEF OpToRel
<1>2. PICK m \in S : \A n \in S : ~(<<n, m>> \in Less)
  BY <1>1, WFMin, Zenon
<1>3. \A n \in S : ~(n < m)
  BY <1>2, Zenon
<1> QED BY <1>3

\* What retain(|u| u != x) has made of the first i entries of q.
Retains(F, q, x) ==
    F = [i \in 0..Len(q) |-> IF i = 0 THEN <<>>
                             ELSE IF q[i] = x THEN F[i - 1] ELSE Append(F[i - 1], q[i])]

\* A retain over a finite queue ends: the sequence of what it keeps exists.
LEMMA RetainsExists ==
    ASSUME NEW S, NEW q \in Seq(S), NEW x
    PROVE  \E F : Retains(F, q, x)
<1> DEFINE Upto(F, n) == F = [i \in 0..n |-> IF i = 0 THEN <<>>
                                             ELSE IF q[i] = x THEN F[i - 1] ELSE Append(F[i - 1], q[i])]
           Bad == {n \in Nat : ~\E F : Upto(F, n)}
<1>1. Bad = {}
  <2> SUFFICES ASSUME Bad # {} PROVE FALSE
    OBVIOUS
  <2>1. PICK m \in Bad : \A n \in Bad : m <= n
    BY LeastNat, Zenon
  <2>2. m \in Nat /\ ~\E F : Upto(F, m)
    BY <2>1, Zenon
  <2>3. m # 0
    <3>1. Upto([i \in 0..0 |-> <<>>], 0)
      OBVIOUS
    <3> QED BY <2>2, <3>1, Zenon
  <2>4. m - 1 \in Nat /\ m - 1 \notin Bad
    <3>1. m - 1 \in Nat /\ ~(m <= m - 1)
      BY <2>2, <2>3
    <3> HIDE DEF Bad
    <3> QED BY <2>1, <3>1
  <2>5. PICK G : Upto(G, m - 1)
    BY <2>4, Zenon
  <2> DEFINE e == IF q[m] = x THEN G[m - 1] ELSE Append(G[m - 1], q[m])
             H == [i \in 0..m |-> IF i = m THEN e ELSE G[i]]
  <2>6. \A i \in 0..(m - 1) : G[i] = IF i = 0 THEN <<>>
                                     ELSE IF q[i] = x THEN G[i - 1] ELSE Append(G[i - 1], q[i])
    BY <2>5, Zenon
  <2>7. \A i \in 0..m : H[i] = IF i = 0 THEN <<>>
                               ELSE IF q[i] = x THEN H[i - 1] ELSE Append(H[i - 1], q[i])
    <3> SUFFICES ASSUME NEW i \in 0..m
                 PROVE  H[i] = IF i = 0 THEN <<>>
                               ELSE IF q[i] = x THEN H[i - 1] ELSE Append(H[i - 1], q[i])
      BY Zenon
    <3>1. CASE i = m
      <4>1. H[i] = e /\ H[i - 1] = G[m - 1] /\ i # 0
        BY <2>2, <2>3, <3>1
      <4> QED BY <3>1, <4>1
    <3>2. CASE i # m /\ i # 0
      <4>1. i \in 0..(m - 1) /\ i - 1 \in 0..m /\ i - 1 # m
        BY <2>2, <3>2
      <4>2. H[i] = G[i] /\ H[i - 1] = G[i - 1]
        BY <3>2, <4>1
      <4> HIDE DEF H
      <4> QED BY <2>6, <3>2, <4>1, <4>2
    <3>3. CASE i # m /\ i = 0
      <4>1. 0 \in 0..(m - 1)
        BY <2>2, <2>3
      <4> QED BY <2>6, <3>3, <4>1
    <3> QED BY <3>1, <3>2, <3>3
  <2>8. H = [i \in 0..m |-> H[i]]
    OBVIOUS
  <2> HIDE DEF H
  <2>9. Upto(H, m)
    BY <2>7, <2>8, Zenon
  <2> QED BY <2>2, <2>9, SMTT(40)
<1>2. Len(q) \in Nat
  OBVIOUS
<1>3. \E F : Upto(F, Len(q))
  BY <1>1, <1>2
<1> QED BY <1>3, Zenon DEF Retains

\* retain takes x out and keeps the others, once each.
LEMMA RetainedQueue ==
    ASSUME NEW S, NEW q \in Seq(S), NEW x, NEW F, Retains(F, q, x)
    PROVE  /\ F[Len(q)] \in Seq(S) /\ Members(F[Len(q)]) = Members(q) \ {x}
           /\ Distinct(q) => Distinct(F[Len(q)])
<1> DEFINE Upto(n) == {q[k] : k \in 1..n} \ {x}
           Good(n) == /\ F[n] \in Seq(S) /\ Members(F[n]) = Upto(n)
                      /\ Distinct(q) => Distinct(F[n])
           Bad == {n \in 0..Len(q) : ~Good(n)}
<1>0. \A i \in 0..Len(q) : F[i] = IF i = 0 THEN <<>>
                                  ELSE IF q[i] = x THEN F[i - 1] ELSE Append(F[i - 1], q[i])
  BY Zenon DEF Retains
<1>1. Bad = {}
  <2> SUFFICES ASSUME Bad # {} PROVE FALSE
    BY Zenon
  <2>1. PICK m \in Bad : \A n \in Bad : m <= n
    <3>1. Bad \in SUBSET Nat
      OBVIOUS
    <3> HIDE DEF Bad
    <3> QED BY <3>1, LeastNat
  <2>2. m \in 0..Len(q) /\ ~Good(m)
    BY <2>1
  <2>3. m # 0
    <3>1. F[0] = <<>> /\ Upto(0) = {}
      BY <1>0
    <3>2. Good(0)
      BY <3>1, EmptyQueue
    <3> QED BY <2>2, <3>2
  <2>4. m - 1 \in 0..Len(q) /\ m - 1 < m /\ m \in 1..Len(q)
    BY <2>2, <2>3
  <2>5. Good(m - 1)
    <3>1. ~(m <= m - 1)
      BY <2>4
    <3>2. m - 1 \notin Bad
      <4> HIDE DEF Bad
      <4> QED BY <2>1, <3>1
    <3> HIDE DEF Good
    <3> QED BY <2>4, <3>2
  <2>6. Upto(m) = (Upto(m - 1) \cup {q[m]}) \ {x}
    <3>1. 1..m = 1..(m - 1) \cup {m}
      BY <2>4
    <3> QED BY <3>1
  <2>7. CASE q[m] = x
    <3>1. F[m] = F[m - 1] /\ Upto(m) = Upto(m - 1)
      BY <1>0, <2>4, <2>6, <2>7
    <3> QED BY <2>2, <2>5, <3>1, Zenon
  <2>8. CASE q[m] # x
    <3> DEFINE p == F[m - 1]
    <3>1. F[m] = Append(p, q[m]) /\ Upto(m) = Upto(m - 1) \cup {q[m]}
      <4>1. m \in 0..Len(q) /\ m # 0
        BY <2>4
      <4>2. F[m] = Append(p, q[m])
        BY <1>0, <2>8, <4>1, Zenon
      <4> QED BY <2>6, <2>8, <4>2, Zenon
    <3>2. p \in Seq(S) /\ Members(p) = Upto(m - 1) /\ q[m] \in S /\ (Distinct(q) => Distinct(p))
      BY <2>4, <2>5
    <3>3. Distinct(q) => q[m] \notin Members(p)
      BY <2>4, <3>2 DEF Distinct
    <3> HIDE DEF p
    <3>4. /\ F[m] \in Seq(S) /\ Members(F[m]) = Members(p) \cup {q[m]}
          /\ Distinct(q) => Distinct(F[m])
      BY <3>1, <3>2, <3>3, PushedQueue, SMTT(30)
    <3> QED BY <2>2, <3>1, <3>2, <3>4, Zenon
  <2> QED BY <2>7, <2>8
<1>2. Good(Len(q))
  BY <1>1
<1>3. Upto(Len(q)) = Members(q) \ {x}
  BY DEF Members
<1> QED BY <1>2, <1>3

\* What cancel_events leaves of a wait queue: the others, each still once.
LEMMA WithoutQueue ==
    ASSUME NEW S, NEW q \in Seq(S), NEW x
    PROVE  /\ Without(q, x) \in Seq(S) /\ Members(Without(q, x)) = Members(q) \ {x}
           /\ Distinct(q) => Distinct(Without(q, x))
<1> DEFINE F == CHOOSE G : Retains(G, q, x)
<1>1. Retains(F, q, x)
  BY RetainsExists
<1>2. Without(q, x) = F[Len(q)]
  BY DEF Without, Retains
<1> HIDE DEF F
<1> QED BY <1>1, <1>2, RetainedQueue

\* yield_current queues the task that runs.
LEMMA YieldKeeps ==
    ASSUME Core, NEW c \in CPUs, YieldCurrent(c)
    PROVE  Core' /\ (WaitsKept /\ TimersKept => WaitsKept' /\ TimersKept')
<1> DEFINE t == cpu[c].current
           q == IF t = Idle[c] THEN cpu[c].rq ELSE Append(cpu[c].rq, t)
           r == [task[t] EXCEPT !.state = "Ready"]
           k == [cpu[c] EXCEPT !.pc = "pick", !.rq = q]
<1>1. t \in AllTasks /\ c \in CPUs /\ q \in Seq(AllTasks)
  BY DEF Core, TypeOK, CPUType
<1>2. /\ task' = [task EXCEPT ![t] = r]
      /\ cpu' = [cpu EXCEPT ![c] = k]
      /\ UNCHANGED <<wq, wq_lock, next_ticket>>
  BY Zenon DEF YieldCurrent
<1> HIDE DEF q
<1>t1a. task[t] \in TaskType
  BY <1>1 DEF Core, TypeOK
<1>t1b. r \in TaskType
  BY <1>1, <1>t1a, Zenon DEF TaskType
<1>t1c. /\ r.state = "Ready" /\ r.on_cpu = task[t].on_cpu /\ r.in_wait_queue = task[t].in_wait_queue
      /\ r.cpumask = task[t].cpumask /\ r.timer_ticket = task[t].timer_ticket /\ r.saved = task[t].saved
      /\ r.waitq = task[t].waitq /\ r.timeout = task[t].timeout /\ r.pc = task[t].pc
      /\ r.moved = task[t].moved
  BY <1>t1a DEF TaskType
<1> HIDE DEF r
<1>t1d. /\ task' \in [AllTasks -> TaskType]
      /\ \A u \in AllTasks : task'[u] = IF u = t THEN r ELSE task[u]
  BY <1>1, <1>2, <1>t1b DEF Core, TypeOK
<1>k1a. cpu[c] \in CPUType
  BY <1>1 DEF Core, TypeOK
<1>k1b. k \in CPUType
  BY <1>1, <1>k1a, Zenon DEF CPUType
<1>k1c. /\ k.current = cpu[c].current /\ k.prev = cpu[c].prev /\ k.rq = q
      /\ k.timers = cpu[c].timers /\ k.pc = "pick" /\ k.wake = cpu[c].wake
  BY <1>k1a DEF CPUType
<1> HIDE DEF k
<1>k1d. /\ cpu' \in [CPUs -> CPUType]
      /\ \A d \in CPUs : cpu'[d] = IF d = c THEN k ELSE cpu[d]
  BY <1>1, <1>2, <1>k1b DEF Core, TypeOK
<1>3. cpu[c].current = t /\ cpu[c].pc = "run" /\ task[t].pc = "run" /\ "run" \in OnWay
  BY DEF YieldCurrent, Executes, OnWay
<1>4. /\ task[t].state = "Running" /\ c \in task[t].cpumask /\ t \in Held(c)
      /\ \A d \in CPUs : t \notin Rq(d) \cup Wk(d) \cup Cr(d) /\ (d # c => cpu[d].current # t)
  BY <1>3, CurrentFree
<1>5. t \in Tasks \/ t = Idle[c]
  BY <1>1, <1>3, <1>4 DEF Core, OwnTasksKept, AllTasks
<1>6. q = IF t = Idle[c] THEN cpu[c].rq ELSE Append(cpu[c].rq, t)
  BY DEF q
<1> HIDE DEF t
<1>7. TypeOK'
  BY <1>2, <1>t1d, <1>k1d DEF Core, TypeOK
<1>8. HwSame
  BY <1>3, <1>t1c, <1>t1d, <1>k1c, <1>k1d DEF HwSame
<1>9. CpusKept' /\ \A d \in CPUs : Held(d)' = Held(d)
  BY <1>8, HwFrame DEF Core
<1>10. \A d \in CPUs : /\ Idle[d] \in AllTasks \ Tasks /\ Migrator[d] \in AllTasks \ Tasks /\ Migrator[d] # t
  BY <1>5, SchedAssumption DEF AllTasks
<1>11. OwnTasksKept'
  <2>1. \A u \in AllTasks \ Tasks : task'[u].pc = task[u].pc /\ task'[u].cpumask = task[u].cpumask
    BY <1>t1c, <1>t1d
  <2>2. \A d \in CPUs : /\ task'[Idle[d]].state \in {"Running", "Ready"}
                        /\ task'[Migrator[d]].state # "Blocked"
    BY <1>10, <1>t1c, <1>t1d DEF Core, OwnTasksKept
  <2>3. \A u \in Tasks : task'[u].pc # "migrate"
    BY <1>t1c, <1>t1d DEF Core, OwnTasksKept, AllTasks
  <2> QED BY <2>1, <2>2, <2>3, <1>9, SchedAssumption, OwnFrame DEF Core
<1>12. RunningKept'
  <2>1. \A u \in AllTasks : task'[u].state = "Running" <=>
            \E d \in CPUs : cpu'[d].current = u /\ cpu'[d].pc \in OnWay
    BY <1>3, <1>4, <1>t1c, <1>t1d, <1>k1c, <1>k1d DEF Core, RunningKept, OnWay
  <2>2. \A d \in CPUs : cpu[d].current \in AllTasks
    BY DEF Core, TypeOK, CPUType
  <2>4. \A d \in CPUs : cpu'[d].pc \in OnWay => d \in task'[cpu'[d].current].cpumask
    BY <1>3, <1>4, <2>2, <1>t1c, <1>t1d, <1>k1c, <1>k1d, SMTT(40) DEF Core, RunningKept, OnWay
  <2>3. \A u \in Tasks : task'[u].pc = "new" => task'[u].state = "Ready" /\ ~task'[u].on_cpu
    BY <1>3, <1>t1c, <1>t1d DEF Core, RunningKept, AllTasks
  <2> QED BY <2>1, <2>3, <2>4 DEF RunningKept
<1>13. \A d \in CPUs : /\ task'[Migrator[d]].moved = task[Migrator[d]].moved
                       /\ task'[Migrator[d]].state = task[Migrator[d]].state
                       /\ cpu'[d].wake = cpu[d].wake /\ (cpu'[d].pc = "spin" <=> cpu[d].pc = "spin")
  BY <1>3, <1>10, <1>t1c, <1>t1d, <1>k1c, <1>k1d
<1>14. \A d \in CPUs : Wk(d)' = Wk(d) /\ Cr(d)' = Cr(d)
  BY <1>13 DEF Wk, Cr
<1>15. PlacesKept' /\ HandedOver'
  <2>1. CASE t = Idle[c]
    <3>1. \A d \in CPUs : cpu'[d].rq = cpu[d].rq
      BY <1>6, <2>1, <1>k1c, <1>k1d
    <3>2. \A u \in Tasks : task'[u] = task[u]
      BY <2>1, <1>10, <1>t1c, <1>t1d DEF AllTasks
    <3>3. PlacesKept' /\ \A d \in CPUs : Rq(d)' = Rq(d)
      BY <1>13, <3>1, <3>2, PlacesFrame DEF Core
    <3> QED BY <1>8, <1>9, <1>14, <3>3, HandedFrame DEF Core
  <2>2. CASE t # Idle[c]
    <3>1. t \in Tasks
      BY <1>5, <2>2
    <3>2. \A d \in CPUs : cpu'[d].rq = IF d = c THEN Append(cpu[d].rq, t) ELSE cpu[d].rq
      BY <1>6, <2>2, <1>k1c, <1>k1d, Zenon
    <3>3. PlacesKept' /\ \A d \in CPUs : Rq(d)' = IF d = c THEN Rq(d) \cup {t} ELSE Rq(d)
      <4>1. \A d \in CPUs : t \notin Rq(d) /\ t \notin Wk(d)' /\ t \notin Cr(d)'
        BY <1>4, <1>14
      <4>2. \A d \in CPUs : Wk(d)' = Wk(d) \ {t} /\ Cr(d)' = Cr(d) \ {t}
        BY <1>4, <1>14
      <4>3. \A d \in CPUs : cpu'[d].pc = "spin" <=> cpu'[d].wake.task # None
        BY <1>13 DEF Core, PlacesKept
      <4>4. \A u \in Tasks \ {t} : /\ task'[u].state = "Ready" <=> task[u].state = "Ready"
                                   /\ task'[u].pc = "new" <=> task[u].pc = "new"
                                   /\ task'[u].cpumask = task[u].cpumask
        BY <1>t1c, <1>t1d DEF AllTasks
      <4>5. task'[t].state = "Ready" /\ task'[t].pc # "new" /\ c \in task'[t].cpumask
        BY <1>1, <1>3, <1>4, <1>t1c, <1>t1d, SMTT(40)
      <4>6. MigratorsCarry'
        BY <1>13, SameMigrators DEF Core, PlacesKept
      <4> QED BY <3>1, <3>2, <4>1, <4>2, <4>3, <4>4, <4>5, <4>6, <1>13, EnqueueKeeps, SMTT(40) DEF Core
    <3>4. \A d \in CPUs : t \in Rq(d)' => d = c
      BY <1>4, <3>3
    <3> QED BY <1>1, <1>4, <1>8, <1>9, <1>14, <3>3, <3>4, HandedEnqueue DEF Core
  <2> QED BY <2>1, <2>2
<1>16. WaitsKept => WaitsKept'
  <2>1. \A u \in Tasks : /\ task'[u].in_wait_queue = task[u].in_wait_queue
                         /\ task'[u].waitq = task[u].waitq
                         /\ task'[u].state = "Blocked" => task[u].state = "Blocked" /\ task'[u].pc = task[u].pc
                         /\ task[u].pc \in {"waited", "waited_to", "cancel_to"} => task'[u].pc = task[u].pc
                         /\ task'[u].pc \in {"waited", "waited_to", "cancel_to"} => task'[u].pc = task[u].pc
    BY <1>3, <1>t1c, <1>t1d DEF AllTasks
  <2>2. \A d \in CPUs : /\ cpu'[d].pc = "push" <=> cpu[d].pc = "push"
                        /\ cpu[d].pc = "push" => cpu'[d].current = cpu[d].current
    BY <1>3, <1>k1c, <1>k1d
  <2> QED BY <1>2, <2>1, <2>2, WaitsFrame
<1>17. TimersKept => TimersKept'
  <2>1. \A u \in Tasks : /\ task'[u].timer_ticket = task[u].timer_ticket
                         /\ task[u].pc \in {"waited_to", "cancel_to", "slept"} =>
                                task'[u].pc \in {"waited_to", "cancel_to", "slept"}
                         /\ task'[u].pc = "slept" => /\ task[u].pc = "slept"
                                                     /\ task'[u].state = "Blocked" <=> task[u].state = "Blocked"
    BY <1>3, <1>t1c, <1>t1d DEF AllTasks
  <2>2. \A d \in CPUs : cpu'[d].timers = cpu[d].timers
    BY <1>k1c, <1>k1d
  <2> QED BY <1>2, <2>1, <2>2, TimersFrame
<1> QED BY <1>7, <1>9, <1>11, <1>12, <1>15, <1>16, <1>17 DEF Core

\* exit_current.
LEMMA ExitKeeps ==
    ASSUME Core, NEW c \in CPUs, ExitCurrent(c)
    PROVE  Core' /\ (WaitsKept /\ TimersKept => WaitsKept' /\ TimersKept')
<1> DEFINE t == cpu[c].current
           r == [task[t] EXCEPT !.state = "Exited"]
           k == [cpu[c] EXCEPT !.pc = "pick"]
<1>1. t \in AllTasks /\ c \in CPUs
  BY DEF Core, TypeOK, CPUType
<1>2. /\ task' = [task EXCEPT ![t] = r]
      /\ cpu' = [cpu EXCEPT ![c] = k]
      /\ UNCHANGED <<wq, wq_lock, next_ticket>>
  BY DEF ExitCurrent
<1>t1a. task[t] \in TaskType
  BY <1>1 DEF Core, TypeOK
<1>t1b. r \in TaskType
  BY <1>1, <1>t1a DEF TaskType
<1>t1c. /\ r.state = "Exited" /\ r.on_cpu = task[t].on_cpu /\ r.in_wait_queue = task[t].in_wait_queue
      /\ r.cpumask = task[t].cpumask /\ r.timer_ticket = task[t].timer_ticket /\ r.saved = task[t].saved
      /\ r.waitq = task[t].waitq /\ r.timeout = task[t].timeout /\ r.pc = task[t].pc
      /\ r.moved = task[t].moved
  BY <1>t1a DEF TaskType
<1> HIDE DEF r
<1>t1d. /\ task' \in [AllTasks -> TaskType]
      /\ \A u \in AllTasks : task'[u] = IF u = t THEN r ELSE task[u]
  BY <1>1, <1>2, <1>t1b DEF Core, TypeOK
<1>k1a. cpu[c] \in CPUType
  BY <1>1 DEF Core, TypeOK
<1>k1b. k \in CPUType
  BY <1>1, <1>k1a DEF CPUType
<1>k1c. /\ k.current = cpu[c].current /\ k.prev = cpu[c].prev /\ k.rq = cpu[c].rq
      /\ k.timers = cpu[c].timers /\ k.pc = "pick" /\ k.wake = cpu[c].wake
  BY <1>k1a DEF CPUType
<1> HIDE DEF k
<1>k1d. /\ cpu' \in [CPUs -> CPUType]
      /\ \A d \in CPUs : cpu'[d] = IF d = c THEN k ELSE cpu[d]
  BY <1>1, <1>2, <1>k1b DEF Core, TypeOK
<1>3. cpu[c].current = t /\ cpu[c].pc = "run" /\ task[t].pc = "run" /\ t \in Tasks
  BY DEF ExitCurrent, Runs, Executes
<1> HIDE DEF t
<1>4. TypeOK'
  BY <1>2, <1>t1d, <1>k1d DEF Core, TypeOK
<1>5. /\ \A u \in AllTasks \ {t} : TaskSame(u)
      /\ \A d \in CPUs \ {c} : CpuSame(d)
  <2>1. \A u \in AllTasks \ {t} : TaskSame(u)
    BY <1>t1d, OwnPcs DEF TaskSame
  <2>2. \A d \in CPUs \ {c} : CpuSame(d)
    BY <1>k1d DEF CpuSame
  <2> QED BY <2>1, <2>2
<1>6. Core'
  <2>1. /\ task'[t].state = "Exited" /\ task'[t].pc = "run" /\ task'[t].on_cpu = task[t].on_cpu
        /\ task'[t].saved = task[t].saved /\ task'[t].cpumask = task[t].cpumask
        /\ cpu'[c].pc = "pick" /\ cpu'[c].current = cpu[c].current /\ cpu'[c].prev = cpu[c].prev
        /\ cpu'[c].rq = cpu[c].rq /\ cpu'[c].wake = cpu[c].wake
    BY <1>1, <1>3, <1>t1c, <1>t1d, <1>k1c, <1>k1d, SMTT(30)
  <2> QED BY <1>3, <1>4, <1>5, <2>1, LeaveKeeps, Zenon
<1>7. WaitsKept => WaitsKept'
  <2>1. \A u \in Tasks : /\ task'[u].in_wait_queue = task[u].in_wait_queue
                         /\ task'[u].waitq = task[u].waitq
                         /\ task'[u].state = "Blocked" => task[u].state = "Blocked" /\ task'[u].pc = task[u].pc
                         /\ task[u].pc \in {"waited", "waited_to", "cancel_to"} => task'[u].pc = task[u].pc
                         /\ task'[u].pc \in {"waited", "waited_to", "cancel_to"} => task'[u].pc = task[u].pc
    BY <1>3, <1>t1c, <1>t1d DEF AllTasks
  <2>2. \A d \in CPUs : /\ cpu'[d].pc = "push" <=> cpu[d].pc = "push"
                        /\ cpu[d].pc = "push" => cpu'[d].current = cpu[d].current
    BY <1>3, <1>k1c, <1>k1d
  <2> QED BY <1>2, <2>1, <2>2, WaitsFrame
<1>8. TimersKept => TimersKept'
  <2>1. \A u \in Tasks : /\ task'[u].timer_ticket = task[u].timer_ticket
                         /\ task[u].pc \in {"waited_to", "cancel_to", "slept"} =>
                                task'[u].pc \in {"waited_to", "cancel_to", "slept"}
                         /\ task'[u].pc = "slept" => /\ task[u].pc = "slept"
                                                     /\ task'[u].state = "Blocked" <=> task[u].state = "Blocked"
    BY <1>3, <1>t1c, <1>t1d DEF AllTasks
  <2>2. \A d \in CPUs : cpu'[d].timers = cpu[d].timers
    BY <1>k1c, <1>k1d
  <2> QED BY <1>2, <2>1, <2>2, TimersFrame
<1> QED BY <1>6, <1>7, <1>8

\* wait and wait_timeout.
LEMMA WaitKeeps ==
    ASSUME Core, NEW c \in CPUs, NEW q \in Queues, NEW timed \in BOOLEAN, Wait(c, q, timed)
    PROVE  Core' /\ (WaitsKept /\ TimersKept => WaitsKept' /\ TimersKept')
<1> DEFINE t == cpu[c].current
           n == IF timed THEN next_ticket ELSE task[t].timer_ticket
           p == IF timed THEN "waited_to" ELSE "waited"
           v == IF timed THEN cpu[c].timers \cup {<<t, next_ticket>>} ELSE cpu[c].timers
           r == [task[t] EXCEPT !.state = "Blocked", !.waitq = q, !.pc = p, !.timer_ticket = n]
           k == [cpu[c] EXCEPT !.pc = "push", !.timers = v]
<1>1. /\ t \in AllTasks /\ c \in CPUs /\ n \in 0..MaxTicket /\ p \in {"waited", "waited_to"}
      /\ v \in SUBSET (AllTasks \X (1..MaxTicket))
  <2>1. t \in AllTasks /\ task[t] \in TaskType /\ cpu[c] \in CPUType
    BY DEF Core, TypeOK, CPUType
  <2>2. timed => next_ticket \in 1..MaxTicket
    BY SchedAssumption DEF Wait, Core, TypeOK
  <2>3. n \in 0..MaxTicket
    BY <2>1, <2>2, SchedAssumption DEF TaskType
  <2>4. v \in SUBSET (AllTasks \X (1..MaxTicket))
    BY <2>1, <2>2, SMTT(30) DEF CPUType
  <2> QED BY <2>1, <2>3, <2>4
<1>2. /\ task' = [task EXCEPT ![t] = r]
      /\ cpu' = [cpu EXCEPT ![c] = k]
      /\ wq' = wq /\ wq_lock' = [wq_lock EXCEPT ![q] = c]
      /\ next_ticket' = IF timed THEN next_ticket + 1 ELSE next_ticket
  BY Zenon DEF Wait
<1> HIDE DEF n, p, v
<1>t1a. task[t] \in TaskType
  BY <1>1 DEF Core, TypeOK
<1>t1b. r \in TaskType
  BY <1>1, <1>t1a, Zenon DEF TaskType
<1>t1c. /\ r.state = "Blocked" /\ r.on_cpu = task[t].on_cpu /\ r.in_wait_queue = task[t].in_wait_queue
      /\ r.cpumask = task[t].cpumask /\ r.timer_ticket = n /\ r.saved = task[t].saved
      /\ r.waitq = q /\ r.timeout = task[t].timeout /\ r.pc = p
      /\ r.moved = task[t].moved
  BY <1>t1a DEF TaskType
<1> HIDE DEF r
<1>t1d. /\ task' \in [AllTasks -> TaskType]
      /\ \A u \in AllTasks : task'[u] = IF u = t THEN r ELSE task[u]
  BY <1>1, <1>2, <1>t1b DEF Core, TypeOK
<1>k1a. cpu[c] \in CPUType
  BY <1>1 DEF Core, TypeOK
<1>k1b. k \in CPUType
  BY <1>1, <1>k1a, Zenon DEF CPUType
<1>k1c. /\ k.current = cpu[c].current /\ k.prev = cpu[c].prev /\ k.rq = cpu[c].rq
      /\ k.timers = v /\ k.pc = "push" /\ k.wake = cpu[c].wake
  BY <1>k1a DEF CPUType
<1> HIDE DEF k
<1>k1d. /\ cpu' \in [CPUs -> CPUType]
      /\ \A d \in CPUs : cpu'[d] = IF d = c THEN k ELSE cpu[d]
  BY <1>1, <1>2, <1>k1b DEF Core, TypeOK
<1>3. /\ cpu[c].current = t /\ cpu[c].pc = "run" /\ task[t].pc = "run" /\ t \in Tasks
      /\ timed => next_ticket <= MaxTicket
      /\ n = IF timed THEN next_ticket ELSE task[t].timer_ticket
      /\ p = IF timed THEN "waited_to" ELSE "waited"
      /\ v = IF timed THEN cpu[c].timers \cup {<<t, next_ticket>>} ELSE cpu[c].timers
  BY DEF Wait, Runs, Executes, n, p, v
<1> HIDE DEF t
<1>4. TypeOK'
  <2>1. next_ticket' \in 1..(MaxTicket + 1)
    BY <1>2, <1>3, SchedAssumption DEF Core, TypeOK
  <2>2. wq_lock' \in [Queues -> CPUs \cup {None}]
    BY <1>2, SMTT(30) DEF Core, TypeOK
  <2> QED BY <1>2, <1>t1d, <1>k1d, <2>1, <2>2 DEF Core, TypeOK
<1>5. /\ \A u \in AllTasks \ {t} : TaskSame(u)
      /\ \A d \in CPUs \ {c} : CpuSame(d)
  <2>1. \A u \in AllTasks \ {t} : TaskSame(u)
    BY <1>t1d, OwnPcs DEF TaskSame
  <2>2. \A d \in CPUs \ {c} : CpuSame(d)
    BY <1>k1d DEF CpuSame
  <2> QED BY <2>1, <2>2
<1>6. Core'
  <2>1. /\ task'[t].state = "Blocked" /\ task'[t].pc \in {"waited", "waited_to"} /\ task'[t].on_cpu = task[t].on_cpu
        /\ task'[t].saved = task[t].saved /\ task'[t].cpumask = task[t].cpumask
        /\ cpu'[c].pc = "push" /\ cpu'[c].current = cpu[c].current /\ cpu'[c].prev = cpu[c].prev
        /\ cpu'[c].rq = cpu[c].rq /\ cpu'[c].wake = cpu[c].wake
    BY <1>1, <1>3, <1>t1c, <1>t1d, <1>k1c, <1>k1d, SMTT(30)
  <2> QED BY <1>3, <1>4, <1>5, <2>1, LeaveKeeps, ZenonT(30)
<1>7. ASSUME WaitsKept PROVE WaitsKept'
  <2>0. t \in AllTasks /\ ~task[t].in_wait_queue
    BY <1>1, <1>3, <1>7, SMTT(30) DEF WaitsKept
  <2>1. /\ \A u \in Tasks \ {t} : task'[u] = task[u]
        /\ task'[t].in_wait_queue = task[t].in_wait_queue /\ task'[t].waitq = q /\ task'[t].pc = p
    BY <2>0, <1>t1c, <1>t1d, Zenon DEF AllTasks
  <2>2. \A d \in CPUs : d # c => cpu'[d] = cpu[d] /\ cpu[d].current # t
    BY <1>3, CurrentsDiffer, <1>k1c, <1>k1d
  <2>3. cpu'[c].pc = "push" /\ cpu'[c].current = t
    BY <1>3, <1>k1c, <1>k1d
  <2>4. \A u \in Tasks : task'[u].state = "Blocked" /\ task'[u].pc # "slept" =>
            task'[u].in_wait_queue \/ \E d \in CPUs : cpu'[d].pc = "push" /\ cpu'[d].current = u
    <3> SUFFICES ASSUME NEW u \in Tasks, task'[u].state = "Blocked", task'[u].pc # "slept", ~task'[u].in_wait_queue
                 PROVE  \E d \in CPUs : cpu'[d].pc = "push" /\ cpu'[d].current = u
      OBVIOUS
    <3>1. CASE u = t
      BY <3>1, <2>3
    <3>2. CASE u # t
      <4>1. PICK d \in CPUs : cpu[d].pc = "push" /\ cpu[d].current = u
        BY <1>7, <2>1, <3>2 DEF WaitsKept
      <4>2. d # c
        BY <1>3, <4>1, SMTT(30)
      <4> QED BY <2>2, <4>1, <4>2
    <3> QED BY <3>1, <3>2
  <2>5. \A d \in CPUs : cpu'[d].pc = "push" =>
            /\ cpu'[d].current \in Tasks /\ ~task'[cpu'[d].current].in_wait_queue
            /\ task'[cpu'[d].current].pc \in {"waited", "waited_to"}
    <3> SUFFICES ASSUME NEW d \in CPUs, cpu'[d].pc = "push"
                 PROVE  /\ cpu'[d].current \in Tasks /\ ~task'[cpu'[d].current].in_wait_queue
                        /\ task'[cpu'[d].current].pc \in {"waited", "waited_to"}
      OBVIOUS
    <3>1. CASE d = c
      BY <1>3, <2>0, <2>1, <2>3, <3>1
    <3>2. CASE d # c
      <4>1. cpu'[d] = cpu[d] /\ cpu[d].current \in Tasks /\ cpu[d].current # t
        BY <1>7, <2>2, <3>2 DEF WaitsKept
      <4>2. task'[cpu[d].current] = task[cpu[d].current]
        BY <2>1, <4>1, SMTT(40)
      <4> QED BY <1>7, <4>1, <4>2 DEF WaitsKept
    <3> QED BY <3>1, <3>2
  <2>6. \A u \in Tasks, y \in Queues : u \in Members(wq'[y]) <=> task'[u].in_wait_queue /\ task'[u].waitq = y
    BY <1>2, <1>7, <2>0, <2>1, SMTT(30) DEF WaitsKept
  <2>7. \A y \in Queues : Members(wq'[y]) \subseteq Tasks /\ Distinct(wq'[y])
    BY <1>2, <1>7 DEF WaitsKept
  <2>8. \A u \in Tasks : /\ task'[u].in_wait_queue => task'[u].pc \in {"waited", "waited_to", "cancel_to"}
                         /\ task'[u].pc \in {"waited", "waited_to", "cancel_to"} => task'[u].waitq \in Queues
                         /\ task'[u].state = "Blocked" => task'[u].pc \in {"waited", "waited_to", "slept"}
    BY <1>1, <1>7, <2>0, <2>1, SMTT(30) DEF WaitsKept
  <2> QED BY <2>4, <2>5, <2>6, <2>7, <2>8, SMTT(30) DEF WaitsKept
<1>8. ASSUME TimersKept PROVE TimersKept'
  <2>1. /\ \A u \in Tasks \ {t} : task'[u] = task[u]
        /\ task'[t].timer_ticket = n /\ task'[t].pc = p
    BY <1>1, <1>t1c, <1>t1d DEF AllTasks
  <2>2. /\ \A d \in CPUs : d # c => cpu'[d].timers = cpu[d].timers
        /\ cpu'[c].timers = v
    BY <1>k1c, <1>k1d
  <2> QED BY <1>2, <1>3, <1>8, <2>1, <2>2, NewEventKeeps DEF Core
<1> QED BY <1>6, <1>7, <1>8

\* sleep_until.
LEMMA SleepKeeps ==
    ASSUME Core, NEW c \in CPUs, SleepUntil(c)
    PROVE  Core' /\ (WaitsKept /\ TimersKept => WaitsKept' /\ TimersKept')
<1> DEFINE t == cpu[c].current
           n == next_ticket
           v == cpu[c].timers \cup {<<t, next_ticket>>}
           r == [task[t] EXCEPT !.state = "Blocked", !.pc = "slept", !.timer_ticket = n]
           k == [cpu[c] EXCEPT !.pc = "pick", !.timers = v]
<1>1. /\ t \in AllTasks /\ c \in CPUs /\ n \in 0..MaxTicket
      /\ v \in SUBSET (AllTasks \X (1..MaxTicket))
  <2>1. t \in AllTasks /\ cpu[c] \in CPUType
    BY DEF Core, TypeOK, CPUType
  <2>2. next_ticket \in 1..MaxTicket
    BY SchedAssumption DEF SleepUntil, Core, TypeOK
  <2>3. n \in 0..MaxTicket
    BY <2>2
  <2>4. v \in SUBSET (AllTasks \X (1..MaxTicket))
    BY <2>1, <2>2 DEF CPUType
  <2> QED BY <2>1, <2>3, <2>4
<1>2. /\ task' = [task EXCEPT ![t] = r]
      /\ cpu' = [cpu EXCEPT ![c] = k]
      /\ wq' = wq /\ wq_lock' = wq_lock /\ next_ticket' = next_ticket + 1
  BY Zenon DEF SleepUntil
<1> HIDE DEF n, v
<1>t1a. task[t] \in TaskType
  BY <1>1 DEF Core, TypeOK
<1>t1b. r \in TaskType
  BY <1>1, <1>t1a, Zenon DEF TaskType
<1>t1c. /\ r.state = "Blocked" /\ r.on_cpu = task[t].on_cpu /\ r.in_wait_queue = task[t].in_wait_queue
      /\ r.cpumask = task[t].cpumask /\ r.timer_ticket = n /\ r.saved = task[t].saved
      /\ r.waitq = task[t].waitq /\ r.timeout = task[t].timeout /\ r.pc = "slept"
      /\ r.moved = task[t].moved
  BY <1>t1a DEF TaskType
<1> HIDE DEF r
<1>t1d. /\ task' \in [AllTasks -> TaskType]
      /\ \A u \in AllTasks : task'[u] = IF u = t THEN r ELSE task[u]
  BY <1>1, <1>2, <1>t1b DEF Core, TypeOK
<1>k1a. cpu[c] \in CPUType
  BY <1>1 DEF Core, TypeOK
<1>k1b. k \in CPUType
  BY <1>1, <1>k1a, Zenon DEF CPUType
<1>k1c. /\ k.current = cpu[c].current /\ k.prev = cpu[c].prev /\ k.rq = cpu[c].rq
      /\ k.timers = v /\ k.pc = "pick" /\ k.wake = cpu[c].wake
  BY <1>k1a DEF CPUType
<1> HIDE DEF k
<1>k1d. /\ cpu' \in [CPUs -> CPUType]
      /\ \A d \in CPUs : cpu'[d] = IF d = c THEN k ELSE cpu[d]
  BY <1>1, <1>2, <1>k1b DEF Core, TypeOK
<1>3. /\ cpu[c].current = t /\ cpu[c].pc = "run" /\ task[t].pc = "run" /\ t \in Tasks
      /\ next_ticket <= MaxTicket /\ n = next_ticket /\ v = cpu[c].timers \cup {<<t, next_ticket>>}
  BY DEF SleepUntil, Runs, Executes, n, v
<1> HIDE DEF t
<1>4. TypeOK'
  <2>1. next_ticket' \in 1..(MaxTicket + 1)
    BY <1>2, <1>3, SchedAssumption, SMTT(30) DEF Core, TypeOK
  <2> QED BY <1>2, <1>t1d, <1>k1d, <2>1 DEF Core, TypeOK
<1>5. /\ \A u \in AllTasks \ {t} : TaskSame(u)
      /\ \A d \in CPUs \ {c} : CpuSame(d)
  <2>1. \A u \in AllTasks \ {t} : TaskSame(u)
    BY <1>t1d, OwnPcs DEF TaskSame
  <2>2. \A d \in CPUs \ {c} : CpuSame(d)
    BY <1>k1d DEF CpuSame
  <2> QED BY <2>1, <2>2
<1>6. Core'
  <2>1. /\ task'[t].state = "Blocked" /\ task'[t].pc = "slept" /\ task'[t].on_cpu = task[t].on_cpu
        /\ task'[t].saved = task[t].saved /\ task'[t].cpumask = task[t].cpumask
        /\ cpu'[c].pc = "pick" /\ cpu'[c].current = cpu[c].current /\ cpu'[c].prev = cpu[c].prev
        /\ cpu'[c].rq = cpu[c].rq /\ cpu'[c].wake = cpu[c].wake
    BY <1>1, <1>3, <1>t1c, <1>t1d, <1>k1c, <1>k1d, SMTT(40)
  <2> QED BY <1>3, <1>4, <1>5, <2>1, LeaveKeeps
<1>7. ASSUME WaitsKept PROVE WaitsKept'
  <2>1. /\ \A u \in Tasks \ {t} : task'[u] = task[u]
        /\ task'[t].in_wait_queue = task[t].in_wait_queue /\ task'[t].waitq = task[t].waitq /\ task'[t].pc = "slept"
    BY <1>1, <1>t1c, <1>t1d DEF AllTasks
  <2>2. ~task[t].in_wait_queue
    BY <1>3, <1>7 DEF WaitsKept
  <2>3. \A d \in CPUs : d # c => cpu'[d] = cpu[d] /\ cpu[d].current # t
    BY <1>3, CurrentsDiffer, <1>k1c, <1>k1d
  <2>4. cpu'[c].pc = "pick"
    BY <1>k1c, <1>k1d
  <2>5. \A u \in Tasks : task'[u].state = "Blocked" /\ task'[u].pc # "slept" =>
            task'[u].in_wait_queue \/ \E d \in CPUs : cpu'[d].pc = "push" /\ cpu'[d].current = u
    <3> SUFFICES ASSUME NEW u \in Tasks, task'[u].state = "Blocked", task'[u].pc # "slept", ~task'[u].in_wait_queue
                 PROVE  \E d \in CPUs : cpu'[d].pc = "push" /\ cpu'[d].current = u
      OBVIOUS
    <3>1. u # t
      BY <2>1
    <3>2. PICK d \in CPUs : cpu[d].pc = "push" /\ cpu[d].current = u
      BY <1>7, <2>1, <3>1 DEF WaitsKept
    <3>3. d # c
      BY <1>3, <3>2, SMTT(30)
    <3> QED BY <2>3, <3>2, <3>3
  <2>6. \A d \in CPUs : cpu'[d].pc = "push" =>
            /\ cpu'[d].current \in Tasks /\ ~task'[cpu'[d].current].in_wait_queue
            /\ task'[cpu'[d].current].pc \in {"waited", "waited_to"}
    BY <1>3, <1>7, <2>1, <2>3, <2>4, SMTT(30) DEF WaitsKept
  <2>7. \A u \in Tasks, y \in Queues : u \in Members(wq'[y]) <=> task'[u].in_wait_queue /\ task'[u].waitq = y
    BY <1>2, <1>7, <2>1, <2>2, SMTT(40) DEF WaitsKept
  <2>8. \A y \in Queues : Members(wq'[y]) \subseteq Tasks /\ Distinct(wq'[y])
    BY <1>2, <1>7 DEF WaitsKept
  <2>9. \A u \in Tasks : /\ task'[u].in_wait_queue => task'[u].pc \in {"waited", "waited_to", "cancel_to"}
                         /\ task'[u].pc \in {"waited", "waited_to", "cancel_to"} => task'[u].waitq \in Queues
                         /\ task'[u].state = "Blocked" => task'[u].pc \in {"waited", "waited_to", "slept"}
    BY <1>7, <2>1, <2>2, SMTT(30) DEF WaitsKept
  <2> QED BY <2>5, <2>6, <2>7, <2>8, <2>9 DEF WaitsKept
<1>8. ASSUME TimersKept PROVE TimersKept'
  <2>1. /\ \A u \in Tasks \ {t} : task'[u] = task[u]
        /\ task'[t].timer_ticket = n /\ task'[t].pc = "slept" /\ task'[t].state = "Blocked"
    BY <1>1, <1>t1c, <1>t1d DEF AllTasks
  <2>2. /\ \A d \in CPUs : d # c => cpu'[d].timers = cpu[d].timers
        /\ cpu'[c].timers = v
    BY <1>k1c, <1>k1d
  <2> DEFINE timed == TRUE
  <2>3. timed \in BOOLEAN /\ timed
    OBVIOUS
  <2> HIDE DEF timed
  <2>4. /\ cpu'[c].timers = IF timed THEN cpu[c].timers \cup {<<t, next_ticket>>} ELSE cpu[c].timers
        /\ task'[t].timer_ticket = IF timed THEN next_ticket ELSE task[t].timer_ticket
        /\ next_ticket' = IF timed THEN next_ticket + 1 ELSE next_ticket
    BY <1>2, <1>3, <2>1, <2>2, <2>3
  <2>5. TypeOK
    BY DEF Core
  <2> QED BY <1>3, <1>8, <2>1, <2>2, <2>3, <2>4, <2>5, NewEventKeeps, ZenonT(30)
<1> QED BY <1>6, <1>7, <1>8

\* sleep_until returns.
LEMMA SleptKeeps ==
    ASSUME Core, NEW c \in CPUs, Slept(c)
    PROVE  Core' /\ (WaitsKept /\ TimersKept => WaitsKept' /\ TimersKept')
<1> DEFINE t == cpu[c].current
           r == [task[t] EXCEPT !.pc = "run"]
<1>1. t \in AllTasks /\ c \in CPUs
  BY DEF Core, TypeOK, CPUType
<1>2. /\ task' = [task EXCEPT ![t] = r]
      /\ UNCHANGED <<cpu, wq, wq_lock, next_ticket>>
  BY DEF Slept
<1>t1a. task[t] \in TaskType
  BY <1>1 DEF Core, TypeOK
<1>t1b. r \in TaskType
  BY <1>1, <1>t1a DEF TaskType
<1>t1c. /\ r.state = task[t].state /\ r.on_cpu = task[t].on_cpu /\ r.in_wait_queue = task[t].in_wait_queue
      /\ r.cpumask = task[t].cpumask /\ r.timer_ticket = task[t].timer_ticket /\ r.saved = task[t].saved
      /\ r.waitq = task[t].waitq /\ r.timeout = task[t].timeout /\ r.pc = "run"
      /\ r.moved = task[t].moved
  BY <1>t1a DEF TaskType
<1> HIDE DEF r
<1>t1d. /\ task' \in [AllTasks -> TaskType]
      /\ \A u \in AllTasks : task'[u] = IF u = t THEN r ELSE task[u]
  BY <1>1, <1>2, <1>t1b DEF Core, TypeOK
<1>3. cpu[c].current = t /\ cpu[c].pc = "run" /\ task[t].pc = "slept" /\ "run" \in OnWay
  BY SMTT(30) DEF Slept, Executes, OnWay
<1>4. t \in Tasks /\ task[t].state = "Running"
  BY <1>1, <1>3, CurrentFree, OwnPcs DEF AllTasks
<1> HIDE DEF t
<1>5. TypeOK'
  BY <1>2, <1>t1d, SMTT(30) DEF Core, TypeOK
<1>6. (\A u \in AllTasks : TaskSame(u)) /\ \A d \in CPUs : CpuSame(d)
  <2>1. \A u \in AllTasks : TaskSame(u)
    BY <1>2, <1>3, <1>4, <1>t1c, <1>t1d, OwnPcs DEF TaskSame
  <2>2. \A d \in CPUs : CpuSame(d)
    BY <1>2, <1>3, <1>4, SMTT(40) DEF CpuSame
  <2> QED BY <2>1, <2>2
<1>7. WaitsKept => WaitsKept'
  <2>1. \A u \in Tasks : /\ task'[u].in_wait_queue = task[u].in_wait_queue
                         /\ task'[u].waitq = task[u].waitq
                         /\ task'[u].state = "Blocked" => task[u].state = "Blocked" /\ task'[u].pc = task[u].pc
                         /\ task[u].pc \in {"waited", "waited_to", "cancel_to"} => task'[u].pc = task[u].pc
                         /\ task'[u].pc \in {"waited", "waited_to", "cancel_to"} => task'[u].pc = task[u].pc
    BY <1>3, <1>4, <1>t1c, <1>t1d DEF AllTasks
  <2>2. \A d \in CPUs : /\ cpu'[d].pc = "push" <=> cpu[d].pc = "push"
                        /\ cpu[d].pc = "push" => cpu'[d].current = cpu[d].current
    BY <1>2
  <2> QED BY <1>2, <2>1, <2>2, WaitsFrame, SMTT(40)
<1>8. ASSUME TimersKept PROVE TimersKept'
  <2>1. /\ \A u \in Tasks : task'[u].timer_ticket = task[u].timer_ticket /\ task'[u].state = task[u].state
        /\ \A u \in Tasks \ {t} : task'[u].pc = task[u].pc
        /\ task'[t].pc = "run"
    BY <1>1, <1>t1c, <1>t1d DEF AllTasks
  <2>2. \A d \in CPUs : <<t, task[t].timer_ticket>> \notin cpu[d].timers
    BY <1>3, <1>4, <1>8 DEF TimersKept
  <2>3. TimerWakesItsWait'
    BY <1>2, <1>8, <2>1, <2>2 DEF TimersKept, TimerWakesItsWait
  <2>4. \A u \in Tasks : task'[u].pc = "slept" =>
            (task'[u].state = "Blocked" <=> \E d \in CPUs : <<u, task'[u].timer_ticket>> \in cpu'[d].timers)
    BY <1>2, <1>8, <2>1, SMTT(30) DEF TimersKept
  <2>5. \A u \in Tasks : task'[u].timer_ticket < next_ticket'
    BY <1>2, <1>8, <2>1 DEF TimersKept
  <2> QED BY <1>2, <1>8, <2>3, <2>4, <2>5, Zenon DEF TimersKept
<1> QED BY <1>5, <1>6, <1>7, <1>8, CoreFrame

\* wait_timeout reads in_wait_queue.
LEMMA ReadTimeoutKeeps ==
    ASSUME Core, NEW c \in CPUs, ReadTimeout(c)
    PROVE  Core' /\ (WaitsKept /\ TimersKept => WaitsKept' /\ TimersKept')
<1> DEFINE t == cpu[c].current
           f == task[t].in_wait_queue
           r == [task[t] EXCEPT !.timeout = f, !.pc = "cancel_to"]
<1>1. t \in AllTasks /\ c \in CPUs /\ f \in BOOLEAN
  BY DEF Core, TypeOK, CPUType, TaskType
<1>2. /\ task' = [task EXCEPT ![t] = r]
      /\ UNCHANGED <<cpu, wq, wq_lock, next_ticket>>
  BY Zenon DEF ReadTimeout
<1> HIDE DEF f
<1>t1a. task[t] \in TaskType
  BY <1>1 DEF Core, TypeOK
<1>t1b. r \in TaskType
  BY <1>1, <1>t1a, Zenon DEF TaskType
<1>t1c. /\ r.state = task[t].state /\ r.on_cpu = task[t].on_cpu /\ r.in_wait_queue = task[t].in_wait_queue
      /\ r.cpumask = task[t].cpumask /\ r.timer_ticket = task[t].timer_ticket /\ r.saved = task[t].saved
      /\ r.waitq = task[t].waitq /\ r.timeout = f /\ r.pc = "cancel_to"
      /\ r.moved = task[t].moved
  BY <1>t1a DEF TaskType
<1> HIDE DEF r
<1>t1d. /\ task' \in [AllTasks -> TaskType]
      /\ \A u \in AllTasks : task'[u] = IF u = t THEN r ELSE task[u]
  BY <1>1, <1>2, <1>t1b DEF Core, TypeOK
<1>3. cpu[c].current = t /\ cpu[c].pc = "run" /\ task[t].pc = "waited_to" /\ "run" \in OnWay
  BY SMTT(30) DEF ReadTimeout, Executes, OnWay
<1>4. t \in Tasks /\ task[t].state = "Running"
  BY <1>1, <1>3, CurrentFree, OwnPcs, SMTT(40) DEF AllTasks
<1> HIDE DEF t
<1>5. TypeOK'
  BY <1>2, <1>t1d DEF Core, TypeOK
<1>6. (\A u \in AllTasks : TaskSame(u)) /\ \A d \in CPUs : CpuSame(d)
  <2>1. \A u \in AllTasks : TaskSame(u)
    BY <1>2, <1>3, <1>4, <1>t1c, <1>t1d, OwnPcs, SMTT(40) DEF TaskSame
  <2>2. \A d \in CPUs : CpuSame(d)
    BY <1>2, <1>3, <1>4, SMTT(40) DEF CpuSame
  <2> QED BY <2>1, <2>2
<1>7. ASSUME WaitsKept PROVE WaitsKept'
  <2>1. /\ \A u \in Tasks : /\ task'[u].in_wait_queue = task[u].in_wait_queue /\ task'[u].waitq = task[u].waitq
                            /\ task'[u].state = task[u].state
        /\ \A u \in Tasks \ {t} : task'[u].pc = task[u].pc
        /\ task'[t].pc = "cancel_to"
    BY <1>1, <1>t1c, <1>t1d DEF AllTasks
  <2>2. \A d \in CPUs : cpu[d].pc = "push" => cpu[d].current # t
    BY <1>3, CurrentsDiffer, SMTT(30)
  <2>3. \A u \in Tasks : task'[u].state = "Blocked" /\ task'[u].pc # "slept" =>
            task'[u].in_wait_queue \/ \E d \in CPUs : cpu'[d].pc = "push" /\ cpu'[d].current = u
    BY <1>2, <1>4, <1>7, <2>1, SMTT(30) DEF WaitsKept
  <2>4. \A d \in CPUs : cpu'[d].pc = "push" =>
            /\ cpu'[d].current \in Tasks /\ ~task'[cpu'[d].current].in_wait_queue
            /\ task'[cpu'[d].current].pc \in {"waited", "waited_to"}
    BY <1>2, <1>7, <2>1, <2>2, SMTT(30) DEF WaitsKept
  <2>5. \A u \in Tasks, y \in Queues : u \in Members(wq'[y]) <=> task'[u].in_wait_queue /\ task'[u].waitq = y
    BY <1>2, <1>7, <2>1 DEF WaitsKept
  <2>6. \A y \in Queues : Members(wq'[y]) \subseteq Tasks /\ Distinct(wq'[y])
    BY <1>2, <1>7, SMTT(30) DEF WaitsKept
  <2>7. \A u \in Tasks : /\ task'[u].in_wait_queue => task'[u].pc \in {"waited", "waited_to", "cancel_to"}
                         /\ task'[u].pc \in {"waited", "waited_to", "cancel_to"} => task'[u].waitq \in Queues
                         /\ task'[u].state = "Blocked" => task'[u].pc \in {"waited", "waited_to", "slept"}
    BY <1>3, <1>4, <1>7, <2>1 DEF WaitsKept
  <2> QED BY <2>3, <2>4, <2>5, <2>6, <2>7 DEF WaitsKept
<1>8. TimersKept => TimersKept'
  <2>1. \A u \in Tasks : /\ task'[u].timer_ticket = task[u].timer_ticket
                         /\ task[u].pc \in {"waited_to", "cancel_to", "slept"} =>
                                task'[u].pc \in {"waited_to", "cancel_to", "slept"}
                         /\ task'[u].pc = "slept" => /\ task[u].pc = "slept"
                                                     /\ task'[u].state = "Blocked" <=> task[u].state = "Blocked"
    BY <1>3, <1>t1c, <1>t1d DEF AllTasks
  <2>2. \A d \in CPUs : cpu'[d].timers = cpu[d].timers
    BY <1>2, SMTT(40)
  <2> QED BY <1>2, <2>1, <2>2, TimersFrame
<1> QED BY <1>5, <1>6, <1>7, <1>8, CoreFrame

\* blocked_resched.
LEMMA BlockedReschedKeeps ==
    ASSUME Core, NEW c \in CPUs, BlockedResched(c)
    PROVE  Core' /\ (WaitsKept /\ TimersKept => WaitsKept' /\ TimersKept')
<1> DEFINE t == cpu[c].current
           q == task[t].waitq
           r == [task[t] EXCEPT !.in_wait_queue = TRUE]
           k == [cpu[c] EXCEPT !.pc = "pick"]
<1>1. t \in AllTasks /\ c \in CPUs
  BY DEF Core, TypeOK, CPUType
<1>2. /\ task' = [task EXCEPT ![t] = r]
      /\ cpu' = [cpu EXCEPT ![c] = k]
      /\ wq' = [wq EXCEPT ![q] = Append(wq[q], t)] /\ wq_lock' = [wq_lock EXCEPT ![q] = None]
      /\ next_ticket' = next_ticket
  BY DEF BlockedResched
<1>t1a. task[t] \in TaskType
  BY <1>1 DEF Core, TypeOK
<1>t1b. r \in TaskType
  BY <1>1, <1>t1a, Zenon DEF TaskType
<1>t1c. /\ r.state = task[t].state /\ r.on_cpu = task[t].on_cpu /\ r.in_wait_queue = TRUE
      /\ r.cpumask = task[t].cpumask /\ r.timer_ticket = task[t].timer_ticket /\ r.saved = task[t].saved
      /\ r.waitq = task[t].waitq /\ r.timeout = task[t].timeout /\ r.pc = task[t].pc
      /\ r.moved = task[t].moved
  BY <1>t1a DEF TaskType
<1> HIDE DEF r
<1>t1d. /\ task' \in [AllTasks -> TaskType]
      /\ \A u \in AllTasks : task'[u] = IF u = t THEN r ELSE task[u]
  BY <1>1, <1>2, <1>t1b, SMTT(40) DEF Core, TypeOK
<1>k1a. cpu[c] \in CPUType
  BY <1>1 DEF Core, TypeOK
<1>k1b. k \in CPUType
  BY <1>1, <1>k1a DEF CPUType
<1>k1c. /\ k.current = cpu[c].current /\ k.prev = cpu[c].prev /\ k.rq = cpu[c].rq
      /\ k.timers = cpu[c].timers /\ k.pc = "pick" /\ k.wake = cpu[c].wake
  BY <1>k1a DEF CPUType
<1> HIDE DEF k
<1>k1d. /\ cpu' \in [CPUs -> CPUType]
      /\ \A d \in CPUs : cpu'[d] = IF d = c THEN k ELSE cpu[d]
  BY <1>1, <1>2, <1>k1b, SMTT(40) DEF Core, TypeOK
<1>3. cpu[c].current = t /\ cpu[c].pc = "push" /\ q = task[t].waitq
  BY DEF BlockedResched
<1> HIDE DEF t, q
<1>4. \A y \in Queues : wq[y] \in Seq(AllTasks) /\ Append(wq[y], t) \in Seq(AllTasks)
  BY <1>1 DEF Core, TypeOK
<1>5. TypeOK'
  <2>1. wq' \in [Queues -> Seq(AllTasks)]
    BY <1>2, <1>4, Zenon DEF Core, TypeOK
  <2>2. wq_lock' \in [Queues -> CPUs \cup {None}]
    BY <1>2, Zenon DEF Core, TypeOK
  <2> QED BY <1>2, <1>t1d, <1>k1d, <2>1, <2>2 DEF Core, TypeOK
<1>6. (\A u \in AllTasks : TaskSame(u)) /\ \A d \in CPUs : CpuSame(d)
  <2>1. \A u \in AllTasks : TaskSame(u)
    BY <1>2, <1>3, <1>t1c, <1>t1d, OwnPcs DEF TaskSame
  <2>2. \A d \in CPUs : CpuSame(d)
    BY <1>2, <1>3, <1>k1c, <1>k1d DEF CpuSame
  <2> QED BY <2>1, <2>2
<1>7. ASSUME WaitsKept PROVE WaitsKept'
  <2>1. /\ \A u \in Tasks \ {t} : task'[u] = task[u]
        /\ task'[t].pc = task[t].pc /\ task'[t].in_wait_queue = TRUE /\ task'[t].state = task[t].state
        /\ task'[t].waitq = task[t].waitq
    BY <1>1, <1>t1c, <1>t1d, Zenon DEF AllTasks
  <2>2. /\ t \in Tasks /\ ~task[t].in_wait_queue /\ task[t].pc \in {"waited", "waited_to"} /\ q \in Queues
    BY <1>3, <1>7 DEF WaitsKept
  <2>3. \A d \in CPUs : d # c => cpu'[d] = cpu[d] /\ cpu[d].current # t
    BY <1>3, CurrentsDiffer, <1>k1c, <1>k1d
  <2>4. cpu'[c].pc = "pick"
    BY <1>k1c, <1>k1d
  <2>5. \A u \in Tasks : task'[u].state = "Blocked" /\ task'[u].pc # "slept" =>
            task'[u].in_wait_queue \/ \E d \in CPUs : cpu'[d].pc = "push" /\ cpu'[d].current = u
    <3> SUFFICES ASSUME NEW u \in Tasks, task'[u].state = "Blocked", task'[u].pc # "slept", ~task'[u].in_wait_queue
                 PROVE  \E d \in CPUs : cpu'[d].pc = "push" /\ cpu'[d].current = u
      OBVIOUS
    <3>1. u # t
      BY <2>1
    <3>2. PICK d \in CPUs : cpu[d].pc = "push" /\ cpu[d].current = u
      BY <1>7, <2>1, <3>1 DEF WaitsKept
    <3>3. d # c
      BY <1>3, <3>1, <3>2, SMTT(30)
    <3> QED BY <2>3, <3>2, <3>3
  <2>6. \A d \in CPUs : cpu'[d].pc = "push" =>
            /\ cpu'[d].current \in Tasks /\ ~task'[cpu'[d].current].in_wait_queue
            /\ task'[cpu'[d].current].pc \in {"waited", "waited_to"}
    BY <1>7, <2>1, <2>3, <2>4 DEF WaitsKept
  <2>7. \A y \in Queues \ {q} : wq'[y] = wq[y]
    BY <1>2, SMTT(30) DEF Core, TypeOK
  <2>8. Members(wq'[q]) = Members(wq[q]) \cup {t} /\ Distinct(wq'[q])
    <3>1. wq'[q] = Append(wq[q], t)
      BY <1>2, <2>2, SMTT(30) DEF Core, TypeOK
    <3>2. Distinct(wq[q]) /\ t \notin Members(wq[q])
      BY <1>7, <2>2 DEF WaitsKept
    <3> QED BY <1>1, <1>4, <2>2, <3>1, <3>2, PushedQueue
  <2>9. \A y \in Queues : Members(wq'[y]) \subseteq Tasks /\ Distinct(wq'[y])
    BY <1>7, <2>2, <2>7, <2>8, SMTT(30) DEF WaitsKept
  <2>10. \A u \in Tasks, y \in Queues : u \in Members(wq'[y]) <=> task'[u].in_wait_queue /\ task'[u].waitq = y
    BY <1>3, <1>7, <2>1, <2>2, <2>7, <2>8, SMTT(30) DEF WaitsKept
  <2>11. \A u \in Tasks : /\ task'[u].in_wait_queue => task'[u].pc \in {"waited", "waited_to", "cancel_to"}
                          /\ task'[u].pc \in {"waited", "waited_to", "cancel_to"} => task'[u].waitq \in Queues
                          /\ task'[u].state = "Blocked" => task'[u].pc \in {"waited", "waited_to", "slept"}
    BY <1>3, <1>7, <2>1, <2>2, SMTT(30) DEF WaitsKept
  <2> QED BY <2>5, <2>6, <2>9, <2>10, <2>11, Zenon DEF WaitsKept
<1>8. TimersKept => TimersKept'
  <2>1. \A u \in Tasks : /\ task'[u].timer_ticket = task[u].timer_ticket
                         /\ task[u].pc \in {"waited_to", "cancel_to", "slept"} =>
                                task'[u].pc \in {"waited_to", "cancel_to", "slept"}
                         /\ task'[u].pc = "slept" => /\ task[u].pc = "slept"
                                                     /\ task'[u].state = "Blocked" <=> task[u].state = "Blocked"
    BY <1>3, <1>t1c, <1>t1d DEF AllTasks
  <2>2. \A d \in CPUs : cpu'[d].timers = cpu[d].timers
    BY <1>k1c, <1>k1d
  <2> QED BY <1>2, <2>1, <2>2, TimersFrame
<1> QED BY <1>5, <1>6, <1>7, <1>8, CoreFrame

\* cancel_events.
LEMMA CancelKeeps ==
    ASSUME Core, NEW c \in CPUs, CancelEvents(c)
    PROVE  Core' /\ (WaitsKept /\ TimersKept => WaitsKept' /\ TimersKept')
<1> DEFINE t == cpu[c].current
           q == task[t].waitq
           n == IF task[t].pc = "cancel_to" THEN 0 ELSE task[t].timer_ticket
           r == [task[t] EXCEPT !.in_wait_queue = FALSE, !.waitq = None, !.timeout = FALSE, !.pc = "run", !.timer_ticket = n]
<1>1. t \in AllTasks /\ c \in CPUs /\ n \in 0..MaxTicket
  <2>1. t \in AllTasks /\ task[t] \in TaskType
    BY DEF Core, TypeOK, CPUType
  <2> QED BY <2>1, SchedAssumption DEF TaskType
<1>2. /\ task' = [task EXCEPT ![t] = r]
      /\ wq' = IF task[t].in_wait_queue THEN [wq EXCEPT ![q] = Without(wq[q], t)] ELSE wq
      /\ UNCHANGED <<cpu, wq_lock, next_ticket>>
  BY Zenon DEF CancelEvents
<1> HIDE DEF n
<1>t1a. task[t] \in TaskType
  BY <1>1 DEF Core, TypeOK
<1>t1b. r \in TaskType
  BY <1>1, <1>t1a, Zenon DEF TaskType
<1>t1c. /\ r.state = task[t].state /\ r.on_cpu = task[t].on_cpu /\ r.in_wait_queue = FALSE
      /\ r.cpumask = task[t].cpumask /\ r.timer_ticket = n /\ r.saved = task[t].saved
      /\ r.waitq = None /\ r.timeout = FALSE /\ r.pc = "run"
      /\ r.moved = task[t].moved
  BY <1>t1a DEF TaskType
<1> HIDE DEF r
<1>t1d. /\ task' \in [AllTasks -> TaskType]
      /\ \A u \in AllTasks : task'[u] = IF u = t THEN r ELSE task[u]
  BY <1>1, <1>2, <1>t1b DEF Core, TypeOK
<1>3. /\ cpu[c].current = t /\ cpu[c].pc = "run" /\ task[t].pc \in {"waited", "cancel_to"} /\ "run" \in OnWay
      /\ n = IF task[t].pc = "cancel_to" THEN 0 ELSE task[t].timer_ticket
  BY Zenon DEF CancelEvents, Executes, OnWay, n
<1>4. t \in Tasks /\ task[t].state = "Running"
  BY <1>1, <1>3, CurrentFree, OwnPcs DEF AllTasks
<1>q. q = task[t].waitq
  OBVIOUS
<1> HIDE DEF t, q
<1>w. \A y \in Queues : /\ wq[y] \in Seq(AllTasks) /\ Without(wq[y], t) \in Seq(AllTasks)
                        /\ Members(Without(wq[y], t)) = Members(wq[y]) \ {t}
                        /\ Distinct(wq[y]) => Distinct(Without(wq[y], t))
  BY WithoutQueue DEF Core, TypeOK
<1>x. \A y \in Queues : wq'[y] = IF task[t].in_wait_queue /\ y = q THEN Without(wq[y], t) ELSE wq[y]
  BY <1>2 DEF Core, TypeOK
<1>5. TypeOK'
  <2>1. wq' \in [Queues -> Seq(AllTasks)]
    BY <1>2, <1>w, Zenon DEF Core, TypeOK
  <2> QED BY <1>2, <1>t1d, <2>1 DEF Core, TypeOK
<1>6. (\A u \in AllTasks : TaskSame(u)) /\ \A d \in CPUs : CpuSame(d)
  <2>1. \A u \in AllTasks : TaskSame(u)
    BY <1>2, <1>3, <1>4, <1>t1c, <1>t1d, OwnPcs DEF TaskSame
  <2>2. \A d \in CPUs : CpuSame(d)
    BY <1>2, <1>3, <1>4, SMTT(40) DEF CpuSame
  <2> QED BY <2>1, <2>2
<1>7. ASSUME WaitsKept PROVE WaitsKept'
  <2>1. /\ \A u \in Tasks \ {t} : task'[u] = task[u]
        /\ task'[t].pc = "run" /\ task'[t].in_wait_queue = FALSE /\ task'[t].state = task[t].state
    BY <1>1, <1>t1c, <1>t1d DEF AllTasks
  <2>2. \A d \in CPUs : cpu[d].pc = "push" => cpu[d].current # t
    BY <1>3, CurrentsDiffer, SMTT(40)
  <2>3. \A u \in Tasks : task'[u].state = "Blocked" /\ task'[u].pc # "slept" =>
            task'[u].in_wait_queue \/ \E d \in CPUs : cpu'[d].pc = "push" /\ cpu'[d].current = u
    BY <1>2, <1>4, <1>7, <2>1, SMTT(40) DEF WaitsKept
  <2>4. \A d \in CPUs : cpu'[d].pc = "push" =>
            /\ cpu'[d].current \in Tasks /\ ~task'[cpu'[d].current].in_wait_queue
            /\ task'[cpu'[d].current].pc \in {"waited", "waited_to"}
    BY <1>2, <1>7, <2>1, <2>2, SMTT(40) DEF WaitsKept
  <2>5. \A y \in Queues : /\ Members(wq'[y]) = Members(wq[y]) \ {t}
                          /\ Members(wq'[y]) \subseteq Tasks /\ Distinct(wq'[y])
    <3> SUFFICES ASSUME NEW y \in Queues
                 PROVE  /\ Members(wq'[y]) = Members(wq[y]) \ {t}
                        /\ Members(wq'[y]) \subseteq Tasks /\ Distinct(wq'[y])
      OBVIOUS
    <3>1. /\ Members(wq[y]) \subseteq Tasks /\ Distinct(wq[y])
          /\ t \in Members(wq[y]) <=> task[t].in_wait_queue /\ task[t].waitq = y
      BY <1>4, <1>7, SMTT(40) DEF WaitsKept
    <3>2. CASE task[t].in_wait_queue /\ y = q
      BY <1>w, <1>x, <3>1, <3>2, SMTT(30)
    <3>3. CASE ~(task[t].in_wait_queue /\ y = q)
      BY <1>q, <1>x, <3>1, <3>3
    <3> QED BY <3>2, <3>3
  <2>6. \A u \in Tasks, y \in Queues : u \in Members(wq'[y]) <=> task'[u].in_wait_queue /\ task'[u].waitq = y
    BY <1>7, <2>1, <2>5, SMTT(40) DEF WaitsKept
  <2>7. \A u \in Tasks : /\ task'[u].in_wait_queue => task'[u].pc \in {"waited", "waited_to", "cancel_to"}
                         /\ task'[u].pc \in {"waited", "waited_to", "cancel_to"} => task'[u].waitq \in Queues
                         /\ task'[u].state = "Blocked" => task'[u].pc \in {"waited", "waited_to", "slept"}
    BY <1>4, <1>7, <2>1, SMTT(40) DEF WaitsKept
  <2> QED BY <2>3, <2>4, <2>5, <2>6, <2>7, SMTT(40) DEF WaitsKept
<1>8. ASSUME TimersKept PROVE TimersKept'
  <2>1. /\ \A u \in Tasks \ {t} : task'[u] = task[u]
        /\ task'[t].pc = "run" /\ task'[t].timer_ticket = n
    BY <1>1, <1>t1c, <1>t1d DEF AllTasks
  <2>2. \A d \in CPUs : <<t, n>> \notin cpu[d].timers
    <3>1. CASE task[t].pc = "cancel_to"
      <4>1. \A d \in CPUs : cpu[d].timers \subseteq AllTasks \X (1..MaxTicket)
        BY DEF Core, TypeOK, CPUType
      <4>2. n = 0
        BY <1>3, <3>1
      <4>3. <<t, 0>> \notin AllTasks \X (1..MaxTicket)
        BY SchedAssumption
      <4> QED BY <4>1, <4>2, <4>3, Zenon
    <3>2. CASE task[t].pc # "cancel_to"
      BY <1>3, <1>4, <1>8, <3>2, SMTT(40) DEF TimersKept, TimerWakesItsWait
    <3> QED BY <3>1, <3>2, Zenon
  <2>3. TimerWakesItsWait'
    BY <1>2, <1>8, <2>1, <2>2, SMTT(40) DEF TimersKept, TimerWakesItsWait
  <2>4. \A u \in Tasks : task'[u].pc = "slept" =>
            (task'[u].state = "Blocked" <=> \E d \in CPUs : <<u, task'[u].timer_ticket>> \in cpu'[d].timers)
    BY <1>2, <1>8, <2>1, SMTT(40) DEF TimersKept
  <2>5. \A u \in Tasks : task'[u].timer_ticket < next_ticket'
    <3>1. next_ticket \in Nat /\ next_ticket > 0
      BY SchedAssumption DEF Core, TypeOK
    <3> QED BY <1>2, <1>3, <1>4, <1>8, <2>1, <3>1, SMTT(40) DEF TimersKept
  <2> QED BY <1>2, <1>8, <2>3, <2>4, <2>5 DEF TimersKept
<1> QED BY <1>5, <1>6, <1>7, <1>8, CoreFrame, SMTT(40)
-----------------------------------------------------------------------------
(* Migration and requeue.                                                  *)
=============================================================================
