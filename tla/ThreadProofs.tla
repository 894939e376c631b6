---------------------------- MODULE ThreadProofs ----------------------------
(***************************************************************************)
(* For any set of tasks: RawMutex excludes, its wait queue holds exactly   *)
(* the sleeping tasks, no wakeup is lost, and it implements AbstractLock.  *)
(*                                                                         *)
(* For any number of tasks, joiners and CPUs: no joiner is stranded, gc    *)
(* frees a task only when nobody can touch it any more, and an exited task *)
(* is freed or still listed.                                               *)
(***************************************************************************)
EXTENDS Mutex, TaskExit, FiniteSetTheorems, TLAPS

(* The mutex.                                                              *)

\* The spin lock of the wait queue is held exactly by the task that tests the
\* condition of wait_until.
SpinLockHeld == \A t \in MxTasks : mxPc[t] = "check" <=> wq_lock = t

\* The inductive invariant.  SleepersQueued is what makes the task woken by
\* notify_one one that sleeps, so that waking it disturbs no other position.
MxIInv ==
    /\ MxTypeOK
    /\ SpinLockHeld
    /\ MutualExclusion
    /\ SleepersQueued
    /\ NoLostWakeup

\* What Append does to the entries of a queue: they keep their places and the
\* new one is last.
LEMMA AppendEntries ==
    ASSUME NEW S, NEW s \in Seq(S), NEW e \in S
    PROVE  /\ Append(s, e) \in Seq(S)
           /\ Len(Append(s, e)) = Len(s) + 1
           /\ \A i \in 1..Len(s) : Append(s, e)[i] = s[i]
           /\ Append(s, e)[Len(s) + 1] = e
           /\ Append(s, e) # <<>>
OBVIOUS

\* What popping the front does: the other entries move up by one place.
LEMMA TailEntries ==
    ASSUME NEW S, NEW s \in Seq(S), s # <<>>
    PROVE  /\ Tail(s) \in Seq(S)
           /\ Head(s) \in S
           /\ Head(s) = s[1]
           /\ Len(s) \in Nat /\ Len(s) >= 1
           /\ Len(Tail(s)) = Len(s) - 1
           /\ \A i \in 1..Len(Tail(s)) : Tail(s)[i] = s[i + 1]
OBVIOUS

\* Every initial state satisfies the invariant.
LEMMA MxInitIInv == MxInit => MxIInv
BY NoOwnerAssumption
   DEF MxInit, MxIInv, MxTypeOK, PCs, SpinLockHeld, MutualExclusion, SleepersQueued,
       NoLostWakeup

\* Going to sleep adds the caller at the end of the queue.
LEMMA SleepKeepsQueue ==
    ASSUME MxIInv, NEW t \in MxTasks, mxPc[t] = "check",
           wq' = Append(wq, t), mxPc' = [mxPc EXCEPT ![t] = "blocked"]
    PROVE  SleepersQueued'
<1>1. /\ Len(wq') = Len(wq) + 1
      /\ \A i \in 1..Len(wq) : wq'[i] = wq[i]
      /\ wq'[Len(wq) + 1] = t
      /\ Len(wq) \in Nat
  BY AppendEntries DEF MxIInv, MxTypeOK
<1>2. \A i \in 1..Len(wq) : wq[i] # t
  BY DEF MxIInv, MxTypeOK, SleepersQueued
<1>3. \A u \in MxTasks : mxPc'[u] = "blocked" <=> \E i \in 1..Len(wq') : wq'[i] = u
  <2> TAKE u \in MxTasks
  <2>1. CASE u = t
    BY <1>1, <2>1 DEF MxIInv, MxTypeOK
  <2>2. CASE u # t
    <3>1. mxPc'[u] = mxPc[u]
      BY <2>2 DEF MxIInv, MxTypeOK
    <3>2. (\E i \in 1..Len(wq') : wq'[i] = u) <=> \E i \in 1..Len(wq) : wq[i] = u
      BY <1>1, <2>2
    <3> QED BY <3>1, <3>2 DEF MxIInv, SleepersQueued
  <2> QED BY <2>1, <2>2
<1>4. \A i, j \in 1..Len(wq') : wq'[i] = wq'[j] => i = j
  BY <1>1, <1>2 DEF MxIInv, SleepersQueued
<1> QED BY <1>3, <1>4 DEF SleepersQueued

\* notify_one removes the first sleeper and wakes exactly that one.
LEMMA WakeKeepsQueue ==
    ASSUME MxIInv, NEW t \in MxTasks, mxPc[t] = "notify", wq # <<>>,
           wq' = Tail(wq),
           mxPc' = [mxPc EXCEPT ![t] = "idle", ![Head(wq)] = "wait"]
    PROVE  /\ Head(wq) \in MxTasks
           /\ mxPc[Head(wq)] = "blocked"
           /\ SleepersQueued'
<1>1. /\ Head(wq) \in MxTasks /\ Head(wq) = wq[1]
      /\ Len(wq) \in Nat /\ Len(wq) >= 1
      /\ Len(wq') = Len(wq) - 1
      /\ \A i \in 1..Len(wq') : wq'[i] = wq[i + 1]
  BY TailEntries DEF MxIInv, MxTypeOK
<1>2. mxPc[Head(wq)] = "blocked"
  BY <1>1 DEF MxIInv, SleepersQueued
<1>3. \A u \in MxTasks : mxPc'[u] = "blocked" <=> \E i \in 1..Len(wq') : wq'[i] = u
  <2> TAKE u \in MxTasks
  <2>1. CASE u = Head(wq)
    <3>1. mxPc'[u] = "wait"
      BY <1>1, <2>1 DEF MxIInv, MxTypeOK
    <3>2. \A i \in 1..Len(wq') : wq'[i] # u
      BY <1>1, <2>1 DEF MxIInv, SleepersQueued
    <3> QED BY <3>1, <3>2
  <2>2. CASE u = t
    <3>1. mxPc'[u] # "blocked"
      BY <1>1, <2>2 DEF MxIInv, MxTypeOK
    <3>2. \A i \in 1..Len(wq') : wq'[i] # u
      BY <1>1, <2>2 DEF MxIInv, SleepersQueued
    <3> QED BY <3>1, <3>2
  <2>3. CASE u # t /\ u # Head(wq)
    <3>1. mxPc'[u] = mxPc[u]
      BY <2>3 DEF MxIInv, MxTypeOK
    <3>2. (\E i \in 1..Len(wq') : wq'[i] = u) => \E i \in 1..Len(wq) : wq[i] = u
      BY <1>1
    <3>3. ASSUME NEW i \in 1..Len(wq), wq[i] = u
          PROVE  \E j \in 1..Len(wq') : wq'[j] = u
      <4>1. i # 1
        BY <1>1, <2>3, <3>3
      <4>2. i - 1 \in 1..Len(wq') /\ wq'[i - 1] = wq[i]
        BY <1>1, <4>1
      <4> QED BY <3>3, <4>2
    <3> QED BY <3>1, <3>2, <3>3 DEF MxIInv, SleepersQueued
  <2> QED BY <2>1, <2>2, <2>3
<1>4. \A i, j \in 1..Len(wq') : wq'[i] = wq'[j] => i = j
  <2> SUFFICES ASSUME NEW i \in 1..Len(wq'), NEW j \in 1..Len(wq'), wq'[i] = wq'[j]
               PROVE  i = j
    OBVIOUS
  <2>1. i + 1 \in 1..Len(wq) /\ j + 1 \in 1..Len(wq) /\ wq[i + 1] = wq[j + 1]
    BY <1>1
  <2> QED BY <2>1 DEF MxIInv, SleepersQueued
<1> QED BY <1>1, <1>2, <1>3, <1>4, Zenon DEF SleepersQueued

\* Every step keeps the invariant.
LEMMA MxNextIInv == MxIInv /\ [MxNext]_mxVars => MxIInv'
<1> SUFFICES ASSUME MxIInv, [MxNext]_mxVars PROVE MxIInv'
  OBVIOUS
<1> USE NoOwnerAssumption
<1>1. ASSUME NEW t \in MxTasks, Lock(t) PROVE MxIInv'
  BY <1>1 DEF Lock, Goto, MxIInv, MxTypeOK, PCs, SpinLockHeld, MutualExclusion,
              SleepersQueued, NoLostWakeup
<1>2. ASSUME NEW t \in MxTasks, CompareExchange(t) PROVE MxIInv'
  BY <1>2 DEF CompareExchange, Goto, MxIInv, MxTypeOK, PCs, SpinLockHeld,
              MutualExclusion, SleepersQueued, NoLostWakeup
<1>3. ASSUME NEW t \in MxTasks, CompareExchangeFail(t) PROVE MxIInv'
  BY <1>3 DEF CompareExchangeFail, Goto, MxIInv, MxTypeOK, PCs, SpinLockHeld,
              MutualExclusion, SleepersQueued, NoLostWakeup
<1>4. ASSUME NEW t \in MxTasks, TryLock(t) PROVE MxIInv'
  BY <1>4 DEF TryLock, Goto, MxIInv, MxTypeOK, PCs, SpinLockHeld, MutualExclusion,
              SleepersQueued, NoLostWakeup
<1>5. ASSUME NEW t \in MxTasks, WaitLock(t) PROVE MxIInv'
  BY <1>5 DEF WaitLock, Goto, MxIInv, MxTypeOK, PCs, SpinLockHeld, MutualExclusion,
              SleepersQueued, NoLostWakeup
<1>6. ASSUME NEW t \in MxTasks, WaitCheck(t) PROVE MxIInv'
  <2>1. CASE owner_id = NoOwner
    BY <1>6, <2>1 DEF WaitCheck, Goto, MxIInv, MxTypeOK, PCs, SpinLockHeld,
                      MutualExclusion, SleepersQueued, NoLostWakeup
  <2>2. CASE owner_id # NoOwner
    <3>1. /\ mxPc[t] = "check"
          /\ wq' = Append(wq, t)
          /\ mxPc' = [mxPc EXCEPT ![t] = "blocked"]
          /\ wq_lock' = NoOwner /\ owner_id' = owner_id
      BY <1>6, <2>2 DEF WaitCheck, Goto
    <3>2. SleepersQueued'
      BY <3>1, SleepKeepsQueue, Zenon
    <3>3. wq' \in Seq(MxTasks)
      BY <3>1, AppendEntries DEF MxIInv, MxTypeOK
    <3>4. MxTypeOK' /\ SpinLockHeld' /\ MutualExclusion'
      BY <3>1, <3>3 DEF MxIInv, MxTypeOK, PCs, SpinLockHeld, MutualExclusion
    <3>5. NoLostWakeup'
      BY <2>2, <3>1 DEF NoLostWakeup
    <3> QED BY <3>2, <3>4, <3>5 DEF MxIInv
  <2> QED BY <2>1, <2>2
<1>7. ASSUME NEW t \in MxTasks, Unlock(t) PROVE MxIInv'
  BY <1>7 DEF Unlock, Goto, MxIInv, MxTypeOK, PCs, SpinLockHeld, MutualExclusion,
              SleepersQueued, NoLostWakeup
<1>8. ASSUME NEW t \in MxTasks, NotifyOne(t) PROVE MxIInv'
  <2>1. CASE wq = <<>>
    BY <1>8, <2>1 DEF NotifyOne, Goto, MxIInv, MxTypeOK, PCs, SpinLockHeld,
                      MutualExclusion, SleepersQueued, NoLostWakeup
  <2>2. CASE wq # <<>>
    <3>1. /\ mxPc[t] = "notify"
          /\ wq' = Tail(wq)
          /\ mxPc' = [mxPc EXCEPT ![t] = "idle", ![Head(wq)] = "wait"]
          /\ wq_lock' = wq_lock /\ owner_id' = owner_id
      BY <1>8, <2>2 DEF NotifyOne
    <3>2. /\ Head(wq) \in MxTasks /\ mxPc[Head(wq)] = "blocked"
          /\ SleepersQueued'
      BY <2>2, <3>1, WakeKeepsQueue, Zenon
    <3>3. wq' \in Seq(MxTasks)
      BY <2>2, <3>1, TailEntries DEF MxIInv, MxTypeOK
    <3>4. mxPc' \in [MxTasks -> PCs] /\ mxPc'[Head(wq)] = "wait"
      BY <3>1, <3>2 DEF MxIInv, MxTypeOK, PCs
    <3>5. \A u \in MxTasks : \/ mxPc'[u] = mxPc[u]
                           \/ /\ mxPc[u] \in {"notify", "blocked"}
                              /\ mxPc'[u] \in {"idle", "wait"}
      BY <3>1, <3>2 DEF MxIInv, MxTypeOK
    <3>6. MxTypeOK' /\ SpinLockHeld' /\ MutualExclusion'
      BY <3>1, <3>3, <3>4, <3>5 DEF MxIInv, MxTypeOK, SpinLockHeld, MutualExclusion
    <3>7. NoLostWakeup'
      BY <3>2, <3>4 DEF NoLostWakeup
    <3> QED BY <3>2, <3>6, <3>7 DEF MxIInv
  <2> QED BY <2>1, <2>2
<1>9. CASE UNCHANGED mxVars
  BY <1>9 DEF mxVars, MxIInv, MxTypeOK, SpinLockHeld, MutualExclusion, SleepersQueued,
              NoLostWakeup
<1> QED
  BY <1>1, <1>2, <1>3, <1>4, <1>5, <1>6, <1>7, <1>8, <1>9 DEF MxNext

\* The invariant holds in every reachable state.
THEOREM MutexInvariant == MxSpec => []MxIInv
<1>1. MxInit => MxIInv
  BY MxInitIInv
<1>2. MxIInv /\ [MxNext]_mxVars => MxIInv'
  BY MxNextIInv
<1> QED BY <1>1, <1>2, PTL DEF MxSpec

\* The fields of RawMutex keep their types.
THEOREM MutexType == MxSpec => []MxTypeOK
<1>1. MxIInv => MxTypeOK
  BY DEF MxIInv
<1> QED BY <1>1, MutexInvariant, PTL

\* At any time at most one task is between lock() and unlock(), the one that
\* owner_id names.
THEOREM MutexExcludes == MxSpec => []MutualExclusion
<1>1. MxIInv => MutualExclusion
  BY DEF MxIInv
<1> QED BY <1>1, MutexInvariant, PTL

\* The wait queue holds exactly the sleeping tasks, each once.
THEOREM MutexSleepersQueued == MxSpec => []SleepersQueued
<1>1. MxIInv => SleepersQueued
  BY DEF MxIInv
<1> QED BY <1>1, MutexInvariant, PTL

\* A free mutex with sleepers always has a task awake that will pass it on.
THEOREM MutexNoLostWakeup == MxSpec => []NoLostWakeup
<1>1. MxIInv => NoLostWakeup
  BY DEF MxIInv
<1> QED BY <1>1, MutexInvariant, PTL

\* What the run of the threads checks of RawMutex, for any set of tasks: it excludes,
\* its wait queue holds the sleepers, and none of them misses the unlock.
THEOREM MutexAllKept == MxSpec => []MutexKept
<1>1. MxIInv => MutexKept
  BY DEF MxIInv, MutexKept
<1> QED BY <1>1, MutexInvariant, PTL

\* RawMutex implements the abstract lock: every step acquires a free lock,
\* releases it as its holder, or leaves owner_id alone.
THEOREM MutexImplementsLock == MxSpec => ImplementsLock
<1>1. MxInit => AL!Init
  BY DEF MxInit, AL!Init
<1>2. MxIInv /\ [MxNext]_mxVars => [AL!Next]_owner_id
  <2> SUFFICES ASSUME MxIInv, [MxNext]_mxVars PROVE [AL!Next]_owner_id
    OBVIOUS
  <2>1. ASSUME NEW t \in MxTasks, CompareExchange(t) \/ TryLock(t)
        PROVE  AL!Next
    BY <2>1 DEF CompareExchange, TryLock, AL!Next, AL!Acquire
  <2>2. ASSUME NEW t \in MxTasks, Unlock(t) PROVE AL!Next
    BY <2>2 DEF Unlock, MxIInv, MutualExclusion, AL!Next, AL!Release
  <2>3. ASSUME NEW t \in MxTasks,
               \/ Lock(t) \/ CompareExchangeFail(t) \/ WaitLock(t)
               \/ WaitCheck(t) \/ NotifyOne(t)
        PROVE  UNCHANGED owner_id
    BY <2>3 DEF Lock, CompareExchangeFail, WaitLock, WaitCheck, NotifyOne
  <2>4. CASE UNCHANGED mxVars
    BY <2>4 DEF mxVars
  <2> QED BY <2>1, <2>2, <2>3, <2>4 DEF MxNext
<1> QED
  BY <1>1, <1>2, MutexInvariant, PTL DEF MxSpec, ImplementsLock, AL!Spec
-----------------------------------------------------------------------------
(* Queues.                                                                 *)

\* What is in a queue (VecDeque), and that no entry is in it twice.
Members(q) == {q[i] : i \in 1..Len(q)}
Distinct(q) == \A i, j \in 1..Len(q) : q[i] = q[j] => i = j

\* The empty queue.
LEMMA EmptyQueue ==
    /\ Members(<<>>) = {} /\ Distinct(<<>>)
    /\ \A S : \A q \in Seq(S) : Members(q) = {} <=> q = <<>>
<1>1. Members(<<>>) = {} /\ Distinct(<<>>)
  BY DEF Members, Distinct
<1>2. ASSUME NEW S, NEW q \in Seq(S), q # <<>>
      PROVE  Members(q) # {}
  BY <1>2 DEF Members
<1> QED BY <1>1, <1>2

\* push_back adds the entry.
LEMMA PushedQueue ==
    ASSUME NEW S, NEW q \in Seq(S), NEW e \in S
    PROVE  /\ Append(q, e) \in Seq(S) /\ Append(q, e) # <<>>
           /\ Len(Append(q, e)) = Len(q) + 1
           /\ Members(Append(q, e)) = Members(q) \cup {e}
           /\ Distinct(q) /\ e \notin Members(q) => Distinct(Append(q, e))
<1> DEFINE p == Append(q, e)
<1>1. /\ p \in Seq(S) /\ p # <<>> /\ Len(p) = Len(q) + 1 /\ Len(q) \in Nat
      /\ \A i \in 1..Len(q) : p[i] = q[i]
      /\ p[Len(q) + 1] = e
  OBVIOUS
<1> HIDE DEF p
<1>2. 1..Len(p) = 1..Len(q) \cup {Len(q) + 1} /\ Len(q) + 1 \notin 1..Len(q)
  BY <1>1
<1>3. Members(p) = Members(q) \cup {e}
  BY <1>1, <1>2 DEF Members
<1>4. Distinct(q) /\ e \notin Members(q) => Distinct(p)
  <2> SUFFICES ASSUME Distinct(q), e \notin Members(q), NEW i \in 1..Len(p), NEW j \in 1..Len(p),
                      p[i] = p[j]
               PROVE  i = j
    BY DEF Distinct
  <2>1. \A k \in 1..Len(q) : p[k] # e
    BY <1>1 DEF Members
  <2> QED BY <1>1, <1>2, <2>1 DEF Distinct
<1> QED BY <1>1, <1>3, <1>4 DEF p

\* pop_front takes the first entry out.
LEMMA PoppedQueue ==
    ASSUME NEW S, NEW q \in Seq(S), q # <<>>
    PROVE  /\ Head(q) \in S /\ Head(q) \in Members(q)
           /\ Tail(q) \in Seq(S) /\ Len(q) > 0 /\ Len(Tail(q)) = Len(q) - 1
           /\ Members(q) = Members(Tail(q)) \cup {Head(q)}
           /\ Distinct(q) => Distinct(Tail(q)) /\ Head(q) \notin Members(Tail(q))
<1> DEFINE p == Tail(q)
           h == Head(q)
<1>1. /\ p \in Seq(S) /\ Len(p) = Len(q) - 1 /\ Len(q) \in Nat \ {0} /\ h \in S /\ h = q[1]
      /\ \A i \in 1..Len(p) : p[i] = q[i + 1]
  OBVIOUS
<1> HIDE DEF p, h
<1>2. /\ \A i \in 1..Len(q) : i = 1 \/ (i - 1 \in 1..Len(p) /\ (i - 1) + 1 = i)
      /\ \A i \in 1..Len(p) : i + 1 \in 1..Len(q) /\ i + 1 # 1
      /\ 1 \in 1..Len(q)
  BY <1>1
<1>3. \A x \in Members(p) : x \in Members(q)
  BY <1>1, <1>2 DEF Members
<1>4. \A x \in Members(q) : x = h \/ x \in Members(p)
  <2> SUFFICES ASSUME NEW i \in 1..Len(q), i # 1 PROVE q[i] \in Members(p)
    BY <1>1, Zenon DEF Members
  <2>1. i - 1 \in 1..Len(p) /\ p[i - 1] = q[i]
    BY <1>1, <1>2
  <2> QED BY <2>1 DEF Members
<1>5. h \in Members(q)
  BY <1>1, <1>2 DEF Members
<1>6. Distinct(q) => Distinct(p) /\ h \notin Members(p)
  <2> SUFFICES ASSUME Distinct(q) PROVE Distinct(p) /\ h \notin Members(p)
    OBVIOUS
  <2>1. ASSUME NEW i \in 1..Len(p), NEW j \in 1..Len(p), p[i] = p[j] PROVE i = j
    <3>1. q[i + 1] = q[j + 1] /\ i + 1 \in 1..Len(q) /\ j + 1 \in 1..Len(q)
      BY <1>1, <1>2, <2>1
    <3>2. i + 1 = j + 1
      BY <3>1 DEF Distinct
    <3> QED BY <3>2
  <2>2. ASSUME NEW i \in 1..Len(p), p[i] = h PROVE FALSE
    <3>1. q[i + 1] = q[1] /\ i + 1 \in 1..Len(q) /\ 1 \in 1..Len(q) /\ i + 1 # 1
      BY <1>1, <1>2, <2>2
    <3> QED BY <3>1 DEF Distinct
  <2> QED BY <2>1, <2>2 DEF Distinct, Members
<1> QED BY <1>1, <1>3, <1>4, <1>5, <1>6 DEF p, h

\* An entry taken out at the front and put back at the end stays in the queue.
LEMMA RotatedQueue ==
    ASSUME NEW S, NEW q \in Seq(S), q # <<>>, Distinct(q)
    PROVE  LET r == Append(Tail(q), Head(q)) IN
           r \in Seq(S) /\ Len(r) = Len(q) /\ Members(r) = Members(q) /\ Distinct(r)
<1> DEFINE p == Tail(q)
           h == Head(q)
<1>1. /\ h \in S /\ p \in Seq(S) /\ Len(q) \in Nat /\ Len(p) = Len(q) - 1
      /\ Members(q) = Members(p) \cup {h} /\ Distinct(p) /\ h \notin Members(p)
  BY PoppedQueue
<1> HIDE DEF p, h
<1>2. /\ Append(p, h) \in Seq(S) /\ Len(Append(p, h)) = Len(p) + 1
      /\ Members(Append(p, h)) = Members(p) \cup {h} /\ Distinct(Append(p, h))
  BY <1>1, PushedQueue
<1>3. Len(Append(p, h)) = Len(q) /\ Members(Append(p, h)) = Members(q)
  BY <1>1, <1>2
<1> QED BY <1>2, <1>3 DEF p, h

(* Exit, join and the collector.                                          *)

Waking == {"run", "state_set", "code_set"}
Handed == {"listed", "gc_woken", "gone"}

\* Where the tasks are: a task is listed on the CPU it exits on, once, from
\* ListExited on until gc drops it.
ListsKept ==
    /\ \A c \in CPUs : Distinct(exited_tasks[c]) /\ gc_left[c] <= Len(exited_tasks[c])
    /\ \A c \in CPUs : \A t \in Members(exited_tasks[c]) :
            HomeOf[t] = c /\ epc[t] \in Handed /\ t \notin dropped
    /\ \A t \in XTasks : epc[t] \in Handed /\ t \notin dropped => t \in Members(exited_tasks[HomeOf[t]])

\* Where the joiners are: those that are blocked are in the queue of their target,
\* once, and the queue is empty when the target has woken them.
JoinersKept ==
    /\ \A t \in XTasks : Distinct(wait_for_exit[t])
    /\ \A t \in XTasks : \A j \in Members(wait_for_exit[t]) : jpc[j] = "blocked" /\ TargetOf[j] = t
    /\ \A j \in Joiners : jpc[j] = "blocked" => j \in Members(wait_for_exit[TargetOf[j]])
    /\ \A t \in XTasks : epc[t] \notin Waking => wait_for_exit[t] = <<>>
    /\ \A t \in XTasks : epc[t] = "run" <=> state[t] # "Exited"

\* The inductive invariant.
TxIInv == TxTypeOK /\ ListsKept /\ JoinersKept /\ DroppedUnused

\* A queue without repetitions is no longer than there are values.
LEMMA QueueFits ==
    ASSUME NEW S, IsFiniteSet(S), NEW q \in Seq(S), Distinct(q)
    PROVE  Len(q) <= Cardinality(S)
<1> DEFINE f == [i \in 1..Len(q) |-> q[i]]
<1>1. f \in [1..Len(q) -> S]
  OBVIOUS
<1>2. f \in Injection(1..Len(q), S)
  BY <1>1 DEF Injection, IsInjective, Distinct
<1>3. Cardinality(1..Len(q)) <= Cardinality(S)
  BY <1>2, FS_Injection
<1>4. Len(q) \in Nat
  OBVIOUS
<1>5. Cardinality(1..Len(q)) = Len(q)
  <2>1. Cardinality(1..Len(q)) = IF 1 > Len(q) THEN 0 ELSE Len(q) - 1 + 1
    BY <1>4, 1 \in Int, Len(q) \in Int, FS_Interval, Zenon
  <2> QED BY <1>4, <2>1
<1> QED BY <1>3, <1>5

\* If gc counts one reference to a task of its list, the task has left its stack
\* and every joiner is done.
LEMMA LastReference ==
    ASSUME TxTypeOK, NEW c \in CPUs, NEW t \in Members(exited_tasks[c]), t \in XTasks, StrongCount(t) = 1
    PROVE  epc[t] = "gone" /\ \A j \in Joiners : TargetOf[j] = t => jpc[j] = "done"
<1> DEFINE L == {d \in CPUs : \E i \in 1..Len(exited_tasks[d]) : exited_tasks[d][i] = t}
           J == {j \in Joiners : TargetOf[j] = t /\ jpc[j] # "done"}
           g == IF epc[t] = "gone" THEN 0 ELSE 1
<1>1. IsFiniteSet(L) /\ IsFiniteSet(J)
  BY TaskExitAssumption, FS_Subset
<1>2. c \in L
  BY DEF Members
<1>3. Cardinality(L) \in Nat /\ Cardinality(J) \in Nat /\ Cardinality(L) # 0
  BY <1>1, <1>2, FS_CardinalityType, FS_EmptySet, Zenon
<1>4. g + Cardinality(L) + Cardinality(J) = 1 /\ g \in {0, 1}
  BY DEF StrongCount
<1> HIDE DEF g, L, J
<1>5. g = 0 /\ Cardinality(J) = 0
  BY <1>3, <1>4
<1>6. J = {}
  BY <1>1, <1>5, FS_EmptySet
<1> QED BY <1>5, <1>6 DEF g, J

\* The state before any task exits: no list holds a task, nobody joins.
LEMMA TxInitIInv == TxInit => TxIInv
<1> SUFFICES ASSUME TxInit PROVE TxIInv
  OBVIOUS
<1> USE TaskExitAssumption DEF TxInit
<1>1. Cardinality(XTasks) \in Nat
  BY FS_CardinalityType
<1>2. TxTypeOK
  BY <1>1 DEF TxTypeOK
<1>3. ListsKept
  BY EmptyQueue DEF ListsKept, Handed
<1>4. JoinersKept
  BY EmptyQueue DEF JoinersKept, Waking
<1>5. DroppedUnused
  BY DEF DroppedUnused
<1> QED BY <1>2, <1>3, <1>4, <1>5 DEF TxIInv

\* The steps of exit_current that touch neither the lists nor the joiners.
LEMMA PlainExitKeeps ==
    ASSUME TxIInv, NEW t \in XTasks, SetExited(t) \/ StoreExitCode(t) \/ NotifyGc(t) \/ SwitchAway(t)
    PROVE  TxIInv'
<1> USE DEF TxIInv, Advance, joinVars, gcVars
<1>1. CASE SetExited(t)
  <2>1. TxTypeOK'
    BY <1>1, SMTT(40) DEF SetExited, TxTypeOK
  <2>2. ListsKept' /\ JoinersKept' /\ DroppedUnused'
    BY <1>1 DEF SetExited, TxTypeOK, ListsKept, JoinersKept, DroppedUnused, Handed, Waking
  <2> QED BY <2>1, <2>2
<1>2. CASE StoreExitCode(t)
  <2>1. TxTypeOK'
    BY <1>2, SMTT(40) DEF StoreExitCode, TxTypeOK
  <2>2. ListsKept' /\ JoinersKept' /\ DroppedUnused'
    BY <1>2, SMTT(40) DEF StoreExitCode, TxTypeOK, ListsKept, JoinersKept, DroppedUnused, Handed, Waking
  <2> QED BY <2>1, <2>2
<1>3. CASE NotifyGc(t)
  <2>1. TxTypeOK'
    BY <1>3, Zenon DEF NotifyGc, TxTypeOK
  <2>2. ListsKept' /\ JoinersKept' /\ DroppedUnused'
    BY <1>3 DEF NotifyGc, TxTypeOK, ListsKept, JoinersKept, DroppedUnused, Handed, Waking
  <2> QED BY <2>1, <2>2
<1>4. CASE SwitchAway(t)
  <2>1. TxTypeOK'
    BY <1>4, SMTT(40) DEF SwitchAway, TxTypeOK
  <2>2. ListsKept' /\ JoinersKept' /\ DroppedUnused'
    BY <1>4, SMTT(40) DEF SwitchAway, TxTypeOK, ListsKept, JoinersKept, DroppedUnused, Handed, Waking
  <2> QED BY <2>1, <2>2
<1> QED BY <1>1, <1>2, <1>3, <1>4

\* notify_exit wakes the joiners of the exiting task and lists nobody.
LEMMA NotifyJoinerKeeps ==
    ASSUME TxIInv, NEW t \in XTasks, NotifyJoiner(t)
    PROVE  TxIInv'
<1> USE TaskExitAssumption DEF TxIInv, Advance, gcVars
<1>0. UNCHANGED <<state, exit_code, result, exited_tasks, gcpc, gc_left, dropped>>
  BY DEF NotifyJoiner
<1>1. CASE /\ epc[t] = "code_set" /\ epc' = [epc EXCEPT ![t] = "code_set"] /\ WakeJoiner(t)
  <2> DEFINE q == wait_for_exit[t]
             h == Head(q)
  <2>1. q \in Seq(Joiners) /\ q # <<>> /\ Distinct(q)
    BY <1>1 DEF WakeJoiner, TxTypeOK, JoinersKept
  <2>2. /\ jpc' = [jpc EXCEPT ![h] = "join"] /\ wait_for_exit' = [wait_for_exit EXCEPT ![t] = Tail(q)]
        /\ epc' = epc
    BY <1>1 DEF WakeJoiner, TxTypeOK
  <2>3. /\ h \in Joiners /\ h \in Members(q) /\ Tail(q) \in Seq(Joiners)
        /\ Members(q) = Members(Tail(q)) \cup {h} /\ Distinct(Tail(q)) /\ h \notin Members(Tail(q))
    BY <2>1, PoppedQueue
  <2>4. jpc[h] = "blocked" /\ TargetOf[h] = t
    BY <2>3 DEF JoinersKept
  <2> HIDE DEF h
  <2>5. TxTypeOK'
    BY <1>0, <2>2, <2>3, SMTT(40) DEF TxTypeOK
  <2>6. ListsKept'
    BY <1>0, <2>2 DEF ListsKept
  <2>7. DroppedUnused'
    BY <1>0, <1>1, <2>2, <2>3, <2>4, SMTT(40) DEF DroppedUnused, TxTypeOK
  <2>8. JoinersKept'
    <3>1. \A u \in XTasks : wait_for_exit'[u] = IF u = t THEN Tail(q) ELSE wait_for_exit[u]
      BY <2>2 DEF TxTypeOK
    <3>2. \A j \in Joiners : jpc'[j] = IF j = h THEN "join" ELSE jpc[j]
      BY <2>2, SMTT(40) DEF TxTypeOK
    <3>3. \A u \in XTasks : Distinct(wait_for_exit'[u])
      BY <2>3, <3>1 DEF JoinersKept
    <3>4. \A u \in XTasks : \A j \in Members(wait_for_exit[u]) : j \in Joiners
      BY DEF Members, TxTypeOK
    <3>5. \A u \in XTasks : \A j \in Members(wait_for_exit'[u]) : jpc'[j] = "blocked" /\ TargetOf[j] = u
      BY <2>3, <2>4, <3>1, <3>2, <3>4, SMTT(40) DEF JoinersKept
    <3>6. \A j \in Joiners : jpc'[j] = "blocked" => j \in Members(wait_for_exit'[TargetOf[j]])
      BY <2>3, <3>1, <3>2, SMTT(40) DEF JoinersKept
    <3>7. \A u \in XTasks : epc'[u] \notin Waking => wait_for_exit'[u] = <<>>
      BY <1>1, <2>2, <3>1 DEF JoinersKept, Waking
    <3> QED BY <1>0, <2>2, <3>3, <3>5, <3>6, <3>7 DEF JoinersKept
  <2> QED BY <2>5, <2>6, <2>7, <2>8
<1>2. CASE /\ wait_for_exit[t] = <<>> /\ epc[t] = "code_set"
           /\ epc' = [epc EXCEPT ![t] = "joiners_woken"] /\ UNCHANGED <<wait_for_exit, jpc>>
  <2>1. TxTypeOK'
    BY <1>0, <1>2 DEF TxTypeOK
  <2>2. \A u \in XTasks : epc'[u] = IF u = t THEN "joiners_woken" ELSE epc[u]
    BY <1>2 DEF TxTypeOK
  <2>3. \A c \in CPUs : Members(exited_tasks[c]) \subseteq XTasks
    BY SMTT(40) DEF TxTypeOK, Members
  <2>4. ListsKept'
    BY <1>0, <1>2, <2>2, <2>3 DEF ListsKept, Handed
  <2>5. JoinersKept'
    BY <1>0, <1>2, <2>2 DEF JoinersKept, Waking
  <2>6. DroppedUnused'
    BY <1>0, <1>2, <2>2 DEF TxTypeOK, DroppedUnused
  <2> QED BY <2>1, <2>4, <2>5, <2>6
<1> QED BY <1>1, <1>2, SMTT(40) DEF NotifyJoiner

\* exit_current pushes a task that is on no list yet, and notifies the collector.
LEMMA ListExitedKeeps ==
    ASSUME TxIInv, NEW t \in XTasks, ListExited(t)
    PROVE  TxIInv'
<1> USE TaskExitAssumption DEF TxIInv, Advance, joinVars
<1> DEFINE c == HomeOf[t]
           q == exited_tasks[c]
<1>1. /\ epc[t] = "joiners_woken" /\ epc' = [epc EXCEPT ![t] = "listed"]
      /\ exited_tasks' = [exited_tasks EXCEPT ![c] = Append(q, t)]
      /\ UNCHANGED <<state, exit_code, joinVars, gcpc, gc_left, dropped>>
  BY DEF ListExited
<1>2. c \in CPUs /\ q \in Seq(XTasks) /\ t \notin Members(q) /\ Distinct(q)
  BY <1>1, Zenon DEF TxTypeOK, ListsKept, Handed
<1>3. /\ Append(q, t) \in Seq(XTasks) /\ Len(Append(q, t)) = Len(q) + 1
      /\ Members(Append(q, t)) = Members(q) \cup {t} /\ Distinct(Append(q, t))
  BY <1>2, PushedQueue
<1>4. t \notin dropped
  BY <1>1 DEF DroppedUnused
<1> HIDE DEF c
<1>5. TxTypeOK'
  BY <1>1, <1>2, <1>3 DEF TxTypeOK
<1>6. JoinersKept' /\ DroppedUnused'
  BY <1>1, SMTT(40) DEF TxTypeOK, JoinersKept, DroppedUnused, Waking
<1>7. ListsKept'
  <2>1. \A d \in CPUs : exited_tasks'[d] = IF d = c THEN Append(q, t) ELSE exited_tasks[d]
    BY <1>1 DEF TxTypeOK
  <2>2. \A u \in XTasks : epc'[u] = IF u = t THEN "listed" ELSE epc[u]
    BY <1>1 DEF TxTypeOK
  <2>3. \A d \in CPUs : Members(exited_tasks[d]) \subseteq XTasks
    BY DEF TxTypeOK, Members
  <2>4. \A d \in CPUs : Distinct(exited_tasks'[d])
    BY <1>3, <2>1 DEF ListsKept
  <2>5. \A d \in CPUs : gc_left'[d] <= Len(exited_tasks'[d])
    <3> SUFFICES ASSUME NEW d \in CPUs PROVE gc_left[d] <= Len(exited_tasks'[d])
      BY <1>1
    <3>1. gc_left[d] <= Len(exited_tasks[d]) /\ Len(exited_tasks[d]) \in Nat /\ gc_left[d] \in Nat
      BY DEF TxTypeOK, ListsKept
    <3>2. Len(exited_tasks'[d]) = Len(exited_tasks[d]) \/ Len(exited_tasks'[d]) = Len(exited_tasks[d]) + 1
      BY <1>3, <2>1, Zenon
    <3> QED BY <3>1, <3>2
  <2>6. \A d \in CPUs : \A u \in Members(exited_tasks'[d]) :
            HomeOf[u] = d /\ epc'[u] \in Handed /\ u \notin dropped'
    BY <1>1, <1>3, <1>4, <2>1, <2>2, <2>3 DEF ListsKept, Handed, c
  <2>7. \A u \in XTasks : epc'[u] \in Handed /\ u \notin dropped' => u \in Members(exited_tasks'[HomeOf[u]])
    BY <1>1, <1>3, <2>1, <2>2 DEF ListsKept, c
  <2> QED BY <2>4, <2>5, <2>6, <2>7 DEF ListsKept
<1> QED BY <1>5, <1>6, <1>7

\* join reads the exit code or starts to wait; either way the lists are untouched.
LEMMA JoinKeeps ==
    ASSUME TxIInv, NEW j \in Joiners, JoinStep(j)
    PROVE  TxIInv'
<1> USE TaskExitAssumption DEF TxIInv, exitVars, gcVars
<1> DEFINE t == TargetOf[j]
           q == wait_for_exit[t]
<1>0. t \in XTasks /\ UNCHANGED <<state, exit_code, epc, exited_tasks, gcpc, gc_left, dropped>>
  BY DEF JoinStep, JoinWait, JoinLoad
<1>1. \A u \in XTasks : Members(wait_for_exit[u]) \subseteq Joiners
  <2>1. \A u \in XTasks : wait_for_exit[u] \in Seq(Joiners)
    BY Zenon DEF TxTypeOK
  <2> QED BY <2>1, SMTT(40) DEF Members
<1>2. ListsKept'
  BY <1>0 DEF ListsKept
<1>3. CASE JoinWait(j) /\ state[t] = "Exited"
  <2>1. jpc[j] = "join" /\ jpc' = [jpc EXCEPT ![j] = "load"] /\ UNCHANGED <<wait_for_exit, result>>
    BY <1>3 DEF JoinWait
  <2>2. TxTypeOK'
    BY <1>0, <2>1 DEF TxTypeOK
  <2>3. JoinersKept' /\ DroppedUnused'
    BY <1>0, <1>1, <2>1 DEF TxTypeOK, JoinersKept, DroppedUnused
  <2> QED BY <1>2, <2>2, <2>3
<1>4. CASE JoinWait(j) /\ state[t] # "Exited"
  <2>1. /\ jpc[j] = "join" /\ jpc' = [jpc EXCEPT ![j] = "blocked"]
        /\ wait_for_exit' = [wait_for_exit EXCEPT ![t] = Append(q, j)] /\ UNCHANGED result
    BY <1>4 DEF JoinWait
  <2>2. q \in Seq(Joiners) /\ Distinct(q) /\ j \notin Members(q)
    BY <1>0, <2>1, SMTT(40) DEF TxTypeOK, JoinersKept
  <2>3. /\ Append(q, j) \in Seq(Joiners) /\ Distinct(Append(q, j))
        /\ Members(Append(q, j)) = Members(q) \cup {j}
    BY <2>2, PushedQueue
  <2>4. TxTypeOK'
    BY <1>0, <2>1, <2>3 DEF TxTypeOK
  <2>5. DroppedUnused'
    BY <1>0, <2>1 DEF DroppedUnused, TxTypeOK
  <2>6. epc[t] = "run"
    BY <1>0, <1>4, SMTT(40) DEF JoinersKept
  <2>7. JoinersKept'
    <3>1. \A u \in XTasks : wait_for_exit'[u] = IF u = t THEN Append(q, j) ELSE wait_for_exit[u]
      BY <2>1 DEF TxTypeOK
    <3>2. \A k \in Joiners : jpc'[k] = IF k = j THEN "blocked" ELSE jpc[k]
      BY <2>1, SMTT(40) DEF TxTypeOK
    <3>3. \A u \in XTasks : Distinct(wait_for_exit'[u])
      BY <2>3, <3>1 DEF JoinersKept
    <3>4. \A u \in XTasks : \A k \in Members(wait_for_exit'[u]) : jpc'[k] = "blocked" /\ TargetOf[k] = u
      <4> SUFFICES ASSUME NEW u \in XTasks, NEW k \in Members(wait_for_exit'[u])
                   PROVE  jpc'[k] = "blocked" /\ TargetOf[k] = u
        OBVIOUS
      <4>1. \/ u = t /\ k = j
            \/ k \in Members(wait_for_exit[u])
        BY <2>3, <3>1
      <4>2. CASE u = t /\ k = j
        BY <3>2, <4>2
      <4>3. CASE k \in Members(wait_for_exit[u])
        <5>1. k \in Joiners /\ jpc[k] = "blocked" /\ TargetOf[k] = u
          BY <1>1, <4>3, SMTT(40) DEF JoinersKept
        <5> QED BY <3>2, <5>1
      <4> QED BY <4>1, <4>2, <4>3
    <3>5. \A k \in Joiners : jpc'[k] = "blocked" => k \in Members(wait_for_exit'[TargetOf[k]])
      BY <2>3, <3>1, <3>2, SMTT(40) DEF JoinersKept
    <3>6. \A u \in XTasks : epc'[u] \notin Waking => wait_for_exit'[u] = <<>>
      BY <1>0, <2>6, <3>1 DEF JoinersKept, Waking
    <3> QED BY <1>0, <3>3, <3>4, <3>5, <3>6 DEF JoinersKept
  <2> QED BY <1>2, <2>4, <2>5, <2>7
<1>5. CASE JoinLoad(j)
  <2>1. /\ jpc[j] = "load" /\ jpc' = [jpc EXCEPT ![j] = "done"] /\ UNCHANGED wait_for_exit
        /\ result' = [result EXCEPT ![j] = exit_code[t]]
    BY <1>5 DEF JoinLoad
  <2>2. TxTypeOK'
    BY <1>0, <2>1, SMTT(40) DEF TxTypeOK
  <2>3. JoinersKept' /\ DroppedUnused'
    BY <1>0, <1>1, <2>1 DEF TxTypeOK, JoinersKept, DroppedUnused
  <2> QED BY <1>2, <2>2, <2>3
<1> QED BY <1>3, <1>4, <1>5, SMTT(40) DEF JoinStep

\* gc_entry pops what it drops, pushes back what others still hold, and waits on an empty list.
LEMMA GcKeeps ==
    ASSUME TxIInv, NEW c \in CPUs, GcStep(c)
    PROVE  TxIInv'
<1> USE TaskExitAssumption DEF TxIInv, exitVars, joinVars
<1> DEFINE q == exited_tasks[c]
           h == Head(q)
<1>0. /\ UNCHANGED <<state, exit_code, epc, wait_for_exit, jpc, result>>
      /\ q \in Seq(XTasks) /\ Distinct(q) /\ Len(q) \in Nat /\ gc_left[c] \in Nat
      /\ gc_left[c] <= Len(q) /\ Cardinality(XTasks) \in Nat
  BY FS_CardinalityType, SMTT(40) DEF GcStep, GcStart, GcEntry, GcWait, TxTypeOK, ListsKept
<1>1. JoinersKept'
  BY <1>0, Zenon DEF JoinersKept
<1>2. CASE GcStart(c)
  <2>1. gc_left' = [gc_left EXCEPT ![c] = Len(q)] /\ UNCHANGED <<exited_tasks, dropped>>
        /\ gcpc' = [gcpc EXCEPT ![c] = "loop"]
    BY <1>2 DEF GcStart
  <2>2. Len(q) <= Cardinality(XTasks)
    BY <1>0, QueueFits
  <2>3. TxTypeOK'
    BY <1>0, <2>1, <2>2, SMTT(40) DEF TxTypeOK
  <2>4. ListsKept' /\ DroppedUnused'
    BY <1>0, <2>1 DEF ListsKept, DroppedUnused, TxTypeOK
  <2> QED BY <1>1, <2>3, <2>4
<1>3. CASE GcWait(c)
  <2>1. TxTypeOK'
    BY <1>3, SMTT(40) DEF GcWait, TxTypeOK
  <2>2. ListsKept' /\ DroppedUnused'
    BY <1>3, Zenon DEF GcWait, ListsKept, DroppedUnused
  <2> QED BY <1>1, <2>1, <2>2
<1>4. CASE GcEntry(c)
  <2>1. gc_left' = [gc_left EXCEPT ![c] = gc_left[c] - 1] /\ gc_left[c] > 0 /\ UNCHANGED gcpc
    BY <1>4 DEF GcEntry, GcPop
  <2>2. q # <<>>
    BY <1>0, <2>1
  <2>3. /\ h \in XTasks /\ h \in Members(q) /\ Tail(q) \in Seq(XTasks) /\ Len(Tail(q)) = Len(q) - 1
        /\ Members(q) = Members(Tail(q)) \cup {h} /\ Distinct(Tail(q)) /\ h \notin Members(Tail(q))
    BY <1>0, <2>2, PoppedQueue
  <2>4. gc_left' \in [CPUs -> 0..Cardinality(XTasks)]
        /\ \A d \in CPUs : gc_left'[d] = IF d = c THEN gc_left[c] - 1 ELSE gc_left[d]
    BY <1>0, <2>1, SMTT(40) DEF TxTypeOK
  <2>5. \A d \in CPUs : Members(exited_tasks[d]) \subseteq XTasks
    BY SMTT(40) DEF TxTypeOK, Members
  <2>6. HomeOf[h] = c /\ h \notin dropped
    BY <2>3 DEF ListsKept
  <2>7. CASE /\ StrongCount(h) = 1 /\ exited_tasks' = [exited_tasks EXCEPT ![c] = Tail(q)]
             /\ dropped' = dropped \cup {h}
    <3> HIDE DEF h
    <3>1. \A d \in CPUs : exited_tasks'[d] = IF d = c THEN Tail(q) ELSE exited_tasks[d]
      BY <2>7, SMTT(40) DEF TxTypeOK
    <3>2. epc[h] = "gone" /\ \A j \in Joiners : TargetOf[j] = h => jpc[j] = "done"
      BY <2>3, <2>7, LastReference, SMTT(40)
    <3>3. TxTypeOK'
      BY <1>0, <2>1, <2>3, <2>4, <2>7, Zenon DEF TxTypeOK
    <3>4. DroppedUnused'
      BY <1>0, <2>7, <3>2 DEF DroppedUnused
    <3>5. \A d \in CPUs : Distinct(exited_tasks'[d]) /\ gc_left'[d] <= Len(exited_tasks'[d])
      <4> SUFFICES ASSUME NEW d \in CPUs
                   PROVE  Distinct(exited_tasks'[d]) /\ gc_left'[d] <= Len(exited_tasks'[d])
        BY SMTT(40)
      <4>1. CASE d # c
        <5>1. gc_left'[d] = gc_left[d] /\ exited_tasks'[d] = exited_tasks[d]
          BY <2>4, <2>3, <3>1, <4>1, SMTT(40)
        <5> QED BY <5>1, SMTT(40) DEF ListsKept
      <4>2. CASE d = c
        <5>1. gc_left'[d] = gc_left[c] - 1 /\ Len(exited_tasks'[d]) >= Len(q) - 1
              /\ Len(exited_tasks'[d]) \in Nat /\ Distinct(exited_tasks'[d])
          <6>1. exited_tasks'[d] = Tail(q) /\ gc_left'[d] = gc_left[c] - 1
            BY <2>4, <3>1, <4>2, SMTT(40)
          <6>2. Len(Tail(q)) = Len(q) - 1 /\ Len(Tail(q)) \in Nat /\ Distinct(Tail(q))
            BY <1>0, <2>2, <2>3
          <6> QED BY <1>0, <6>1, <6>2
        <5> QED BY <1>0, <5>1
      <4> QED BY <4>1, <4>2
    <3>6. \A d \in CPUs : \A u \in Members(exited_tasks'[d]) :
              HomeOf[u] = d /\ epc'[u] \in Handed /\ u \notin dropped'
      <4> SUFFICES ASSUME NEW d \in CPUs, NEW u \in Members(exited_tasks'[d])
                   PROVE  HomeOf[u] = d /\ epc[u] \in Handed /\ u \notin dropped /\ u # h
        BY <1>0, <2>7, SMTT(40)
      <4>1. u \in Members(exited_tasks[d]) /\ (d = c => u # h)
        BY <2>3, <3>1
      <4> QED BY <2>6, <4>1, SMTT(40) DEF ListsKept
    <3>7. \A u \in XTasks : epc'[u] \in Handed /\ u \notin dropped' => u \in Members(exited_tasks'[HomeOf[u]])
      <4> SUFFICES ASSUME NEW u \in XTasks, epc[u] \in Handed, u \notin dropped, u # h
                   PROVE  u \in Members(exited_tasks'[HomeOf[u]])
        BY <1>0, <2>7
      <4>1. u \in Members(exited_tasks[HomeOf[u]]) /\ HomeOf[u] \in CPUs
        BY SMTT(40) DEF ListsKept
      <4> QED BY <2>3, <3>1, <4>1, SMTT(40)
    <3>8. ListsKept'
      BY <3>5, <3>6, <3>7, SMTT(40) DEF ListsKept
    <3> QED BY <1>1, <3>3, <3>4, <3>8
  <2>8. CASE exited_tasks' = [exited_tasks EXCEPT ![c] = Append(Tail(q), h)] /\ UNCHANGED dropped
    <3> DEFINE r == Append(Tail(q), h)
    <3>1. /\ r \in Seq(XTasks) /\ Len(r) = Len(q) /\ Members(r) = Members(q) /\ Distinct(r)
      BY <1>0, <2>2, RotatedQueue
    <3> HIDE DEF r, h
    <3>2. \A d \in CPUs : exited_tasks'[d] = IF d = c THEN r ELSE exited_tasks[d]
      BY <2>8, SMTT(40) DEF TxTypeOK, r
    <3>3. TxTypeOK'
      <4>1. exited_tasks' \in [CPUs -> Seq(XTasks)]
        BY <2>8, <3>1, SMTT(40) DEF TxTypeOK, r
      <4> QED BY <1>0, <2>1, <2>4, <2>8, <4>1, Zenon DEF TxTypeOK
    <3>4. DroppedUnused'
      BY <1>0, <2>8, Zenon DEF DroppedUnused
    <3>5. \A d \in CPUs : Distinct(exited_tasks'[d]) /\ gc_left'[d] <= Len(exited_tasks'[d])
      <4> SUFFICES ASSUME NEW d \in CPUs
                   PROVE  Distinct(exited_tasks'[d]) /\ gc_left'[d] <= Len(exited_tasks'[d])
        OBVIOUS
      <4>1. CASE d # c
        <5>1. gc_left'[d] = gc_left[d] /\ exited_tasks'[d] = exited_tasks[d]
          BY <2>4, <3>2, <4>1, Zenon
        <5> QED BY <5>1 DEF ListsKept
      <4>2. CASE d = c
        <5>1. gc_left'[d] = gc_left[c] - 1 /\ Len(exited_tasks'[d]) >= Len(q) - 1
              /\ Len(exited_tasks'[d]) \in Nat /\ Distinct(exited_tasks'[d])
          BY <1>0, <2>4, <3>1, <3>2, <4>2, SMTT(40)
        <5> QED BY <1>0, <5>1
      <4> QED BY <4>1, <4>2
    <3>6. \A d \in CPUs : Members(exited_tasks'[d]) = Members(exited_tasks[d])
      BY <3>1, <3>2, SMTT(40)
    <3>7. ListsKept'
      BY <1>0, <2>8, <3>5, <3>6 DEF ListsKept
    <3> QED BY <1>1, <3>3, <3>4, <3>7
  <2> QED BY <1>4, <2>7, <2>8 DEF GcEntry
<1> QED BY <1>2, <1>3, <1>4, SMTT(40) DEF GcStep

\* Every step, and the stuttering ones, keep the inductive invariant.
LEMMA TxNextIInv == TxIInv /\ [TxNext \/ TxFinished]_txVars => TxIInv'
<1> SUFFICES ASSUME TxIInv, [TxNext \/ TxFinished]_txVars PROVE TxIInv'
  OBVIOUS
<1>1. CASE UNCHANGED txVars
  <2>1. TxTypeOK'
    BY <1>1, SMTT(40) DEF TxIInv, txVars, exitVars, joinVars, gcVars, TxTypeOK
  <2>2. ListsKept'
    BY <1>1 DEF TxIInv, txVars, exitVars, gcVars, ListsKept
  <2>3. JoinersKept'
    BY <1>1 DEF TxIInv, txVars, exitVars, joinVars, JoinersKept
  <2>4. DroppedUnused'
    BY <1>1 DEF TxIInv, txVars, exitVars, joinVars, gcVars, DroppedUnused
  <2> QED BY <2>1, <2>2, <2>3, <2>4 DEF TxIInv
<1>2. CASE TxNext
  BY <1>2, PlainExitKeeps, NotifyJoinerKeeps, ListExitedKeeps, JoinKeeps, GcKeeps DEF TxNext, ExitStep
<1> QED BY <1>1, <1>2 DEF TxFinished

\* In every run, for any tasks, joiners and CPUs: no joiner sleeps for a task that
\* has woken its joiners, gc frees only tasks that nobody can touch any more, and a
\* task that is gone and not freed is listed for gc exactly once (exit_current,
\* notify_exit, join, gc_entry).
THEOREM ExitedTasksAlwaysKept == TxSpec => []ExitedTasksKept
<1>1. TxIInv => ExitedTasksKept
  <2> SUFFICES ASSUME TxIInv PROVE ExitedTasksKept
    OBVIOUS
  <2>1. NoStrandedJoiner
    BY EmptyQueue, TaskExitAssumption DEF TxIInv, JoinersKept, NoStrandedJoiner, Waking
  <2>2. ExitedKept
    <3> SUFFICES ASSUME NEW t \in XTasks, epc[t] = "gone", t \notin dropped
                 PROVE  Cardinality({i \in 1..Len(exited_tasks[HomeOf[t]]) :
                                        exited_tasks[HomeOf[t]][i] = t}) = 1
      BY DEF ExitedKept
    <3> DEFINE q == exited_tasks[HomeOf[t]]
    <3>1. t \in Members(q) /\ Distinct(q)
      BY TaskExitAssumption DEF TxIInv, ListsKept, Handed
    <3>2. PICK i \in 1..Len(q) : q[i] = t
      BY <3>1 DEF Members
    <3>3. {k \in 1..Len(q) : q[k] = t} = {i}
      BY <3>1, <3>2 DEF Distinct
    <3> QED BY <3>3, FS_Singleton, Zenon
  <2> QED BY <2>1, <2>2 DEF TxIInv, ExitedTasksKept
<1>2. TxSpec => []TxIInv
  BY TxInitIInv, TxNextIInv, PTL DEF TxSpec
<1> QED BY <1>1, <1>2, PTL
=============================================================================
