------------------------------- MODULE Mutex -------------------------------
(***************************************************************************)
(* The sleeping mutex of axsync (RawMutex) over a wait queue of axtask.    *)
(* Tasks run on as many CPUs as there are tasks, so their steps interleave *)
(* freely; the spin lock of the wait queue is explicit, because whether    *)
(* the lock is free is tested under it.                                    *)
(*                                                                         *)
(* mxPc[t] says where task t is:                                           *)
(*   idle     outside lock()          check    in wait_until, queue locked *)
(*   cas      before compare_exchange blocked  asleep in the wait queue    *)
(*   wait     in wait_until, queue    held     owns the mutex              *)
(*            not locked yet          notify   in unlock(), owner cleared  *)
(***************************************************************************)
EXTENDS Naturals, Sequences

CONSTANTS MxTasks, \* the tasks that use the mutex
          NoOwner  \* owner_id = 0, or the wait queue's spin lock is free

ASSUME NoOwnerAssumption == NoOwner \notin MxTasks

VARIABLES owner_id, \* the owner of the mutex
          wq,       \* tasks in the wait queue, first to be woken first
          wq_lock,  \* holder of the wait queue's spin lock
          mxPc

mxVars == <<owner_id, wq, wq_lock, mxPc>>

Goto(t, l) == mxPc' = [mxPc EXCEPT ![t] = l]

MxInit ==
    /\ owner_id = NoOwner
    /\ wq = <<>>
    /\ wq_lock = NoOwner
    /\ mxPc = [t \in MxTasks |-> "idle"]

Lock(t) ==
    /\ mxPc[t] = "idle"
    /\ Goto(t, "cas")
    /\ UNCHANGED <<owner_id, wq, wq_lock>>

\* The weak exchange succeeds only when the mutex is free.
CompareExchange(t) ==
    /\ mxPc[t] = "cas"
    /\ owner_id = NoOwner
    /\ owner_id' = t
    /\ Goto(t, "held")
    /\ UNCHANGED <<wq, wq_lock>>

\* It may fail although the mutex is free (a lost reservation on LL/SC).
CompareExchangeFail(t) ==
    /\ mxPc[t] = "cas"
    /\ Goto(t, "wait")
    /\ UNCHANGED <<owner_id, wq, wq_lock>>

MutTryLock(t) ==
    /\ mxPc[t] = "idle"
    /\ owner_id' = t
    /\ Goto(t, "held")
    /\ UNCHANGED <<wq, wq_lock>>

TryLock(t) ==
    /\ mxPc[t] = "idle"
    /\ owner_id = NoOwner
    /\ owner_id' = t
    /\ Goto(t, "held")
    /\ UNCHANGED <<wq, wq_lock>>

\* wait_until locks the queue before it looks at the condition.
WaitLock(t) ==
    /\ mxPc[t] = "wait"
    /\ wq_lock = NoOwner
    /\ wq_lock' = t
    /\ Goto(t, "check")
    /\ UNCHANGED <<owner_id, wq>>

MutWaitCheck(t) ==
    /\ mxPc[t] = "check"
    /\ wq_lock' = NoOwner
    /\ wq' = Append(wq, t)
    /\ Goto(t, "blocked")
    /\ UNCHANGED owner_id

\* Still holding the queue: leave it if the mutex looks free, else sleep in it.
WaitCheck(t) ==
    /\ mxPc[t] = "check"
    /\ wq_lock' = NoOwner
    /\ \/ /\ owner_id = NoOwner
          /\ Goto(t, "cas")
          /\ UNCHANGED wq
       \/ /\ owner_id # NoOwner
          /\ wq' = Append(wq, t)
          /\ Goto(t, "blocked")
    /\ UNCHANGED owner_id

Unlock(t) ==
    /\ mxPc[t] = "held"
    /\ owner_id' = NoOwner
    /\ Goto(t, "notify")
    /\ UNCHANGED <<wq, wq_lock>>

\* notify_one: the first waiter, if any, goes back to the top of wait_until.
NotifyOne(t) ==
    /\ mxPc[t] = "notify"
    /\ wq_lock = NoOwner
    /\ IF wq = <<>>
       THEN Goto(t, "idle") /\ UNCHANGED wq
       ELSE /\ wq' = Tail(wq)
            /\ mxPc' = [mxPc EXCEPT ![t] = "idle", ![Head(wq)] = "wait"]
    /\ UNCHANGED <<owner_id, wq_lock>>

MxNext == \E t \in MxTasks :
    \/ Lock(t) \/ CompareExchange(t) \/ CompareExchangeFail(t) \/ TryLock(t)
    \/ WaitLock(t) \/ WaitCheck(t) \/ Unlock(t) \/ NotifyOne(t)

MxSpec == MxInit /\ [][MxNext]_mxVars

\* Every CPU keeps running its task and critical sections end; the exchange and
\* the spin lock of the queue are not lost by all tasks forever, although one task
\* may always lose them to another.
MxFairness ==
    /\ \A t \in MxTasks : WF_mxVars(CompareExchangeFail(t) \/ WaitCheck(t) \/ Unlock(t))
    /\ SF_mxVars(\E t \in MxTasks : CompareExchange(t))
    /\ SF_mxVars(\E t \in MxTasks : WaitLock(t) \/ NotifyOne(t))

MxFairSpec == MxSpec /\ MxFairness
-----------------------------------------------------------------------------
PCs == {"idle", "cas", "wait", "check", "blocked", "held", "notify"}

\* The types of the mutex's fields and of the tasks' positions.
MxTypeOK ==
    /\ owner_id \in MxTasks \cup {NoOwner}
    /\ wq \in Seq(MxTasks)
    /\ wq_lock \in MxTasks \cup {NoOwner}
    /\ mxPc \in [MxTasks -> PCs]

\* RawMutex::lock excludes: a task is past lock() or try_lock() and before
\* unlock() exactly when owner_id names it, so never two tasks at once.
MutualExclusion == \A t \in MxTasks : mxPc[t] = "held" <=> owner_id = t

\* The tasks asleep in lock() are the entries of the wait queue, each once: no
\* sleeper that notify_one can no longer find, no task queued twice.
SleepersQueued ==
    /\ \A t \in MxTasks : mxPc[t] = "blocked" <=> \E i \in 1..Len(wq) : wq[i] = t
    /\ \A i, j \in 1..Len(wq) : wq[i] = wq[j] => i = j

\* No wakeup is lost between the test of the condition in wait_until and the
\* sleep: a free mutex with sleepers has a task awake that will take the mutex
\* (and wake one sleeper on unlock) or is about to call notify_one.
NoLostWakeup ==
    owner_id = NoOwner /\ wq # <<>> =>
        \E t \in MxTasks : mxPc[t] \in {"cas", "wait", "check", "notify"}

AL == INSTANCE AbstractLock WITH Tasks <- MxTasks, holder <- owner_id

\* RawMutex implements the abstract lock, with owner_id as its holder.
ImplementsLock == AL!Spec

\* RawMutex excludes, the sleepers are the entries of its wait queue, and no wakeup
\* is lost between the test of the condition in wait_until and the sleep.
MutexKept == MxTypeOK /\ MutualExclusion /\ SleepersQueued /\ NoLostWakeup
=============================================================================
