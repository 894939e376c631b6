----------------------------- MODULE MCThreads -----------------------------
(* Instances for TLC of what must not wait forever: the tasks of a mutex    *)
(* (Mutex), those that join a task that exits (TaskExit), the two ends of a *)
(* pipe (Pipe), a call of poll, select or epoll_wait (IoMpx) and the CPUs   *)
(* of a booting system (Boot).  They share no state: a behaviour moves one  *)
(* of them, the one "which" names, and the others stay where they start.    *)
EXTENDS TaskExit, Mutex, Pipe, IoMpx, Boot, TLC

CONSTANTS t1, t2, t3, j1, j2, j3, c1, c2, r1, w1, w2, Off

\* t1 and t2 exit on c1, t3 on c2.
MCHomeOf == (t1 :> c1) @@ (t2 :> c1) @@ (t3 :> c2)
MCTargetOf == (j1 :> t1) @@ (j2 :> t1) @@ (j3 :> t2)

VARIABLE which

mcVars == <<which, mxVars, txVars, vars, mpxVars, bootVars>>

BootOff == /\ plat = Off /\ primary = Off /\ bootPc = Off /\ ready = Off
           /\ nextCpu = Off /\ logicId = Off /\ startWord = Off /\ startArg = Off
           /\ released = Off /\ bootStack = Off /\ ENTERED_CPUS = Off
           /\ INITED_CPUS = Off /\ RUN_QUEUES = Off /\ rqIndex = Off /\ placed = Off

MCInit ==
    /\ which \in {"mutex", "exit", "pipe", "mpx", "boot"}
    /\ MxInit /\ TxInit /\ Init /\ MpxInit
    /\ IF which = "boot" THEN BootInit ELSE BootOff

MCNext ==
    \/ which = "mutex" /\ MxNext /\ UNCHANGED <<which, txVars, vars, mpxVars, bootVars>>
    \/ which = "exit" /\ (TxNext \/ TxFinished) /\ UNCHANGED <<which, mxVars, vars, mpxVars, bootVars>>
    \/ which = "pipe" /\ Next /\ UNCHANGED <<which, mxVars, txVars, mpxVars, bootVars>>
    \/ which = "mpx" /\ MpxNext /\ UNCHANGED <<which, mxVars, txVars, vars, bootVars>>
    \/ which = "boot" /\ BootNext /\ UNCHANGED <<which, mxVars, txVars, vars, mpxVars>>

\* The boot ends, and so do the bounds on calls, events and time.
Bounded == which \in {"boot", "mpx"} /\ UNCHANGED mcVars

Exchange == (\E t \in MxTasks : CompareExchange(t)) /\ UNCHANGED vars
SpinLock == (\E t \in MxTasks : WaitLock(t) \/ NotifyOne(t)) /\ UNCHANGED vars
PipeStep(A) == A /\ UNCHANGED mxVars

\* The fairness that the components state, of the one that moves.  The mutex and
\* the pipe share conjuncts: the one that does not move has no step enabled.
MCFairness ==
    /\ \A t \in MxTasks : WF_mxVars(which = "mutex" /\ (CompareExchangeFail(t) \/ WaitCheck(t) \/ Unlock(t)))
    /\ SF_<<mxVars, vars>>(IF which = "mutex" THEN Exchange ELSE which = "pipe" /\ PipeStep(ReaderStep(r1)))
    /\ SF_<<mxVars, vars>>(IF which = "mutex" THEN SpinLock ELSE which = "pipe" /\ PipeStep(WriterStep(w1)))
    /\ SF_vars(which = "pipe" /\ WriterStep(w2))
    /\ \A t \in XTasks : WF_txVars(which = "exit" /\ ExitStep(t) /\ epc[t] # "run")
    /\ \A j \in Joiners : WF_txVars(which = "exit" /\ JoinStep(j))
    /\ \A c \in CPUs : WF_txVars(which = "exit" /\ GcStep(c))
    /\ WF_mpxVars(which = "mpx" /\ MpxScan) /\ WF_mpxVars(which = "mpx" /\ MpxTick)
    /\ WF_bootVars(which = "boot" /\ PrimaryStep)
    /\ \A c \in BootCpus : WF_bootVars(which = "boot" /\ c # primary /\ SecondaryStep(c))

MCSpec == MCInit /\ [][MCNext \/ Bounded]_mcVars /\ MCFairness
-----------------------------------------------------------------------------
\* The CPUs come up in order (rust_main, rust_main_secondary).
BootKept == which = "boot" => BootOrder

\* Two of the tasks alike that lock; one of the joiners of t1 and the one of t2; the
\* reader and one of the writers.
MCLocker == <<t1, t2>>
MCJoiner == <<j1, j3>>
MCEnd == <<r1, w1>>

\* Actor i waits for something that is bound to come: a task asleep in lock() for
\* its turn; a joiner for a task that exits; a reader or a writer of a pipe whose
\* other end is gone; a call with a deadline; the system, which boots.
Waits(i) ==
    CASE which = "mutex" -> mxPc[MCLocker[i]] = "blocked"
      [] which = "exit" -> state[TargetOf[MCJoiner[i]]] = "Exited" /\ jpc[MCJoiner[i]] # "done"
      [] which = "pipe" -> pc[MCEnd[i]] # "idle" /\ ~(IF i = 1 THEN WriteEnd ELSE ReadEnd)
      [] which = "mpx" -> mpc # "user" /\ deadline # -1 /\ deadline <= MaxNow
      [] which = "boot" -> ~BootComplete

\* Nobody waits forever for what is bound to come: unlock() wakes the sleepers in
\* turn, exit_current() its joiners, the end of a pipe releases the other, a call
\* of poll, select or epoll_wait ends at its deadline and all CPUs come up.
WaitsEnd == \A i \in 1..2 : Waits(i) ~> ~Waits(i)

\* poll, select and epoll_wait report a timeout only after one, without anything
\* ready all through the last scan, and return for an event that is there for good.
MpxKept == TimeoutIsReal /\ MpxReturns
=============================================================================
