------------------------------ MODULE TaskExit ------------------------------
(***************************************************************************)
(* The end of a task in axtask: exit_current on the task's CPU, join() by  *)
(* tasks on other CPUs, and the per-CPU gc task that drops exited tasks.   *)
(* An exiting task and the gc task of its CPU never run at the same time,  *)
(* since neither is preempted; joiners run in parallel with both.          *)
(*                                                                         *)
(* epc[t]: run, state_set, code_set, joiners_woken, listed, gc_woken, gone *)
(* jpc[j]: join, blocked, load, done                                       *)
(***************************************************************************)
EXTENDS Naturals, Sequences, FiniteSets

CONSTANTS XTasks,      \* the tasks that exit
          Joiners,     \* the tasks that join one of them
          CPUs, HomeOf,  \* HomeOf[t]: the CPU that t exits on
          TargetOf,      \* TargetOf[j]: the task that j joins
          ExitCode,    \* what every task passes to exit()
          InitialCode  \* exit_code before it is stored

ASSUME TaskExitAssumption ==
    /\ HomeOf \in [XTasks -> CPUs] /\ TargetOf \in [Joiners -> XTasks]
    /\ IsFiniteSet(XTasks) /\ IsFiniteSet(Joiners) /\ IsFiniteSet(CPUs)
    /\ ExitCode # InitialCode

VARIABLES
    state, exit_code, wait_for_exit,  \* fields of TaskInner
    epc, jpc,
    result,        \* what join() returned
    exited_tasks,  \* EXITED_TASKS of each CPU
    gcpc, gc_left, \* the gc task of each CPU: blocked in WAIT_FOR_EXIT, ready or in its
                   \* loop, and the number of entries the loop still looks at
    dropped        \* the tasks whose memory is freed

exitVars == <<state, exit_code, epc>>
joinVars == <<wait_for_exit, jpc, result>>
gcVars == <<exited_tasks, gcpc, gc_left, dropped>>
txVars == <<exitVars, joinVars, gcVars>>

TxInit ==
    /\ state = [t \in XTasks |-> "Running"]
    /\ exit_code = [t \in XTasks |-> InitialCode]
    /\ wait_for_exit = [t \in XTasks |-> <<>>]
    /\ epc = [t \in XTasks |-> "run"]
    /\ jpc = [j \in Joiners |-> "join"]
    /\ result = [j \in Joiners |-> InitialCode]
    /\ exited_tasks = [c \in CPUs |-> <<>>]
    /\ gcpc = [c \in CPUs |-> "ready"]
    /\ gc_left = [c \in CPUs |-> 0]
    /\ dropped = {}

\* Arc::strong_count: the current-task pointer, the list of the gc task and
\* the references of the joiners.
StrongCount(t) ==
    (IF epc[t] = "gone" THEN 0 ELSE 1)
    + Cardinality({c \in CPUs : \E i \in 1..Len(exited_tasks[c]) : exited_tasks[c][i] = t})
    + Cardinality({j \in Joiners : TargetOf[j] = t /\ jpc[j] # "done"})

\* The CPU of t executes t: not its gc task, which has no point in its loop where
\* it gives up the CPU, and no other task that is inside exit_current.
OnCpu(t) ==
    /\ gcpc[HomeOf[t]] # "loop"
    /\ \A u \in XTasks \ {t} : HomeOf[u] = HomeOf[t] => epc[u] \in {"run", "gone"}

Advance(t, from, to) == epc[t] = from /\ OnCpu(t) /\ epc' = [epc EXCEPT ![t] = to]
-----------------------------------------------------------------------------
(* exit_current, with interrupts off.                                      *)

SetExited(t) ==
    /\ Advance(t, "run", "state_set")
    /\ state' = [state EXCEPT ![t] = "Exited"]
    /\ UNCHANGED <<exit_code, joinVars, gcVars>>

\* notify_exit, first half.
StoreExitCode(t) ==
    /\ Advance(t, "state_set", "code_set")
    /\ exit_code' = [exit_code EXCEPT ![t] = ExitCode]
    /\ UNCHANGED <<state, joinVars, gcVars>>

WakeJoiner(t) ==
    /\ wait_for_exit[t] # <<>>
    /\ jpc' = [jpc EXCEPT ![Head(wait_for_exit[t])] = "join"]
    /\ wait_for_exit' = [wait_for_exit EXCEPT ![t] = Tail(@)]

\* notify_exit, second half: notify_all, one joiner per critical section.
NotifyJoiner(t) ==
    /\ \/ Advance(t, "code_set", "code_set") /\ WakeJoiner(t)
       \/ /\ wait_for_exit[t] = <<>> /\ Advance(t, "code_set", "joiners_woken")
          /\ UNCHANGED <<wait_for_exit, jpc>>
    /\ UNCHANGED <<state, exit_code, result, gcVars>>

ListExited(t) ==
    /\ Advance(t, "joiners_woken", "listed")
    /\ exited_tasks' = [exited_tasks EXCEPT ![HomeOf[t]] = Append(@, t)]
    /\ UNCHANGED <<state, exit_code, joinVars, gcpc, gc_left, dropped>>

\* WAIT_FOR_EXIT.notify_one.
NotifyGc(t) ==
    /\ Advance(t, "listed", "gc_woken")
    /\ gcpc' = [gcpc EXCEPT ![HomeOf[t]] = "ready"]
    /\ UNCHANGED <<state, exit_code, joinVars, exited_tasks, gc_left, dropped>>

\* resched: the CPU leaves the task's stack and set_current drops its reference.
SwitchAway(t) ==
    /\ Advance(t, "gc_woken", "gone")
    /\ UNCHANGED <<state, exit_code, joinVars, gcVars>>
-----------------------------------------------------------------------------
(* join, on another CPU.                                                   *)

\* wait_until tests the state under the lock of the task's queue.
JoinWait(j) ==
    LET t == TargetOf[j] IN
    /\ jpc[j] = "join"
    /\ \/ /\ state[t] = "Exited"
          /\ jpc' = [jpc EXCEPT ![j] = "load"] /\ UNCHANGED wait_for_exit
       \/ /\ state[t] # "Exited"
          /\ jpc' = [jpc EXCEPT ![j] = "blocked"]
          /\ wait_for_exit' = [wait_for_exit EXCEPT ![t] = Append(@, j)]
    /\ UNCHANGED <<exitVars, result, gcVars>>

\* join returns the code it loads; the joiner then drops its reference.
JoinLoad(j) ==
    /\ jpc[j] = "load"
    /\ jpc' = [jpc EXCEPT ![j] = "done"]
    /\ result' = [result EXCEPT ![j] = exit_code[TargetOf[j]]]
    /\ UNCHANGED <<exitVars, wait_for_exit, gcVars>>
-----------------------------------------------------------------------------
(* gc_entry.                                                               *)

\* The gc task of c is scheduled and reads the length of the list.
GcStart(c) ==
    /\ gcpc[c] = "ready"
    /\ \A t \in XTasks : HomeOf[t] = c => epc[t] \in {"run", "gone"}
    /\ gcpc' = [gcpc EXCEPT ![c] = "loop"]
    /\ gc_left' = [gc_left EXCEPT ![c] = Len(exited_tasks[c])]
    /\ UNCHANGED <<exitVars, joinVars, exited_tasks, dropped>>

GcPop(c) == /\ gcpc[c] = "loop" /\ gc_left[c] > 0
            /\ gc_left' = [gc_left EXCEPT ![c] = @ - 1]

MutGcEntry(c) ==
    /\ GcPop(c)
    /\ exited_tasks' = [exited_tasks EXCEPT ![c] = Tail(@)]
    /\ dropped' = dropped \cup {Head(exited_tasks[c])}
    /\ UNCHANGED <<exitVars, joinVars, gcpc>>

\* One round of the loop: drop the task if the list held the last reference,
\* else put it back at the end.
GcEntry(c) ==
    LET t == Head(exited_tasks[c]) IN
    /\ GcPop(c)
    /\ \/ /\ StrongCount(t) = 1
          /\ exited_tasks' = [exited_tasks EXCEPT ![c] = Tail(@)]
          /\ dropped' = dropped \cup {t}
       \/ /\ StrongCount(t) # 1
          /\ exited_tasks' = [exited_tasks EXCEPT ![c] = Append(Tail(@), t)]
          /\ UNCHANGED dropped
    /\ UNCHANGED <<exitVars, joinVars, gcpc>>

\* The loop is done: sleep until the next task exits on this CPU.
GcWait(c) ==
    /\ gcpc[c] = "loop" /\ gc_left[c] = 0
    /\ gcpc' = [gcpc EXCEPT ![c] = "blocked"]
    /\ UNCHANGED <<exitVars, joinVars, exited_tasks, gc_left, dropped>>
-----------------------------------------------------------------------------
ExitStep(t) == SetExited(t) \/ StoreExitCode(t) \/ NotifyJoiner(t) \/ ListExited(t)
               \/ NotifyGc(t) \/ SwitchAway(t)
JoinStep(j) == JoinWait(j) \/ JoinLoad(j)
GcStep(c) == GcStart(c) \/ GcEntry(c) \/ GcWait(c)

TxNext == (\E t \in XTasks : ExitStep(t)) \/ (\E j \in Joiners : JoinStep(j))
        \/ (\E c \in CPUs : GcStep(c))

\* Every task has exited and been joined, and the gc tasks sleep.
TxFinished == /\ \A t \in XTasks : epc[t] = "gone"
              /\ \A j \in Joiners : jpc[j] = "done"
              /\ \A c \in CPUs : gcpc[c] = "blocked"
              /\ UNCHANGED txVars

TxSpec == TxInit /\ [][TxNext \/ TxFinished]_txVars

\* A task inside exit_current has interrupts off and runs on; so do joiners and
\* gc tasks that are not blocked.  Whether a task exits is its own choice.
TxFairness == /\ \A t \in XTasks : WF_txVars(ExitStep(t) /\ epc[t] # "run")
              /\ \A j \in Joiners : WF_txVars(JoinStep(j))
              /\ \A c \in CPUs : WF_txVars(GcStep(c))

TxFairSpec == TxSpec /\ TxFairness
-----------------------------------------------------------------------------
\* The types of the variables.
TxTypeOK ==
    /\ state \in [XTasks -> {"Running", "Exited"}]
    /\ exit_code \in [XTasks -> {InitialCode, ExitCode}]
    /\ result \in [Joiners -> {InitialCode, ExitCode}]
    /\ wait_for_exit \in [XTasks -> Seq(Joiners)]
    /\ epc \in [XTasks -> {"run", "state_set", "code_set", "joiners_woken", "listed",
                          "gc_woken", "gone"}]
    /\ jpc \in [Joiners -> {"join", "blocked", "load", "done"}]
    /\ exited_tasks \in [CPUs -> Seq(XTasks)]
    /\ gcpc \in [CPUs -> {"blocked", "ready", "loop"}]
    /\ gc_left \in [CPUs -> 0..Cardinality(XTasks)]
    /\ dropped \subseteq XTasks

\* No joiner sleeps for a task that has woken its joiners.
NoStrandedJoiner ==
    \A t \in XTasks : epc[t] \notin {"run", "state_set", "code_set"} =>
        \A j \in Joiners : TargetOf[j] = t => jpc[j] # "blocked"

\* gc frees a task only when nobody can touch it any more: its CPU has left its
\* stack and no joiner still holds a reference.
DroppedUnused ==
    \A t \in dropped : /\ epc[t] = "gone"
                       /\ \A j \in Joiners : TargetOf[j] = t => jpc[j] = "done"

\* An exited task is not forgotten: it is freed or still listed for the gc task
\* of its CPU, once.
ExitedKept ==
    \A t \in XTasks : epc[t] = "gone" /\ t \notin dropped =>
        Cardinality({i \in 1..Len(exited_tasks[HomeOf[t]]) : exited_tasks[HomeOf[t]][i] = t}) = 1

\* join() waits for the task to exit and returns the exit code.
JoinReturnsExitCode == \A j \in Joiners : jpc[j] = "done" => result[j] = ExitCode

\* exit_current and gc_entry lose no task that others still need: no joiner sleeps
\* for a task that has woken its joiners, gc frees only what nobody can touch any
\* more, and an exited task that is not freed is still listed for gc.
ExitedTasksKept == TxTypeOK /\ NoStrandedJoiner /\ DroppedUnused /\ ExitedKept
=============================================================================
