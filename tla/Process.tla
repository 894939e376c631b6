------------------------------ MODULE Process ------------------------------
(***************************************************************************)
(* The life of processes and their threads: sys_clone, do_exit (sys_exit,  *)
(* sys_exit_group and death by a signal), sys_kill with SIGKILL, and       *)
(* sys_waitpid.  The family tree and the thread groups are those of the    *)
(* crate axprocess, which is external: fork, exit (become a zombie, give   *)
(* the children to init), free, and the exit of a thread.                  *)
(*                                                                         *)
(* A process has the id of its first thread.  Init is the process that     *)
(* axprocess starts with: it has no threads and no ProcessData, so it      *)
(* takes no signals and reaps nobody.                                      *)
(*                                                                         *)
(* pc: none       the id is not in use                                     *)
(*     run        in user space, or at a point that changes nothing here   *)
(*     fork       in sys_clone, with the parent of the new process chosen  *)
(*     zombie, notify, clear, group, dead                   do_exit        *)
(*     scan, enter, asleep                                  sys_waitpid    *)
(***************************************************************************)
EXTENDS Naturals, FiniteSets

CONSTANTS Tids,   \* ids that the kernel may give out
          First,  \* the process that run_user_app starts
          Init0,  \* the process init
          MaxKills  \* bound on the calls of sys_kill that wait to be taken

ASSUME ProcessAssumption ==
    Tids \subseteq Nat /\ First \in Tids /\ Init0 \in Nat \ Tids /\ MaxKills \in Nat

KILLED == 137  \* the code of a death by SIGKILL, 128 + 9

VARIABLES
    pc,        \* position of each thread
    group,     \* do_exit's argument group_exit
    other,     \* sys_clone's parent of the new process
    snap,      \* sys_waitpid's children
    nowait,    \* sys_waitpid has WNOWAIT
    nohang,    \* sys_waitpid has WNOHANG
    killed,    \* threads with a SIGKILL pending
    of,        \* the process of a thread
    parent, children, threads,      \* the family tree and the thread groups
    state,     \* none, live, zombie, freed
    exit_code, group_exited,
    cloned,    \* is_clone_child: no exit signal (or one other than SIGCHLD)
    sigkill,   \* processes with a SIGKILL pending
    sent       \* processes whose exit signal has been sent to the parent

tvars == <<pc, group, other, snap, nowait, nohang, killed, of>>
pvars == <<parent, children, threads, state, exit_code, group_exited, cloned, sigkill, sent>>
vars == <<tvars, pvars>>

locals == <<group, other, snap, nowait, nohang, killed, of>>
tree == <<parent, children, state>>
rest == <<threads, exit_code, group_exited, cloned, sigkill, sent>>

Procs == Tids \cup {Init0}

Init ==
    /\ pc = [t \in Tids |-> IF t = First THEN "run" ELSE "none"]
    /\ group = [t \in Tids |-> FALSE]
    /\ other = [t \in Tids |-> Init0] /\ snap = [t \in Tids |-> {}]
    /\ nowait = [t \in Tids |-> FALSE] /\ nohang = [t \in Tids |-> FALSE]
    /\ killed = {}
    /\ of = [t \in Tids |-> t]
    /\ parent = [p \in Tids |-> Init0]
    /\ children = [p \in Procs |-> IF p = Init0 THEN {First} ELSE {}]
    /\ threads = [p \in Tids |-> IF p = First THEN {First} ELSE {}]
    /\ state = [p \in Procs |-> IF p \in {Init0, First} THEN "live" ELSE "none"]
    /\ exit_code = [p \in Tids |-> 0] /\ group_exited = {}
    /\ cloned = {} /\ sigkill = {} /\ sent = {}

\* TaskId::new counts up.
NextId(u) == pc[u] = "none" /\ \A v \in Tids : pc[v] = "none" => u <= v

Goto(t, l) == pc' = [pc EXCEPT ![t] = l]
-----------------------------------------------------------------------------
(* sys_clone.                                                              *)

\* CLONE_THREAD: a new thread in the caller's process.
CloneThread(t, u) ==
    /\ pc[t] = "run" /\ NextId(u)
    /\ Goto(u, "run")
    /\ of' = [of EXCEPT ![u] = of[t]]
    /\ threads' = [threads EXCEPT ![of[t]] = @ \cup {u}]
    /\ UNCHANGED <<group, other, snap, nowait, nohang, killed, tree>>
    /\ UNCHANGED <<exit_code, group_exited, cloned, sigkill, sent>>

\* A new process: its parent is the caller's process or, with CLONE_PARENT, the
\* parent of that; EINVAL if it is no more.
CloneProcess(t, sibling) ==
    LET p == IF sibling THEN parent[of[t]] ELSE of[t] IN
    /\ pc[t] = "run"
    /\ state[p] # "freed"
    /\ Goto(t, "fork")
    /\ other' = [other EXCEPT ![t] = p]
    /\ UNCHANGED <<group, snap, nowait, nohang, killed, of, pvars>>

\* build(): the new process u joins the children of the parent, and runs.
ForkBuild(t, u, cc) ==
    /\ pc[t] = "fork" /\ NextId(u)
    /\ pc' = [pc EXCEPT ![t] = "run", ![u] = "run"]
    /\ parent' = [parent EXCEPT ![u] = other[t]]
    /\ children' = [children EXCEPT ![other[t]] = @ \cup {u}]
    /\ state' = [state EXCEPT ![u] = "live"]
    /\ threads' = [threads EXCEPT ![u] = {u}]
    /\ cloned' = IF cc THEN cloned \cup {u} ELSE cloned
    /\ other' = [other EXCEPT ![t] = Init0]
    /\ UNCHANGED <<group, snap, nowait, nohang, killed, of>>
    /\ UNCHANGED <<exit_code, group_exited, sigkill, sent>>
-----------------------------------------------------------------------------
(* do_exit, after the wakeup at clear_child_tid.                           *)

MutThreadExit(t, code, g) ==
    LET p == of[t] IN
    /\ pc[t] = "run"
    /\ threads' = [threads EXCEPT ![p] = @ \ {t}]
    /\ exit_code' = [exit_code EXCEPT ![p] = IF p \in group_exited THEN @ ELSE code]
    /\ Goto(t, "zombie")
    /\ group' = [group EXCEPT ![t] = g] /\ killed' = killed \ {t}
    /\ UNCHANGED <<other, snap, nowait, nohang, of, tree, group_exited, cloned, sent>>

\* do_exit(code, g) up to thread.exit(code), which is true for the last thread.
ThreadExit(t, code, g) ==
    LET p == of[t] IN
    /\ pc[t] = "run"
    /\ threads' = [threads EXCEPT ![p] = @ \ {t}]
    /\ exit_code' = [exit_code EXCEPT ![p] = IF p \in group_exited THEN @ ELSE code]
    /\ Goto(t, IF threads'[p] = {} THEN "zombie" ELSE "group")
    /\ group' = [group EXCEPT ![t] = g] /\ killed' = killed \ {t}
    /\ UNCHANGED <<other, snap, nowait, nohang, of, tree, group_exited, cloned, sent>>

\* sys_exit and sys_exit_group; thread t exits with its own number as the code.
Exit(t, g) == ThreadExit(t, t, g) /\ UNCHANGED sigkill

\* check_signals finds SIGKILL: sent to the thread, or to its process.
DieOfSignal(t) ==
    /\ ThreadExit(t, KILLED, TRUE)
    /\ t \in killed \/ of[t] \in sigkill
    /\ sigkill' = IF t \in killed THEN sigkill ELSE sigkill \ {of[t]}

MutReparent(p) ==
    /\ state' = [state EXCEPT ![p] = IF @ = "live" THEN "zombie" ELSE @]
    /\ children' = [children EXCEPT ![p] = {}, ![Init0] = @ \cup children[p]]
    /\ UNCHANGED parent

\* process.exit(): a zombie, and its children go to init.
Reparent(p) ==
    /\ state' = [state EXCEPT ![p] = IF @ = "live" THEN "zombie" ELSE @]
    /\ parent' = [c \in Tids |-> IF c \in children[p] THEN Init0 ELSE parent[c]]
    /\ children' = [children EXCEPT ![p] = {}, ![Init0] = @ \cup children[p]]

MutProcessExit(t) ==
    /\ pc[t] = "zombie"
    /\ Goto(t, "notify")
    /\ UNCHANGED <<locals, pvars>>

ProcessExit(t) ==
    /\ pc[t] = "zombie"
    /\ Reparent(of[t])
    /\ Goto(t, "notify")
    /\ UNCHANGED <<locals, rest>>

\* pc when child_exit_wq of process p is notified by t.
NotifyAll(t, p) ==
    [u \in Tids |-> IF u = t THEN "clear"
                    ELSE IF pc[u] = "asleep" /\ of[u] = p THEN "scan" ELSE pc[u]]

\* The parent, as it is after process.exit(), gets the exit signal, and the threads
\* that sleep in its child_exit_wq are woken.
ExitNotify(t) ==
    LET q == parent[of[t]] IN
    /\ pc[t] = "notify"
    /\ sent' = IF q = Init0 \/ of[t] \in cloned THEN sent ELSE sent \cup {of[t]}
    /\ pc' = NotifyAll(t, q)
    /\ UNCHANGED <<locals, tree, threads, exit_code, group_exited, cloned, sigkill>>

\* process.exit() once more; the descriptors are closed too.
ExitAgain(t) ==
    /\ pc[t] = "clear"
    /\ Reparent(of[t])
    /\ Goto(t, "group")
    /\ UNCHANGED <<locals, rest>>

\* The first group exit sends SIGKILL to the threads that are left.
GroupExit(t) ==
    /\ pc[t] = "group"
    /\ IF group[t] /\ of[t] \notin group_exited
       THEN /\ group_exited' = group_exited \cup {of[t]}
            /\ killed' = killed \cup threads[of[t]]
       ELSE UNCHANGED <<group_exited, killed>>
    /\ Goto(t, "dead")
    /\ group' = [group EXCEPT ![t] = FALSE]
    /\ UNCHANGED <<other, snap, nowait, nohang, of, tree>>
    /\ UNCHANGED <<threads, exit_code, cloned, sigkill, sent>>

\* sys_kill(p, SIGKILL); a zombie has no thread left to take it.
Kill(t, p) ==
    /\ pc[t] = "run"
    /\ state[p] = "live" /\ p \notin sigkill /\ Cardinality(sigkill) < MaxKills
    /\ sigkill' = sigkill \cup {p}
    /\ UNCHANGED <<tvars, tree, threads, exit_code, group_exited, cloned, sent>>
-----------------------------------------------------------------------------
(* sys_waitpid: the children are listed once; ECHILD if there are none.    *)

\* which: the pids asked for; one that is no child gives ECHILD.  kind: all (WALL),
\* clone (WCLONE), or normal.
Waitpid(t, which, kind, wait, hang) ==
    LET kids == {c \in children[of[t]] \cap which :
                    kind = "all" \/ (kind = "clone") = (c \in cloned)} IN
    /\ pc[t] = "run"
    /\ kids # {}
    /\ Goto(t, "scan")
    /\ snap' = [snap EXCEPT ![t] = kids]
    /\ nowait' = [nowait EXCEPT ![t] = ~wait] /\ nohang' = [nohang EXCEPT ![t] = ~hang]
    /\ UNCHANGED <<group, other, killed, of, pvars>>

Zombies(S) == {c \in S : state[c] \in {"zombie", "freed"}}

\* A zombie is freed, and its id returned.
Reap(t) ==
    LET c == CHOOSE c \in Zombies(snap[t]) : \A d \in Zombies(snap[t]) : c <= d IN
    /\ pc[t] = "scan"
    /\ Zombies(snap[t]) # {}
    /\ IF nowait[t] THEN UNCHANGED <<state, children>>
       ELSE /\ state' = [state EXCEPT ![c] = "freed"]
            /\ children' = [children EXCEPT ![parent[c]] = @ \ {c}]
    /\ Goto(t, "run")
    /\ snap' = [snap EXCEPT ![t] = {}]
    /\ nowait' = [nowait EXCEPT ![t] = FALSE] /\ nohang' = [nohang EXCEPT ![t] = FALSE]
    /\ UNCHANGED <<group, other, killed, of, parent, rest>>

\* No zombie: return 0, or go on to sleep in child_exit_wq.
NoZombie(t) ==
    /\ pc[t] = "scan"
    /\ Zombies(snap[t]) = {}
    /\ Goto(t, IF nohang[t] THEN "run" ELSE "enter")
    /\ snap' = IF nohang[t] THEN [snap EXCEPT ![t] = {}] ELSE snap
    /\ nowait' = IF nohang[t] THEN [nowait EXCEPT ![t] = FALSE] ELSE nowait
    /\ nohang' = [nohang EXCEPT ![t] = FALSE]
    /\ UNCHANGED <<group, other, killed, of, pvars>>

WaitEnter(t) ==
    /\ pc[t] = "enter"
    /\ Goto(t, "asleep")
    /\ UNCHANGED <<locals, pvars>>
-----------------------------------------------------------------------------
\* The steps a thread takes inside do_exit and sys_waitpid.
ExitStep(t) ==
    \/ ProcessExit(t) \/ ExitNotify(t) \/ ExitAgain(t) \/ GroupExit(t)

WaitStep(t) == Reap(t) \/ NoZombie(t) \/ WaitEnter(t)

UserStep(t) ==
    \/ \E u \in Tids : CloneThread(t, u)
    \/ \E sibling \in BOOLEAN : CloneProcess(t, sibling)
    \/ \E u \in Tids, cc \in BOOLEAN : ForkBuild(t, u, cc)
    \/ \E g \in BOOLEAN : Exit(t, g)
    \/ DieOfSignal(t)
    \/ \E p \in Tids : Kill(t, p)
    \/ \E which \in {Tids} \cup {{c} : c \in children[of[t]]}, kind \in {"all", "clone", "normal"},
          wait, hang \in BOOLEAN : Waitpid(t, which, kind, wait, hang)

Next == \E t \in Tids : (pc[t] \in {"run", "fork"} /\ UserStep(t)) \/ ExitStep(t) \/ WaitStep(t)

Spec == Init /\ [][Next]_vars
-----------------------------------------------------------------------------
\* The two records of the family tree agree whatever exits, forks and reaps race:
\* a process that is not freed is among the children of its parent and of nobody
\* else, so that exactly one process can wait for it.
FamilyConsistent ==
    \A c \in Tids, p \in Procs :
        c \in children[p] <=> state[c] \in {"live", "zombie"} /\ parent[c] = p

\* A process becomes a zombie only when its last thread has left, and no thread
\* ever runs in it again; a live process has a thread, or its last one is in
\* do_exit just before process.exit().
ZombieHasNoThreads ==
    \A p \in Tids :
        /\ state[p] \in {"zombie", "freed"} => threads[p] = {}
        /\ state[p] = "live" => threads[p] # {} \/ \E t \in Tids : of[t] = p /\ pc[t] = "zombie"

\* What waitpid reports is final: the exit code of a zombie never changes, and a
\* freed process stays freed.
ExitCodeFinal ==
    [][\A p \in Tids : state[p] \in {"zombie", "freed"} =>
          /\ exit_code'[p] = exit_code[p]
          /\ state'[p] = state[p] \/ state'[p] = "freed"]_vars

\* A parent learns of every exit: when a child with SIGCHLD has become a zombie and
\* its parent runs user code, the signal has been sent, or the exiting thread is
\* still on its way to send it.
ExitIsSignalled ==
    \A c \in Tids \ cloned :
        state[c] = "zombie" /\ parent[c] # Init0 =>
            \/ c \in sent
            \/ \E t \in Tids : of[t] = c /\ pc[t] = "notify"

\* A waiter asleep in child_exit_wq is woken by the exit of every child it waits
\* for, and then finds a zombie: the exiting thread that passes its notify_all
\* leaves no such waiter asleep, and process.exit() has come before.
WaiterWoken ==
    [][\A t, u \in Tids :
          pc[t] = "notify" /\ pc'[t] # "notify" /\ pc[u] = "asleep" /\ of[t] \in snap[u] =>
              pc'[u] = "scan" /\ Zombies(snap[u])' # {}]_vars

\* waitpid reports the status of selected processes which have terminated: it is
\* not asleep when a child it waits for has terminated and made its wakeup.
WaitReportsTerminated ==
    \A t, c \in Tids :
        pc[t] = "asleep" /\ c \in snap[t] /\ state[c] = "zombie" =>
            \E u \in Tids : of[u] = c /\ pc[u] = "notify"

\* The records of the parent, the children, the threads and the zombies agree,
\* a process leaves them in one order, so that a zombie has no thread left, and
\* an exited process has told its parent or is about to (exit.rs).
FamilyKept == FamilyConsistent /\ ZombieHasNoThreads /\ ExitIsSignalled
=============================================================================
