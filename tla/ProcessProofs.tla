--------------------------- MODULE ProcessProofs ----------------------------
(***************************************************************************)
(* For any set of thread ids: the family tree, the thread groups and the   *)
(* exit notifications stay consistent whatever clones, exits, kills and    *)
(* waits race; an exit code is final; and the exit of a child wakes every  *)
(* thread that waits for it.                                               *)
(***************************************************************************)
EXTENDS Process, WellFoundedInduction, TLAPS

\* Where a thread is that still belongs to its process.
Inside == {"run", "fork", "scan", "enter", "asleep"}
\* Where the last thread of a process is that takes the process down.
Closing == {"zombie", "notify", "clear"}

\* The types of what the argument uses.
ProcessTypeOK ==
    /\ pc \in [Tids -> Inside \cup Closing \cup {"none", "group", "dead"}]
    /\ of \in [Tids -> Tids]
    /\ other \in [Tids -> Procs]
    /\ snap \in [Tids -> SUBSET Tids]
    /\ parent \in [Tids -> Procs]
    /\ children \in [Procs -> SUBSET Tids]
    /\ threads \in [Tids -> SUBSET Tids]
    /\ state \in [Procs -> {"none", "live", "zombie", "freed"}]
    /\ exit_code \in [Tids -> Nat]

\* A thread group holds the threads that are inside their process.
ThreadsInside ==
    \A t, p \in Tids : t \in threads[p] <=> of[t] = p /\ pc[t] \in Inside

\* An id that is not in use names no process and no thread.
FreshIds ==
    \A t \in Tids : /\ pc[t] = "none" => of[t] = t /\ state[t] = "none"
                    /\ pc[t] # "none" => state[of[t]] # "none"

\* The state of a process follows from where its threads are.
StateFollowsThreads ==
    \A t \in Tids :
        /\ pc[t] \in Inside => state[of[t]] = "live"
        /\ pc[t] = "zombie" => state[of[t]] = "live"
        /\ pc[t] \in {"notify", "clear"} => state[of[t]] \in {"zombie", "freed"}
        /\ pc[t] \in Closing => threads[of[t]] = {}

\* One thread takes the process down: thread.exit() is true for one of them.
OneCloses ==
    \A t, u \in Tids : of[t] = of[u] /\ pc[t] \in Closing /\ pc[u] \in Closing => t = u

\* The children that a call of waitpid has listed stay children of the caller's
\* process until the call returns, though some of them may be freed meanwhile.
ListedAreChildren ==
    \A t, c \in Tids : pc[t] \in {"scan", "enter", "asleep"} /\ c \in snap[t] =>
        parent[c] = of[t] /\ state[c] # "none"

\* The inductive invariant.
IInv ==
    /\ ProcessTypeOK
    /\ ThreadsInside
    /\ FreshIds
    /\ StateFollowsThreads
    /\ OneCloses
    /\ ListedAreChildren
    /\ FamilyConsistent
    /\ ZombieHasNoThreads
    /\ ExitIsSignalled

\* A set of natural numbers that is not empty has a least element.
LEMMA LeastExists ==
    ASSUME NEW S, S \subseteq Nat, S # {}
    PROVE  \E c \in S : \A d \in S : c <= d
<1> DEFINE Less == {ij \in Nat \X Nat : ij[1] < ij[2]}
<1>1. IsWellFoundedOn(Less, Nat)
  BY NatLessThanWellFounded DEF OpToRel
<1>2. PICK c \in S : \A d \in S : ~(<<d, c>> \in Less)
  BY <1>1, WFMin, Zenon
<1>3. \A d \in S : ~(d < c)
  BY <1>2, Zenon
<1> QED BY <1>3

\* The child that waitpid reaps is one of those it has listed, and a zombie.
LEMMA ReapedChild ==
    ASSUME IInv, NEW t \in Tids, pc[t] = "scan", Zombies(snap[t]) # {},
           NEW c, c = CHOOSE z \in Zombies(snap[t]) : \A d \in Zombies(snap[t]) : z <= d
    PROVE  c \in Tids /\ state[c] \in {"zombie", "freed"} /\ parent[c] = of[t]
<1>1. Zombies(snap[t]) \subseteq Tids
  BY DEF IInv, ProcessTypeOK, Zombies
<1>2. c \in Zombies(snap[t])
  BY <1>1, LeastExists, ProcessAssumption, Zenon
<1> QED BY <1>1, <1>2 DEF IInv, ListedAreChildren, Zombies

\* process.exit() moves the children of p to init in both records.
LEMMA ReparentKeepsFamily ==
    ASSUME IInv, NEW p \in Tids, Reparent(p)
    PROVE  /\ state' \in [Procs -> {"none", "live", "zombie", "freed"}]
           /\ parent' \in [Tids -> Procs]
           /\ children' \in [Procs -> SUBSET Tids]
           /\ FamilyConsistent'
<1> USE ProcessAssumption DEF Procs
<1>1. state' \in [Procs -> {"none", "live", "zombie", "freed"}] /\ parent' \in [Tids -> Procs]
  BY DEF IInv, ProcessTypeOK, Reparent
<1>2. children' \in [Procs -> SUBSET Tids]
  BY DEF IInv, ProcessTypeOK, Reparent
<1>3. FamilyConsistent'
  <2> SUFFICES ASSUME NEW c \in Tids, NEW q \in Procs
               PROVE  c \in children'[q] <=> state'[c] \in {"live", "zombie"} /\ parent'[c] = q
    BY Zenon DEF FamilyConsistent
  <2>1. state'[c] \in {"live", "zombie"} <=> state[c] \in {"live", "zombie"}
    BY DEF IInv, ProcessTypeOK, Reparent
  <2>2. c \in children[p] <=> state[c] \in {"live", "zombie"} /\ parent[c] = p
    BY DEF IInv, FamilyConsistent
  <2>3. c \in children[q] <=> state[c] \in {"live", "zombie"} /\ parent[c] = q
    BY DEF IInv, FamilyConsistent
  <2>4. parent'[c] = IF c \in children[p] THEN Init0 ELSE parent[c]
    BY DEF Reparent
  <2>5. children'[q] = IF q = Init0 THEN children[q] \cup children[p]
                       ELSE IF q = p THEN {} ELSE children[q]
    BY Zenon DEF IInv, ProcessTypeOK, Reparent
  <2> QED BY <2>1, <2>2, <2>3, <2>4, <2>5
<1> QED BY <1>1, <1>2, <1>3

\* It takes no listed child away from a thread that waits: the process that exits
\* has no thread left, so the waiting thread is of another one.
LEMMA ReparentKeepsListed ==
    ASSUME IInv, NEW p \in Tids, Reparent(p), threads[p] = {},
           NEW t \in Tids, NEW l, l \notin {"scan", "enter", "asleep"}, Goto(t, l),
           UNCHANGED <<snap, of>>
    PROVE  ListedAreChildren'
<1> SUFFICES ASSUME NEW u \in Tids, NEW c \in Tids,
                    pc'[u] \in {"scan", "enter", "asleep"}, c \in snap'[u]
             PROVE  parent'[c] = of'[u] /\ state'[c] # "none"
  BY DEF ListedAreChildren
<1>1. pc[u] \in {"scan", "enter", "asleep"} /\ c \in snap[u] /\ of'[u] = of[u]
  BY DEF Goto, IInv, ProcessTypeOK
<1>2. parent[c] = of[u] /\ state[c] # "none"
  BY <1>1 DEF IInv, ListedAreChildren
<1>3. u \in threads[of[u]]
  BY <1>1 DEF IInv, ThreadsInside, Inside, ProcessTypeOK
<1>4. c \notin children[p]
  BY <1>2, <1>3, ProcessAssumption DEF IInv, FamilyConsistent, Procs
<1>5. parent'[c] = parent[c]
  BY <1>4 DEF Reparent
<1>6. state'[c] # "none"
  BY <1>2, ProcessAssumption DEF Reparent, IInv, ProcessTypeOK, Procs
<1> QED BY <1>1, <1>2, <1>5, <1>6

\* Every initial state satisfies the invariant.
LEMMA InitIInv == Init => IInv
<1> SUFFICES ASSUME Init PROVE IInv
  OBVIOUS
<1> USE ProcessAssumption DEF Init, Procs, Inside, Closing
<1>1. ProcessTypeOK
  BY DEF ProcessTypeOK
<1>2. ThreadsInside /\ FreshIds /\ StateFollowsThreads /\ OneCloses /\ ListedAreChildren
  BY DEF ThreadsInside, FreshIds, StateFollowsThreads, OneCloses, ListedAreChildren
<1>3. FamilyConsistent /\ ZombieHasNoThreads /\ ExitIsSignalled
  BY DEF FamilyConsistent, ZombieHasNoThreads, ExitIsSignalled
<1> QED BY <1>1, <1>2, <1>3 DEF IInv

\* A new thread joins a process that has a thread, the caller, so nobody closes it.
LEMMA CloneThreadKeeps ==
    ASSUME IInv, NEW t \in Tids, NEW u \in Tids, CloneThread(t, u)
    PROVE  IInv'
<1> USE ProcessAssumption DEF Procs, Inside, Closing, CloneThread, NextId, Goto, tree
<1>1. ProcessTypeOK'
  BY Zenon DEF IInv, ProcessTypeOK
<1>2. ThreadsInside'
  BY DEF IInv, ProcessTypeOK, ThreadsInside, FreshIds
<1>3. FreshIds'
  BY DEF IInv, ProcessTypeOK, FreshIds, StateFollowsThreads
<1>4. StateFollowsThreads'
  <2> SUFFICES ASSUME NEW v \in Tids
               PROVE  /\ pc'[v] \in Inside => state'[of'[v]] = "live"
                      /\ pc'[v] = "zombie" => state'[of'[v]] = "live"
                      /\ pc'[v] \in {"notify", "clear"} => state'[of'[v]] \in {"zombie", "freed"}
                      /\ pc'[v] \in Closing => threads'[of'[v]] = {}
    BY DEF StateFollowsThreads
  <2>1. CASE v = u
    BY <2>1 DEF IInv, ProcessTypeOK, StateFollowsThreads
  <2>2. CASE v # u
    <3>1. of'[v] = of[v] /\ pc'[v] = pc[v] /\ of[v] \in Tids
      BY <2>2 DEF IInv, ProcessTypeOK
    <3>2. t \in threads[of[t]]
      <4>1. of[t] \in Tids /\ pc[t] \in Inside
        BY Zenon DEF IInv, ProcessTypeOK
      <4> QED BY <4>1, Zenon DEF IInv, ThreadsInside
    <3>3. pc[v] \in Closing => threads[of[v]] = {} /\ of[v] # of[t]
      BY <3>2 DEF IInv, StateFollowsThreads
    <3>4. pc[v] \in Closing => threads'[of[v]] = {}
      BY <3>1, <3>3 DEF IInv, ProcessTypeOK
    <3> QED BY <3>1, <3>4 DEF IInv, StateFollowsThreads
  <2> QED BY <2>1, <2>2
<1>5. OneCloses'
  BY DEF IInv, ProcessTypeOK, OneCloses, StateFollowsThreads, ThreadsInside
<1>6. ListedAreChildren'
  BY DEF IInv, ProcessTypeOK, ListedAreChildren, FreshIds
<1>7. FamilyConsistent'
  BY DEF IInv, ProcessTypeOK, FamilyConsistent, FreshIds
<1>8. ZombieHasNoThreads'
  BY DEF IInv, ProcessTypeOK, ZombieHasNoThreads, FreshIds, ThreadsInside, StateFollowsThreads
<1>9. ExitIsSignalled'
  BY DEF IInv, ProcessTypeOK, ExitIsSignalled, FreshIds, StateFollowsThreads, FamilyConsistent
<1> QED BY <1>1, <1>2, <1>3, <1>4, <1>5, <1>6, <1>7, <1>8, <1>9 DEF IInv

\* The choice of a parent changes only where the caller is.
LEMMA CloneProcessKeeps ==
    ASSUME IInv, NEW t \in Tids, NEW sibling \in BOOLEAN, CloneProcess(t, sibling)
    PROVE  IInv'
<1> USE ProcessAssumption DEF Procs, Inside, Closing, CloneProcess, Goto, pvars
<1>1. ProcessTypeOK'
  BY Zenon DEF IInv, ProcessTypeOK
<1>2. ThreadsInside'
  BY DEF IInv, ProcessTypeOK, ThreadsInside, FreshIds
<1>3. FreshIds'
  BY DEF IInv, ProcessTypeOK, FreshIds, StateFollowsThreads
<1>4. StateFollowsThreads'
  BY DEF IInv, ProcessTypeOK, StateFollowsThreads, FreshIds, ThreadsInside
<1>5. OneCloses'
  BY DEF IInv, ProcessTypeOK, OneCloses, StateFollowsThreads, ThreadsInside
<1>6. ListedAreChildren'
  BY DEF IInv, ProcessTypeOK, ListedAreChildren, FreshIds
<1>7. FamilyConsistent'
  BY DEF IInv, ProcessTypeOK, FamilyConsistent, FreshIds
<1>8. ZombieHasNoThreads'
  BY DEF IInv, ProcessTypeOK, ZombieHasNoThreads, FreshIds, ThreadsInside, StateFollowsThreads
<1>9. ExitIsSignalled'
  BY DEF IInv, ProcessTypeOK, ExitIsSignalled, FreshIds, StateFollowsThreads, FamilyConsistent
<1> QED BY <1>1, <1>2, <1>3, <1>4, <1>5, <1>6, <1>7, <1>8, <1>9 DEF IInv

\* A new process has an id that nobody knows yet.
LEMMA ForkBuildKeeps ==
    ASSUME IInv, NEW t \in Tids, NEW u \in Tids, NEW cc \in BOOLEAN, ForkBuild(t, u, cc)
    PROVE  IInv'
<1> USE ProcessAssumption DEF Procs, Inside, Closing, ForkBuild, NextId
<1>1. ProcessTypeOK'
  BY Zenon DEF IInv, ProcessTypeOK
<1>2. ThreadsInside'
  BY DEF IInv, ProcessTypeOK, ThreadsInside, FreshIds
<1>3. FreshIds'
  BY DEF IInv, ProcessTypeOK, FreshIds, StateFollowsThreads
<1>4. StateFollowsThreads'
  BY DEF IInv, ProcessTypeOK, StateFollowsThreads, FreshIds, ThreadsInside
<1>5. OneCloses'
  BY DEF IInv, ProcessTypeOK, OneCloses, StateFollowsThreads, ThreadsInside
<1>6. ListedAreChildren'
  BY DEF IInv, ProcessTypeOK, ListedAreChildren, FreshIds
<1>7. FamilyConsistent'
  BY DEF IInv, ProcessTypeOK, FamilyConsistent, FreshIds
<1>8. ZombieHasNoThreads'
  BY DEF IInv, ProcessTypeOK, ZombieHasNoThreads, FreshIds, ThreadsInside, StateFollowsThreads
<1>9. ExitIsSignalled'
  BY DEF IInv, ProcessTypeOK, ExitIsSignalled, FreshIds, StateFollowsThreads, FamilyConsistent
<1> QED BY <1>1, <1>2, <1>3, <1>4, <1>5, <1>6, <1>7, <1>8, <1>9, SMTT(40) DEF IInv

\* A thread leaves its group; the last one goes on to close the process.
LEMMA ThreadExitKeeps ==
    ASSUME IInv, NEW t \in Tids, NEW code \in Nat, NEW g \in BOOLEAN, ThreadExit(t, code, g)
    PROVE  IInv'
<1> USE ProcessAssumption DEF Procs, Inside, Closing, ThreadExit, Goto, tree
<1>1. ProcessTypeOK'
  BY Zenon DEF IInv, ProcessTypeOK
<1>2. ThreadsInside'
  BY DEF IInv, ProcessTypeOK, ThreadsInside, FreshIds
<1>3. FreshIds'
  BY DEF IInv, ProcessTypeOK, FreshIds, StateFollowsThreads
<1>4. StateFollowsThreads'
  BY DEF IInv, ProcessTypeOK, StateFollowsThreads, FreshIds, ThreadsInside
<1>5. OneCloses'
  <2>1. of[t] \in Tids /\ pc[t] = "run" /\ pc' = [pc EXCEPT ![t] = pc'[t]]
    BY DEF IInv, ProcessTypeOK
  <2>2. t \in threads[of[t]]
    BY <2>1 DEF IInv, ThreadsInside
  <2>3. \A u \in Tids : of[u] = of[t] => pc[u] \notin Closing
    BY <2>2 DEF IInv, StateFollowsThreads
  <2>4. \A u \in Tids \ {t} : pc'[u] = pc[u]
    BY DEF IInv, ProcessTypeOK
  <2> QED BY <2>3, <2>4 DEF IInv, OneCloses
<1>6. ListedAreChildren'
  BY DEF IInv, ProcessTypeOK, ListedAreChildren, FreshIds
<1>7. FamilyConsistent'
  BY DEF IInv, ProcessTypeOK, FamilyConsistent, FreshIds
<1>8. ZombieHasNoThreads'
  BY SMTT(40) DEF IInv, ProcessTypeOK, ZombieHasNoThreads, FreshIds, ThreadsInside, StateFollowsThreads
<1>9. ExitIsSignalled'
  BY SMTT(40) DEF IInv, ProcessTypeOK, ExitIsSignalled, FreshIds, StateFollowsThreads, FamilyConsistent
<1> QED BY <1>1, <1>2, <1>3, <1>4, <1>5, <1>6, <1>7, <1>8, <1>9 DEF IInv

\* The thread that closes the process makes it a zombie, and is about to tell the
\* parent.
LEMMA ProcessExitKeeps ==
    ASSUME IInv, NEW t \in Tids, ProcessExit(t)
    PROVE  IInv'
<1> USE ProcessAssumption DEF Procs, Inside, Closing, ProcessExit, Goto, locals, rest
<1>1. state[of[t]] = "live" /\ threads[of[t]] = {} /\ of[t] \in Tids
  BY DEF IInv, ProcessTypeOK, StateFollowsThreads
<1>2. state' = [state EXCEPT ![of[t]] = "zombie"]
  BY <1>1 DEF Reparent
<1>3. ProcessTypeOK' /\ FamilyConsistent'
  BY <1>1, ReparentKeepsFamily, Zenon DEF IInv, ProcessTypeOK
<1>4. ThreadsInside'
  BY DEF IInv, ProcessTypeOK, ThreadsInside
<1>5. FreshIds'
  BY <1>1, <1>2 DEF IInv, ProcessTypeOK, FreshIds
<1>6. OneCloses'
  BY DEF IInv, ProcessTypeOK, OneCloses
<1>7. StateFollowsThreads'
  <2>1. \A u \in Tids \ {t} : of[u] = of[t] => pc[u] \notin Inside \cup {"zombie"}
    BY <1>1 DEF IInv, ThreadsInside, OneCloses
  <2>2. /\ pc'[t] = "notify" /\ state'[of[t]] = "zombie"
        /\ \A u \in Tids \ {t} : pc'[u] = pc[u]
        /\ \A u \in Tids : of[u] # of[t] => state'[of[u]] = state[of[u]]
    BY <1>1, <1>2 DEF IInv, ProcessTypeOK
  <2> QED BY <1>1, <2>1, <2>2 DEF IInv, ProcessTypeOK, StateFollowsThreads
<1>8. ListedAreChildren'
  BY <1>1, ReparentKeepsListed, Zenon
<1>9. ZombieHasNoThreads'
  BY <1>1, <1>2 DEF IInv, ProcessTypeOK, ZombieHasNoThreads
<1>10. \A c \in Tids : parent'[c] # Init0 => parent'[c] = parent[c]
  BY DEF Reparent
<1>11. ExitIsSignalled'
  BY <1>1, <1>2, <1>10 DEF IInv, ProcessTypeOK, ExitIsSignalled
<1> QED BY <1>1, <1>2, <1>3, <1>4, <1>5, <1>6, <1>7, <1>8, <1>9, <1>10, <1>11, SMTT(40) DEF IInv

\* The parent is told, and those who sleep in its child_exit_wq scan again.
LEMMA ExitNotifyKeeps ==
    ASSUME IInv, NEW t \in Tids, ExitNotify(t)
    PROVE  IInv'
<1> USE ProcessAssumption DEF Procs, Inside, Closing, ExitNotify, NotifyAll, locals, tree
<1>1. ProcessTypeOK'
  BY DEF IInv, ProcessTypeOK
<1>2. ThreadsInside'
  BY DEF IInv, ProcessTypeOK, ThreadsInside, FreshIds
<1>3. FreshIds'
  BY SMTT(40) DEF IInv, ProcessTypeOK, FreshIds, StateFollowsThreads
<1>4. StateFollowsThreads'
  BY DEF IInv, ProcessTypeOK, StateFollowsThreads, FreshIds, ThreadsInside
<1>5. OneCloses'
  BY DEF IInv, ProcessTypeOK, OneCloses, StateFollowsThreads, ThreadsInside
<1>6. ListedAreChildren'
  BY DEF IInv, ProcessTypeOK, ListedAreChildren, FreshIds
<1>7. FamilyConsistent'
  BY DEF IInv, ProcessTypeOK, FamilyConsistent, FreshIds
<1>8. ZombieHasNoThreads'
  BY DEF IInv, ProcessTypeOK, ZombieHasNoThreads, FreshIds, ThreadsInside, StateFollowsThreads
<1>9. ExitIsSignalled'
  BY DEF IInv, ProcessTypeOK, ExitIsSignalled, FreshIds, StateFollowsThreads, FamilyConsistent
<1> QED BY <1>1, <1>2, <1>3, <1>4, <1>5, <1>6, <1>7, <1>8, <1>9, SMTT(40) DEF IInv

\* The second process.exit() finds a zombie, or a process that was freed already.
LEMMA ExitAgainKeeps ==
    ASSUME IInv, NEW t \in Tids, ExitAgain(t)
    PROVE  IInv'
<1> USE ProcessAssumption DEF Procs, Inside, Closing, ExitAgain, Goto, locals, rest
<1>1. state[of[t]] \in {"zombie", "freed"} /\ threads[of[t]] = {} /\ of[t] \in Tids
  BY DEF IInv, ProcessTypeOK, StateFollowsThreads
<1>2. state' = state
  BY <1>1 DEF Reparent, IInv, ProcessTypeOK
<1>3. ProcessTypeOK' /\ FamilyConsistent'
  BY <1>1, ReparentKeepsFamily, Zenon DEF IInv, ProcessTypeOK
<1>4. ThreadsInside'
  BY DEF IInv, ProcessTypeOK, ThreadsInside
<1>5. FreshIds'
  BY <1>1, <1>2 DEF IInv, ProcessTypeOK, FreshIds
<1>6. OneCloses'
  BY DEF IInv, ProcessTypeOK, OneCloses
<1>7. StateFollowsThreads'
  BY <1>1, <1>2 DEF IInv, ProcessTypeOK, StateFollowsThreads
<1>8. ListedAreChildren'
  BY <1>1, ReparentKeepsListed, Zenon
<1>9. ZombieHasNoThreads'
  BY <1>1, <1>2 DEF IInv, ProcessTypeOK, ZombieHasNoThreads
<1>10. \A c \in Tids : parent'[c] # Init0 => parent'[c] = parent[c]
  BY DEF Reparent
<1>11. ExitIsSignalled'
  BY <1>1, <1>2, <1>10 DEF IInv, ProcessTypeOK, ExitIsSignalled
<1> QED BY <1>1, <1>2, <1>3, <1>4, <1>5, <1>6, <1>7, <1>8, <1>9, <1>10, <1>11 DEF IInv

\* A group exit only marks the process and its threads.
LEMMA GroupExitKeeps ==
    ASSUME IInv, NEW t \in Tids, GroupExit(t)
    PROVE  IInv'
<1> USE ProcessAssumption DEF Procs, Inside, Closing, GroupExit, Goto, tree
<1>1. ProcessTypeOK'
  BY DEF IInv, ProcessTypeOK
<1>2. ThreadsInside'
  BY DEF IInv, ProcessTypeOK, ThreadsInside, FreshIds
<1>3. FreshIds'
  BY DEF IInv, ProcessTypeOK, FreshIds, StateFollowsThreads
<1>4. StateFollowsThreads'
  BY DEF IInv, ProcessTypeOK, StateFollowsThreads, FreshIds, ThreadsInside
<1>5. OneCloses'
  BY DEF IInv, ProcessTypeOK, OneCloses, StateFollowsThreads, ThreadsInside
<1>6. ListedAreChildren'
  BY DEF IInv, ProcessTypeOK, ListedAreChildren, FreshIds
<1>7. FamilyConsistent'
  BY DEF IInv, ProcessTypeOK, FamilyConsistent, FreshIds
<1>8. ZombieHasNoThreads'
  BY DEF IInv, ProcessTypeOK, ZombieHasNoThreads, FreshIds, ThreadsInside, StateFollowsThreads
<1>9. ExitIsSignalled'
  BY DEF IInv, ProcessTypeOK, ExitIsSignalled, FreshIds, StateFollowsThreads, FamilyConsistent
<1> QED BY <1>1, <1>2, <1>3, <1>4, <1>5, <1>6, <1>7, <1>8, <1>9 DEF IInv

\* A SIGKILL is only marked.
LEMMA KillKeeps ==
    ASSUME IInv, NEW t \in Tids, NEW p \in Tids, Kill(t, p)
    PROVE  IInv'
<1> USE ProcessAssumption DEF Procs, Inside, Closing, Kill, tvars, tree
<1>1. ProcessTypeOK'
  BY DEF IInv, ProcessTypeOK
<1>2. ThreadsInside'
  BY DEF IInv, ProcessTypeOK, ThreadsInside, FreshIds
<1>3. FreshIds'
  BY DEF IInv, ProcessTypeOK, FreshIds, StateFollowsThreads
<1>4. StateFollowsThreads'
  BY DEF IInv, ProcessTypeOK, StateFollowsThreads, FreshIds, ThreadsInside
<1>5. OneCloses'
  BY DEF IInv, ProcessTypeOK, OneCloses, StateFollowsThreads, ThreadsInside
<1>6. ListedAreChildren'
  BY DEF IInv, ProcessTypeOK, ListedAreChildren, FreshIds
<1>7. FamilyConsistent'
  BY DEF IInv, ProcessTypeOK, FamilyConsistent, FreshIds
<1>8. ZombieHasNoThreads'
  BY DEF IInv, ProcessTypeOK, ZombieHasNoThreads, FreshIds, ThreadsInside, StateFollowsThreads
<1>9. ExitIsSignalled'
  BY DEF IInv, ProcessTypeOK, ExitIsSignalled, FreshIds, StateFollowsThreads, FamilyConsistent
<1> QED BY <1>1, <1>2, <1>3, <1>4, <1>5, <1>6, <1>7, <1>8, <1>9 DEF IInv

\* waitpid lists children of the caller's process.
LEMMA WaitpidKeeps ==
    ASSUME IInv, NEW t \in Tids, NEW which, NEW kind,
           NEW wait \in BOOLEAN, NEW hang \in BOOLEAN, Waitpid(t, which, kind, wait, hang)
    PROVE  IInv'
<1> USE ProcessAssumption DEF Procs, Inside, Closing, Waitpid, Goto, pvars
<1>1. ProcessTypeOK'
  BY Zenon DEF IInv, ProcessTypeOK
<1>2. ThreadsInside'
  BY DEF IInv, ProcessTypeOK, ThreadsInside, FreshIds
<1>3. FreshIds'
  BY DEF IInv, ProcessTypeOK, FreshIds, StateFollowsThreads
<1>4. StateFollowsThreads'
  BY DEF IInv, ProcessTypeOK, StateFollowsThreads, FreshIds, ThreadsInside
<1>5. OneCloses'
  BY DEF IInv, ProcessTypeOK, OneCloses, StateFollowsThreads, ThreadsInside
<1>6. ListedAreChildren'
  <2>1. snap'[t] \subseteq children[of[t]] /\ of[t] \in Procs
    BY DEF IInv, ProcessTypeOK
  <2>2. \A c \in snap'[t] : parent[c] = of[t] /\ state[c] # "none"
    BY <2>1, Zenon DEF IInv, ProcessTypeOK, FamilyConsistent
  <2>3. \A u \in Tids \ {t} : snap'[u] = snap[u] /\ pc'[u] = pc[u]
    BY DEF IInv, ProcessTypeOK
  <2> QED BY <2>2, <2>3 DEF IInv, ListedAreChildren
<1>7. FamilyConsistent'
  BY DEF IInv, ProcessTypeOK, FamilyConsistent, FreshIds
<1>8. ZombieHasNoThreads'
  BY DEF IInv, ProcessTypeOK, ZombieHasNoThreads, FreshIds, ThreadsInside, StateFollowsThreads
<1>9. ExitIsSignalled'
  BY DEF IInv, ProcessTypeOK, ExitIsSignalled, FreshIds, StateFollowsThreads, FamilyConsistent
<1> QED BY <1>1, <1>2, <1>3, <1>4, <1>5, <1>6, <1>7, <1>8, <1>9 DEF IInv

\* A reaped child leaves the children of its parent, and is freed.
LEMMA ReapKeeps ==
    ASSUME IInv, NEW t \in Tids, Reap(t)
    PROVE  IInv'
<1> USE ProcessAssumption DEF Procs, Inside, Closing
<1>1. PICK c \in Tids :
        /\ state[c] \in {"zombie", "freed"} /\ parent[c] = of[t]
        /\ \/ UNCHANGED <<state, children>>
           \/ /\ state' = [state EXCEPT ![c] = "freed"]
              /\ children' = [children EXCEPT ![parent[c]] = @ \ {c}]
  BY ReapedChild, Zenon DEF Reap
<1>2. /\ pc[t] = "scan" /\ pc' = [pc EXCEPT ![t] = "run"]
      /\ snap' = [snap EXCEPT ![t] = {}]
      /\ UNCHANGED <<of, other, parent, threads, exit_code, cloned, sent>>
  BY DEF Reap, Goto, rest
<1>3. ProcessTypeOK'
  BY <1>1, <1>2 DEF IInv, ProcessTypeOK
<1>4. \A p \in Tids : /\ \/ state'[p] = state[p]
                         \/ state[p] \in {"zombie", "freed"} /\ state'[p] = "freed"
                      /\ state'[p] = "none" <=> state[p] = "none"
                      /\ state'[p] = "live" <=> state[p] = "live"
                      /\ state'[p] = "zombie" => state[p] = "zombie"
  <2>1. state' = state \/ state' = [state EXCEPT ![c] = "freed"]
    BY <1>1
  <2>2. \A p \in Tids : state'[p] = state[p] \/ (p = c /\ state'[p] = "freed")
    BY <2>1 DEF IInv, ProcessTypeOK
  <2>3. state[c] \in {"zombie", "freed"}
    BY <1>1
  <2> QED BY <2>2, <2>3
<1>5. ThreadsInside' /\ OneCloses'
  BY <1>2 DEF IInv, ProcessTypeOK, ThreadsInside, OneCloses
<1>6. FreshIds'
  <2>1. UNCHANGED of /\ of \in [Tids -> Tids]
    BY <1>2 DEF IInv, ProcessTypeOK
  <2>2. \A u \in Tids : pc'[u] = "none" <=> pc[u] = "none"
    BY <1>2 DEF IInv, ProcessTypeOK
  <2> QED BY <1>4, <2>1, <2>2, Zenon DEF IInv, FreshIds
<1>7. StateFollowsThreads'
  BY <1>2, <1>4, Zenon DEF IInv, ProcessTypeOK, StateFollowsThreads
<1>8. ListedAreChildren'
  BY <1>2, <1>4 DEF IInv, ProcessTypeOK, ListedAreChildren
<1>9. FamilyConsistent'
  BY <1>1, <1>2 DEF IInv, ProcessTypeOK, FamilyConsistent
<1>10. ZombieHasNoThreads'
  BY <1>2, <1>4 DEF IInv, ProcessTypeOK, ZombieHasNoThreads
<1>11. ExitIsSignalled'
  BY <1>2, <1>4 DEF IInv, ProcessTypeOK, ExitIsSignalled
<1> QED BY <1>3, <1>5, <1>6, <1>7, <1>8, <1>9, <1>10, <1>11 DEF IInv

\* A call that finds no zombie returns, or goes on to sleep.
LEMMA NoZombieKeeps ==
    ASSUME IInv, NEW t \in Tids, NoZombie(t)
    PROVE  IInv'
<1> USE ProcessAssumption DEF Procs, Inside, Closing, NoZombie, Goto, pvars
<1>1. ProcessTypeOK'
  BY SMTT(40) DEF IInv, ProcessTypeOK
<1>2. ThreadsInside'
  BY DEF IInv, ProcessTypeOK, ThreadsInside, FreshIds
<1>3. FreshIds'
  BY DEF IInv, ProcessTypeOK, FreshIds, StateFollowsThreads
<1>4. StateFollowsThreads'
  BY DEF IInv, ProcessTypeOK, StateFollowsThreads, FreshIds, ThreadsInside
<1>5. OneCloses'
  BY DEF IInv, ProcessTypeOK, OneCloses, StateFollowsThreads, ThreadsInside
<1>6. ListedAreChildren'
  BY DEF IInv, ProcessTypeOK, ListedAreChildren, FreshIds
<1>7. FamilyConsistent'
  BY DEF IInv, ProcessTypeOK, FamilyConsistent, FreshIds
<1>8. ZombieHasNoThreads'
  BY DEF IInv, ProcessTypeOK, ZombieHasNoThreads, FreshIds, ThreadsInside, StateFollowsThreads
<1>9. ExitIsSignalled'
  BY DEF IInv, ProcessTypeOK, ExitIsSignalled, FreshIds, StateFollowsThreads, FamilyConsistent
<1> QED BY <1>1, <1>2, <1>3, <1>4, <1>5, <1>6, <1>7, <1>8, <1>9, SMTT(40) DEF IInv

\* Falling asleep changes only where the caller is.
LEMMA WaitEnterKeeps ==
    ASSUME IInv, NEW t \in Tids, WaitEnter(t)
    PROVE  IInv'
<1> USE ProcessAssumption DEF Procs, Inside, Closing, WaitEnter, Goto, locals, pvars
<1>1. ProcessTypeOK'
  BY DEF IInv, ProcessTypeOK
<1>2. ThreadsInside'
  BY DEF IInv, ProcessTypeOK, ThreadsInside, FreshIds
<1>3. FreshIds'
  BY DEF IInv, ProcessTypeOK, FreshIds, StateFollowsThreads
<1>4. StateFollowsThreads'
  BY DEF IInv, ProcessTypeOK, StateFollowsThreads, FreshIds, ThreadsInside
<1>5. OneCloses'
  BY DEF IInv, ProcessTypeOK, OneCloses, StateFollowsThreads, ThreadsInside
<1>6. ListedAreChildren'
  BY DEF IInv, ProcessTypeOK, ListedAreChildren, FreshIds
<1>7. FamilyConsistent'
  BY DEF IInv, ProcessTypeOK, FamilyConsistent, FreshIds
<1>8. ZombieHasNoThreads'
  BY DEF IInv, ProcessTypeOK, ZombieHasNoThreads, FreshIds, ThreadsInside, StateFollowsThreads
<1>9. ExitIsSignalled'
  BY DEF IInv, ProcessTypeOK, ExitIsSignalled, FreshIds, StateFollowsThreads, FamilyConsistent
<1> QED BY <1>1, <1>2, <1>3, <1>4, <1>5, <1>6, <1>7, <1>8, <1>9 DEF IInv

\* Every step preserves the invariant.
LEMMA NextIInv == IInv /\ [Next]_vars => IInv'
<1> SUFFICES ASSUME IInv, [Next]_vars PROVE IInv'
  BY SMTT(40)
<1>1. CASE UNCHANGED vars
  BY <1>1, SMTT(40) DEF vars, tvars, pvars, IInv, ProcessTypeOK, ThreadsInside, FreshIds,
              StateFollowsThreads, OneCloses, ListedAreChildren, FamilyConsistent,
              ZombieHasNoThreads, ExitIsSignalled
<1>2. ASSUME NEW t \in Tids, UserStep(t) PROVE IInv'
  <2>1. t \in Nat /\ KILLED \in Nat
    BY ProcessAssumption DEF KILLED
  <2>2. ASSUME NEW g \in BOOLEAN, Exit(t, g) PROVE IInv'
    BY <2>1, <2>2, ThreadExitKeeps DEF Exit
  <2>3. ASSUME DieOfSignal(t) PROVE IInv'
    BY <2>1, <2>3, ThreadExitKeeps, Zenon DEF DieOfSignal
  <2> QED BY <1>2, <2>2, <2>3, CloneThreadKeeps, CloneProcessKeeps, ForkBuildKeeps,
             KillKeeps, WaitpidKeeps, Zenon DEF UserStep
<1>3. ASSUME NEW t \in Tids, ExitStep(t) PROVE IInv'
  BY <1>3, ProcessExitKeeps, ExitNotifyKeeps, ExitAgainKeeps, GroupExitKeeps DEF ExitStep
<1>4. ASSUME NEW t \in Tids, WaitStep(t) PROVE IInv'
  BY <1>4, ReapKeeps, NoZombieKeeps, WaitEnterKeeps DEF WaitStep
<1> QED BY <1>1, <1>2, <1>3, <1>4 DEF Next

\* The invariant holds in every reachable state.
LEMMA AlwaysIInv == Spec => []IInv
BY InitIInv, NextIInv, PTL DEF Spec

\* Whatever clones, exits, kills and reaps race, each process that is not freed is
\* the child of exactly one other, becomes a zombie only after its last thread has
\* left, and its parent has been told of its exit or is about to be (exit.rs).
THEOREM FamilyAlwaysKept == Spec => []FamilyKept
<1>1. IInv => FamilyKept
  BY DEF IInv, FamilyKept
<1> QED BY <1>1, AlwaysIInv, PTL

\* What waitpid reports is final: a thread that exits later belongs to a process
\* that is still live, so no exit code of a zombie is overwritten.
THEOREM ExitCodeAlwaysFinal == Spec => ExitCodeFinal
<1> DEFINE Final == \A p \in Tids : state[p] \in {"zombie", "freed"} =>
                        /\ exit_code'[p] = exit_code[p]
                        /\ state'[p] = state[p] \/ state'[p] = "freed"
<1>1. IInv /\ [Next]_vars => [Final]_vars
  <2> SUFFICES ASSUME IInv, Next, NEW p \in Tids, state[p] \in {"zombie", "freed"}
               PROVE  /\ exit_code'[p] = exit_code[p]
                      /\ state'[p] = state[p] \/ state'[p] = "freed"
    OBVIOUS
  <2> USE ProcessAssumption DEF IInv, ProcessTypeOK, Procs
  <2>1. ASSUME NEW t \in Tids, UserStep(t)
        PROVE  exit_code'[p] = exit_code[p] /\ state'[p] = state[p]
    <3>1. ASSUME NEW code, NEW g, ThreadExit(t, code, g)
          PROVE  exit_code'[p] = exit_code[p] /\ state'[p] = state[p]
      BY <3>1 DEF ThreadExit, tree, StateFollowsThreads, Inside
    <3>2. ASSUME NEW u \in Tids, NEW cc \in BOOLEAN, ForkBuild(t, u, cc)
          PROVE  exit_code'[p] = exit_code[p] /\ state'[p] = state[p]
      BY <3>2 DEF ForkBuild, NextId, FreshIds
    <3> QED BY <2>1, <3>1, <3>2, ZenonT(30)
            DEF UserStep, CloneThread, CloneProcess, Exit, DieOfSignal, Kill, Waitpid, tree, pvars
  <2>2. ASSUME NEW t \in Tids, ExitStep(t)
        PROVE  exit_code'[p] = exit_code[p] /\ state'[p] = state[p]
    BY <2>2 DEF ExitStep, ProcessExit, ExitNotify, ExitAgain, GroupExit, Reparent, tree, rest
  <2>3. ASSUME NEW t \in Tids, Reap(t)
        PROVE  exit_code'[p] = exit_code[p] /\ (state'[p] = state[p] \/ state'[p] = "freed")
    BY <2>3, Zenon DEF Reap, rest
  <2>4. ASSUME NEW t \in Tids, NoZombie(t) \/ WaitEnter(t)
        PROVE  exit_code'[p] = exit_code[p] /\ state'[p] = state[p]
    BY <2>4 DEF NoZombie, WaitEnter, pvars
  <2> QED BY <2>1, <2>2, <2>3, <2>4 DEF Next, WaitStep
<1> QED BY <1>1, AlwaysIInv, PTL DEF Spec, ExitCodeFinal

\* The exit of a child wakes every thread that sleeps for it, which then finds a
\* zombie: a listed child is still the caller's when it exits, since only the exit
\* of the caller's whole process gives it away.
THEOREM WaiterAlwaysWoken == Spec => WaiterWoken
<1> DEFINE Woken == \A t, u \in Tids :
            pc[t] = "notify" /\ pc'[t] # "notify" /\ pc[u] = "asleep" /\ of[t] \in snap[u] =>
                pc'[u] = "scan" /\ Zombies(snap[u])' # {}
<1>1. IInv /\ [Next]_vars => [Woken]_vars
  <2> SUFFICES ASSUME IInv, Next, NEW t \in Tids, NEW u \in Tids,
                      pc[t] = "notify", pc'[t] # "notify", pc[u] = "asleep", of[t] \in snap[u]
               PROVE  pc'[u] = "scan" /\ Zombies(snap[u])' # {}
    OBVIOUS
  <2> USE DEF IInv, ProcessTypeOK
  <2>1. ExitNotify(t)
    <3>1. ASSUME NEW v \in Tids, UserStep(v) PROVE FALSE
      <4>1. ASSUME NEW w \in Tids, CloneThread(v, w) PROVE FALSE
        BY <4>1, SMTT(40) DEF CloneThread, Goto, NextId
      <4>2. ASSUME NEW s \in BOOLEAN, CloneProcess(v, s) PROVE FALSE
        BY <4>2, SMTT(40) DEF CloneProcess, Goto
      <4>3. ASSUME NEW w \in Tids, NEW cc \in BOOLEAN, ForkBuild(v, w, cc) PROVE FALSE
        BY <4>3, SMTT(40) DEF ForkBuild, NextId
      <4>4. ASSUME NEW code, NEW g, ThreadExit(v, code, g) PROVE FALSE
        BY <4>4, SMTT(40) DEF ThreadExit, Goto
      <4>5. ASSUME NEW p \in Tids, Kill(v, p) PROVE FALSE
        BY <4>5, SMTT(40) DEF Kill, tvars
      <4>6. ASSUME NEW which, NEW kind, NEW wait, NEW hang, Waitpid(v, which, kind, wait, hang)
            PROVE  FALSE
        BY <4>6, SMTT(40) DEF Waitpid, Goto
      <4> QED BY <3>1, <4>1, <4>2, <4>3, <4>4, <4>5, <4>6, Zenon DEF UserStep, Exit, DieOfSignal
    <3>2. ASSUME NEW v \in Tids, WaitStep(v) PROVE FALSE
      BY <3>2 DEF WaitStep, Reap, NoZombie, WaitEnter, Goto
    <3>3. ASSUME NEW v \in Tids, ExitStep(v) PROVE v = t /\ ExitNotify(t)
      BY <3>3 DEF ExitStep, ProcessExit, ExitNotify, NotifyAll, ExitAgain, GroupExit, Goto
    <3> QED BY <3>1, <3>2, <3>3, SMTT(40) DEF Next
  <2>2. of[u] = parent[of[t]]
    BY DEF ListedAreChildren
  <2>3. pc'[u] = "scan"
    BY <2>1, <2>2 DEF ExitNotify, NotifyAll
  <2>4. state'[of[t]] \in {"zombie", "freed"} /\ snap'[u] = snap[u]
    BY <2>1 DEF ExitNotify, tree, locals, StateFollowsThreads
  <2> QED BY <2>3, <2>4, Zenon DEF Zombies
<1> QED BY <1>1, AlwaysIInv, PTL DEF Spec, WaiterWoken
=============================================================================
