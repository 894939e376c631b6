------------------------------- MODULE Pthread ------------------------------
(***************************************************************************)
(* POSIX threads of arceos_posix_api: the table TID_TO_PTHREAD, the packet *)
(* that carries a thread's return value, create, self, exit and join.      *)
(* Thread 0 is the main thread; a new thread runs from spawn() on, on any  *)
(* CPU, while its creator is still inside pthread_create().                *)
(***************************************************************************)
EXTENDS Integers, FiniteSets

CONSTANTS
    MaxThread,  \* bound: threads created
    RetVals,    \* values passed to pthread_exit() or returned
    NullVal     \* a null pointer

Tids == 0..MaxThread

VARIABLES
    ptPc,      \* stage of each thread
    ptTable,   \* TID_TO_PTHREAD: the threads it knows
    ptHandle,  \* threads whose Pthread box is alive
    ptKnown,   \* handles pthread_create() has handed out
    packet,    \* the packet of each thread
    passed,    \* what each thread passed on as its value
    joined,    \* what join returned for each thread
    peer       \* the thread being created or joined

ptVars == <<ptPc, ptTable, ptHandle, ptKnown, packet, passed, joined, peer>>

None == "none"

PtInit ==
    /\ ptPc = [t \in Tids |-> IF t = 0 THEN "run" ELSE "new"]
    /\ ptTable = {0}
    /\ ptHandle = {0}
    /\ ptKnown = {}
    /\ packet = [t \in Tids |-> NullVal]
    /\ passed = [t \in Tids |-> None]
    /\ joined = [t \in Tids |-> None]
    /\ peer = [t \in Tids |-> 0]

PtGoto(t, s) == ptPc' = [ptPc EXCEPT ![t] = s]

(* Pthread::create(): packet and task are made and the task is runnable... *)
PtSpawn(t) ==
    /\ ptPc[t] = "run"
    /\ \E c \in Tids :
           /\ ptPc[c] = "new" /\ \A d \in Tids : ptPc[d] = "new" => c <= d
           /\ ptPc' = [ptPc EXCEPT ![t] = "insert", ![c] = "run"]
           /\ peer' = [peer EXCEPT ![t] = c]
    /\ UNCHANGED <<ptTable, ptHandle, ptKnown, packet, passed, joined>>

(* ... before the box is made and the table told of it.                    *)
PtInsert(t) ==
    /\ ptPc[t] = "insert"
    /\ ptHandle' = ptHandle \cup {peer[t]}
    /\ ptTable' = ptTable \cup {peer[t]}
    /\ ptKnown' = ptKnown \cup {peer[t]}
    /\ PtGoto(t, "run")
    /\ UNCHANGED <<packet, passed, joined, peer>>

(* pthread_self() expects to find the caller in the table; the call that   *)
(* finds it changes nothing.                                               *)
PtSelf(t) ==
    /\ ptPc[t] = "run"
    /\ t \notin ptTable
    /\ PtGoto(t, "panic")
    /\ UNCHANGED <<ptTable, ptHandle, ptKnown, packet, passed, joined, peer>>

(* exit_current(): stores the value through the table's entry, then the    *)
(* task exits.                                                             *)
PtExit(t, v) ==
    /\ ptPc[t] = "run"
    /\ t # 0
    /\ passed' = [passed EXCEPT ![t] = v]
    /\ IF t \in ptTable
       THEN packet' = [packet EXCEPT ![t] = v] /\ PtGoto(t, "stored")
       ELSE UNCHANGED packet /\ PtGoto(t, "panic")
    /\ UNCHANGED <<ptTable, ptHandle, ptKnown, joined, peer>>

(* The start routine returns: the closure stores the value in its own      *)
(* reference to the packet.                                                *)
PtReturn(t, v) ==
    /\ ptPc[t] = "run"
    /\ t # 0
    /\ passed' = [passed EXCEPT ![t] = v]
    /\ packet' = [packet EXCEPT ![t] = v]
    /\ PtGoto(t, "stored")
    /\ UNCHANGED <<ptTable, ptHandle, ptKnown, joined, peer>>

(* axtask::exit().                                                         *)
PtGone(t) ==
    /\ ptPc[t] = "stored"
    /\ PtGoto(t, "gone")
    /\ UNCHANGED <<ptTable, ptHandle, ptKnown, packet, passed, joined, peer>>

(* Pthread::join(): the caller's own handle is refused; the box is taken   *)
(* back.  A handle is joined once, as the interface requires.              *)
PtJoin(t, c) ==
    /\ ptPc[t] = "run"
    /\ c \in ptKnown /\ c \in ptHandle
    /\ c # t
    /\ \A d \in Tids : ptPc[d] \in {"joining", "joined"} => peer[d] # c
    /\ peer' = [peer EXCEPT ![t] = c]
    /\ PtGoto(t, "joining")
    /\ UNCHANGED <<ptTable, ptHandle, ptKnown, packet, passed, joined>>

MutPtJoined(t) ==
    /\ ptPc[t] = "joining"
    /\ joined' = [joined EXCEPT ![peer[t]] = packet[peer[t]]]
    /\ PtGoto(t, "joined")
    /\ UNCHANGED <<ptTable, ptHandle, ptKnown, packet, passed, peer>>

(* The task has exited: its value is read.                                 *)
PtJoined(t) ==
    /\ ptPc[t] = "joining"
    /\ ptPc[peer[t]] = "gone"
    /\ joined' = [joined EXCEPT ![peer[t]] = packet[peer[t]]]
    /\ PtGoto(t, "joined")
    /\ UNCHANGED <<ptTable, ptHandle, ptKnown, packet, passed, peer>>

(* The table forgets the thread and the box is dropped.                    *)
PtForget(t) ==
    /\ ptPc[t] = "joined"
    /\ ptTable' = ptTable \ {peer[t]}
    /\ ptHandle' = ptHandle \ {peer[t]}
    /\ PtGoto(t, "run")
    /\ UNCHANGED <<ptKnown, packet, passed, joined, peer>>

PtStep(t) ==
    \/ PtSpawn(t) \/ PtInsert(t) \/ PtSelf(t) \/ PtGone(t) \/ PtJoined(t) \/ PtForget(t)
    \/ \E v \in RetVals : PtExit(t, v) \/ PtReturn(t, v)
    \/ \E c \in Tids : PtJoin(t, c)

PtNext == \E t \in Tids : PtStep(t)

PtSpec == PtInit /\ [][PtNext]_ptVars

-----------------------------------------------------------------------------

(* pthread_join() returns the value the thread passed to pthread_exit() or *)
(* returned from its start routine, and no thread that can still look      *)
(* itself up has lost its entry or its box.                                *)
JoinGetsValue ==
    \A t \in Tids :
        /\ joined[t] # None => joined[t] = passed[t]
        /\ ptPc[t] = "run" /\ t \in ptKnown => t \in ptTable
        /\ ptTable \subseteq ptHandle

(* "Exits the current thread.  The value retval will be returned to the    *)
(* joiner": a thread that calls pthread_exit() is not stopped by a panic,  *)
(* even when its creator has not left pthread_create() yet.                *)
ExitReachesJoiner == \A t \in Tids : ptPc[t] # "panic"

=============================================================================
