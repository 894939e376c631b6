------------------------------ MODULE UserMem -------------------------------
(***************************************************************************)
(* The kernel's access to user memory: UserPtr and UserConstPtr check a    *)
(* region or look for a terminator page by page, the latter with page      *)
(* faults allowed through the per-CPU flag ACCESSING_USER_MEM.             *)
(*                                                                         *)
(* The threads of one process share its address space and the sleeping     *)
(* mutex around it.  A thread that has to wait for the mutex gives up its  *)
(* CPU and may go on on another one.                                       *)
(***************************************************************************)
EXTENDS Integers, FiniteSets

CONSTANTS
    UThreads, UCpus,
    Words,        \* words of user memory
    PAGE_WORDS,   \* words to a page
    Zeros,        \* words that hold the terminator
    StrStarts, Regions,  \* arguments: string addresses, <<start, length>> pairs
    MaxUnmaps     \* bound: munmap() calls

NoCpu == "none"
Nobody == "nobody"
PageOf(w) == w \div PAGE_WORDS
UPages == {PageOf(w) : w \in Words}

VARIABLES
    readable,    \* pages in a readable area
    present,     \* pages with a page table entry
    aspace,      \* holder of the mutex
    accessing,   \* ACCESSING_USER_MEM of each CPU
    uCpu, uPc,   \* CPU and stage of each thread
    flagCpu,     \* the CPU whose flag the thread's scope set
    uStart, uLen, uPage,  \* start, len and page of check_null_terminated()
    uRet,        \* result of the last call
    lost,        \* pages unreadable at some time since the thread's call began
    unmaps

uVars == <<readable, present, aspace, accessing, uCpu, uPc, flagCpu, uStart, uLen, uPage, uRet, lost, unmaps>>

EFAULT == -1
Pending == -2

UInit ==
    /\ readable \in SUBSET UPages /\ present \in SUBSET readable
    /\ aspace = Nobody
    /\ accessing = [c \in UCpus |-> FALSE]
    /\ uCpu = [t \in UThreads |-> NoCpu]
    /\ uPc = [t \in UThreads |-> "out"]
    /\ flagCpu = [t \in UThreads |-> NoCpu]
    /\ uStart = [t \in UThreads |-> 0]
    /\ uLen = [t \in UThreads |-> 0]
    /\ uPage = [t \in UThreads |-> 0]
    /\ uRet = [t \in UThreads |-> Pending]
    /\ lost = [t \in UThreads |-> {}]
    /\ unmaps = 0

Running(t) == uCpu[t] # NoCpu
UGoto(t, s) == uPc' = [uPc EXCEPT ![t] = s]

(* A runnable thread gets a free CPU, any of them: select_run_queue() does *)
(* not keep a woken thread where it was.                                   *)
Dispatch(t, c) ==
    /\ ~Running(t) /\ uPc[t] \notin {"killed", "panic"}
    /\ \A u \in UThreads : uCpu[u] # c
    /\ uPc[t] \in {"page", "fault", "region"} => aspace = Nobody
    /\ uCpu' = [uCpu EXCEPT ![t] = c]
    /\ UNCHANGED <<readable, present, aspace, accessing, uPc, flagCpu, uStart, uLen, uPage, uRet, lost, unmaps>>

(* Mutex::lock() of a mutex that is taken.                                 *)
Block(t) ==
    /\ Running(t) /\ uPc[t] \in {"page", "fault", "region"}
    /\ aspace # Nobody
    /\ uCpu' = [uCpu EXCEPT ![t] = NoCpu]
    /\ UNCHANGED <<readable, present, aspace, accessing, uPc, flagCpu, uStart, uLen, uPage, uRet, lost, unmaps>>

(* A thread sleeps in some other system call, or yields.                   *)
Leave(t) ==
    /\ Running(t) /\ uPc[t] = "out"
    /\ uCpu' = [uCpu EXCEPT ![t] = NoCpu]
    /\ UNCHANGED <<readable, present, aspace, accessing, uPc, flagCpu, uStart, uLen, uPage, uRet, lost, unmaps>>

(* Another system call holds the mutex for a while, and may unmap a page.  *)
AspaceLock(t) ==
    /\ Running(t) /\ uPc[t] = "out" /\ aspace = Nobody
    /\ aspace' = t /\ UGoto(t, "holds")
    /\ UNCHANGED <<readable, present, accessing, uCpu, flagCpu, uStart, uLen, uPage, uRet, lost, unmaps>>

Munmap(t, p) ==
    /\ Running(t) /\ uPc[t] = "holds" /\ unmaps < MaxUnmaps /\ p \in readable
    /\ readable' = readable \ {p} /\ present' = present \ {p}
    /\ lost' = [u \in UThreads |-> lost[u] \cup {p}]
    /\ unmaps' = unmaps + 1
    /\ UNCHANGED <<aspace, accessing, uCpu, uPc, flagCpu, uStart, uLen, uPage, uRet>>

AspaceUnlock(t) ==
    /\ Running(t) /\ uPc[t] = "holds"
    /\ aspace' = Nobody /\ UGoto(t, "out")
    /\ UNCHANGED <<readable, present, accessing, uCpu, flagCpu, uStart, uLen, uPage, uRet, lost, unmaps>>

-----------------------------------------------------------------------------
(* get_as_ref(), get_as_slice() and their mutable forms.                   *)

GetRegion(t, r) ==
    /\ Running(t) /\ uPc[t] = "out"
    /\ UGoto(t, "region")
    /\ uStart' = [uStart EXCEPT ![t] = r[1]]
    /\ uLen' = [uLen EXCEPT ![t] = r[2]]
    /\ uRet' = [uRet EXCEPT ![t] = Pending]
    /\ flagCpu' = [flagCpu EXCEPT ![t] = NoCpu]
    /\ lost' = [lost EXCEPT ![t] = {}]
    /\ UNCHANGED <<readable, present, aspace, accessing, uCpu, uPage, unmaps>>

(* check_region(): the access is checked and the pages filled in under one *)
(* lock, so that the reference handed out does not fault.                  *)
CheckRegion(t) ==
    LET pages == {PageOf(w) : w \in uStart[t]..(uStart[t] + uLen[t] - 1)}
    IN  /\ Running(t) /\ uPc[t] = "region" /\ aspace = Nobody
        /\ IF pages \subseteq readable
           THEN /\ present' = present \cup pages
                /\ uRet' = [uRet EXCEPT ![t] = uLen[t]]
           ELSE /\ UNCHANGED present
                /\ uRet' = [uRet EXCEPT ![t] = EFAULT]
        /\ UGoto(t, "out")
        /\ UNCHANGED <<readable, aspace, accessing, uCpu, flagCpu, uStart, uLen, uPage, lost, unmaps>>

-----------------------------------------------------------------------------
(* get_as_null_terminated(), get_as_str(): access_user_memory() sets the   *)
(* flag of this CPU...                                                     *)
GetStr(t, s) ==
    /\ Running(t) /\ uPc[t] = "out"
    /\ UGoto(t, "page")
    /\ accessing' = [accessing EXCEPT ![uCpu[t]] = TRUE]
    /\ flagCpu' = [flagCpu EXCEPT ![t] = uCpu[t]]
    /\ uStart' = [uStart EXCEPT ![t] = s]
    /\ uLen' = [uLen EXCEPT ![t] = 0]
    /\ uPage' = [uPage EXCEPT ![t] = PageOf(s)]
    /\ uRet' = [uRet EXCEPT ![t] = Pending]
    /\ lost' = [lost EXCEPT ![t] = {}]
    /\ UNCHANGED <<readable, present, aspace, uCpu, unmaps>>

(* ... and clears the flag it set when the closure returns.                *)
EndScope(t, r) ==
    /\ accessing' = [accessing EXCEPT ![flagCpu[t]] = FALSE]
    /\ uRet' = [uRet EXCEPT ![t] = r]
    /\ UGoto(t, "out")

Ptr(t) == uStart[t] + uLen[t]

MutCheckPage(t) ==
    /\ Running(t) /\ uPc[t] = "page" /\ aspace = Nobody
    /\ IF uPage[t] = PageOf(uStart[t]) /\ uPage[t] \notin readable
       THEN EndScope(t, EFAULT) /\ UNCHANGED uPage
       ELSE /\ uPage' = [uPage EXCEPT ![t] = @ + 1]
            /\ UGoto(t, IF PageOf(Ptr(t)) >= uPage[t] + 1 THEN "page" ELSE "read")
            /\ UNCHANGED <<accessing, uRet>>
    /\ UNCHANGED <<readable, present, aspace, uCpu, flagCpu, uStart, uLen, lost, unmaps>>

(* One page is checked under the mutex before its first word is read.      *)
CheckPage(t) ==
    /\ Running(t) /\ uPc[t] = "page" /\ aspace = Nobody
    /\ IF uPage[t] \notin readable
       THEN EndScope(t, EFAULT) /\ UNCHANGED uPage
       ELSE /\ uPage' = [uPage EXCEPT ![t] = @ + 1]
            /\ UGoto(t, IF PageOf(Ptr(t)) >= uPage[t] + 1 THEN "page" ELSE "read")
            /\ UNCHANGED <<accessing, uRet>>
    /\ UNCHANGED <<readable, present, aspace, uCpu, flagCpu, uStart, uLen, lost, unmaps>>

(* read_volatile() of the next word.                                       *)
ReadWord(t) ==
    /\ Running(t) /\ uPc[t] = "read" /\ PageOf(Ptr(t)) \in present
    /\ IF Ptr(t) \in Zeros
       THEN EndScope(t, uLen[t]) /\ UNCHANGED uLen
       ELSE /\ uLen' = [uLen EXCEPT ![t] = @ + 1]
            /\ UGoto(t, IF PageOf(Ptr(t) + 1) >= uPage[t] THEN "page" ELSE "read")
            /\ UNCHANGED <<accessing, uRet>>
    /\ UNCHANGED <<readable, present, aspace, uCpu, flagCpu, uStart, uPage, lost, unmaps>>

(* handle_page_fault() in kernel mode: refused without the flag of the CPU *)
(* the thread now runs on, and the kernel panics...                        *)
Fault(t) ==
    /\ Running(t) /\ uPc[t] = "read" /\ PageOf(Ptr(t)) \notin present
    /\ UGoto(t, IF accessing[uCpu[t]] THEN "fault" ELSE "panic")
    /\ UNCHANGED <<readable, present, aspace, accessing, uCpu, flagCpu, uStart, uLen, uPage, uRet, lost, unmaps>>

(* ... otherwise the page is filled in, or the process is ended, with the  *)
(* flag still set.                                                         *)
HandleFault(t) ==
    /\ Running(t) /\ uPc[t] = "fault" /\ aspace = Nobody
    /\ IF PageOf(Ptr(t)) \in readable \ present
       THEN present' = present \cup {PageOf(Ptr(t))} /\ UGoto(t, "read") /\ UNCHANGED uCpu
       ELSE UGoto(t, "killed") /\ uCpu' = [uCpu EXCEPT ![t] = NoCpu] /\ UNCHANGED present
    /\ UNCHANGED <<readable, aspace, accessing, flagCpu, uStart, uLen, uPage, uRet, lost, unmaps>>

UStep(t) ==
    \/ Block(t) \/ Leave(t) \/ AspaceLock(t) \/ AspaceUnlock(t) \/ CheckRegion(t)
    \/ CheckPage(t) \/ ReadWord(t) \/ Fault(t) \/ HandleFault(t)
    \/ \E p \in readable : Munmap(t, p)
    \/ \E r \in Regions : GetRegion(t, r)
    \/ \E s \in StrStarts : GetStr(t, s)
    \/ \E c \in UCpus : Dispatch(t, c)

UNext == \E t \in UThreads : UStep(t)

USpec == UInit /\ [][UNext]_uVars

-----------------------------------------------------------------------------

(* The words of a string up to and with its terminator.                    *)
StringWords(s) == {w \in Words : w >= s /\ \A v \in s..(w - 1) : v \notin Zeros}

(* A string handed to the kernel is measured right; one that runs into     *)
(* memory the program may not read is refused with EFAULT at that page.    *)
(* The program is ended for it only when another thread unmapped the page, *)
(* or filled it in, between the check and the fault.                       *)
StringsChecked ==
    \A t \in UThreads :
        /\ uPc[t] = "out" /\ flagCpu[t] # NoCpu =>
               IF uRet[t] = EFAULT
               THEN uPage[t] \notin readable /\ PageOf(Ptr(t)) = uPage[t]
               ELSE uRet[t] = uLen[t] /\ Ptr(t) \in Zeros
        /\ flagCpu[t] # NoCpu => \A w \in uStart[t]..(Ptr(t) - 1) : w \in StringWords(uStart[t]) \ Zeros
        /\ uPc[t] \in {"read", "fault", "killed"} =>
               PageOf(Ptr(t)) \in (IF uPc[t] = "killed" THEN present ELSE readable) \cup lost[t]

(* "Enables scoped access into user memory, allowing page faults to occur  *)
(* inside kernel": a fault inside the scope is handled, on whatever CPU    *)
(* the thread goes on after it had to wait.                                *)
FaultsAllowed == \A t \in UThreads : uPc[t] # "panic"

=============================================================================
