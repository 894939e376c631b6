------------------------------- MODULE Signals ------------------------------
(***************************************************************************)
(* Signals of one process: api/src/imp/signal.rs and api/src/signal.rs.    *)
(* The queues of pending signals, the masks and the frames of handlers are *)
(* those of the crate axsignal, which is external: check_signals takes one *)
(* pending signal that is not blocked and, for a handler, pushes a frame   *)
(* that keeps the mask to restore; restore (sigreturn) pops it.  Signals   *)
(* are the members of Handled, to which the program may give a handler,    *)
(* "cont", whose default is to continue, and "kill", which terminates.     *)
(***************************************************************************)
EXTENDS Integers, Sequences, FiniteSets

CONSTANTS SigThreads, Handled, MaxSends, MaxFrames

Sigs == Handled \cup {"cont", "kill"}

VARIABLES
    spc,       \* user, suspend (about to check), waiting, timedwait, dead
    blocked,   \* the mask of each thread
    pendT,     \* signals pending for a thread
    pendP,     \* signals pending for the process
    hasHandler,  \* the signals the process has given a handler
    frames,    \* per thread the masks kept in the frames of running handlers
    oldMask,   \* sigsuspend's old_blocked
    waitSet,   \* the set of sigtimedwait
    wanted,    \* history: the masks the program has set, one for each frame depth
    sends,     \* number of signals sent
    continued  \* history: threads whose sigsuspend was ended by "cont"

sigVars == <<spc, blocked, pendT, pendP, hasHandler, frames, oldMask, waitSet, wanted, sends, continued>>

SigInit ==
    /\ spc = [t \in SigThreads |-> "user"] /\ blocked = [t \in SigThreads |-> {}]
    /\ pendT = [t \in SigThreads |-> {}] /\ pendP = {} /\ hasHandler = {}
    /\ frames = [t \in SigThreads |-> <<>>] /\ oldMask = [t \in SigThreads |-> {}]
    /\ waitSet = [t \in SigThreads |-> {}]
    /\ wanted = [t \in SigThreads |-> <<{}>>] /\ sends = 0 /\ continued = {}

Live(t) == spc[t] # "dead"

\* sys_rt_sigprocmask: block, unblock or set; SIGKILL is masked like the others.
Sigprocmask(t, how, set) ==
    /\ spc[t] = "user" /\ t \notin continued
    /\ LET mask == CASE how = "block" -> blocked[t] \cup set
                     [] how = "unblock" -> blocked[t] \ set
                     [] OTHER -> set
       IN /\ blocked' = [blocked EXCEPT ![t] = mask]
          /\ wanted' = [wanted EXCEPT ![t][Len(wanted[t])] = mask]
    /\ UNCHANGED <<spc, pendT, pendP, hasHandler, frames, oldMask, waitSet, sends, continued>>

\* sys_rt_sigaction, refused for SIGKILL.
Sigaction(t, sig, handler) ==
    /\ spc[t] = "user" /\ sig # "kill"
    /\ hasHandler' = IF handler THEN hasHandler \cup {sig} ELSE hasHandler \ {sig}
    /\ UNCHANGED <<spc, blocked, pendT, pendP, frames, oldMask, waitSet, wanted, sends, continued>>

\* sys_tkill, sys_tgkill and sys_rt_tgsigqueueinfo: to a thread; sys_kill and
\* sys_rt_sigqueueinfo: to the process (of a group, or all).  Whoever waits for a
\* signal of the process is woken and looks again.
WokenBy(T) == [u \in SigThreads |-> IF u \in T /\ spc[u] = "waiting" THEN "suspend" ELSE spc[u]]
SendThread(t, sig) ==
    /\ sends < MaxSends /\ Live(t) /\ sends' = sends + 1
    /\ pendT' = [pendT EXCEPT ![t] = @ \cup {sig}] /\ spc' = WokenBy(SigThreads)
    /\ UNCHANGED <<blocked, pendP, hasHandler, frames, oldMask, waitSet, wanted, continued>>
SendProcess(sig) ==
    /\ sends < MaxSends /\ sends' = sends + 1
    /\ pendP' = pendP \cup {sig} /\ spc' = WokenBy(SigThreads)
    /\ UNCHANGED <<blocked, pendT, hasHandler, frames, oldMask, waitSet, wanted, continued>>

\* The queue a signal is taken from: the thread's own before the process's.
Taken(t, sig) ==
    IF sig \in pendT[t] THEN pendT' = [pendT EXCEPT ![t] = @ \ {sig}] /\ UNCHANGED pendP
    ELSE pendP' = pendP \ {sig} /\ UNCHANGED pendT
Dies(sig) == sig \notin hasHandler \cup {"cont"}
Deliverable(t) == LET own == pendT[t] \ blocked[t] IN IF own # {} THEN own ELSE pendP \ blocked[t]

MutCheckHandler(t, sig, restore) ==
    /\ sig \in hasHandler /\ Len(frames[t]) < MaxFrames
    /\ frames' = [frames EXCEPT ![t] = Append(@, blocked[t])]
    /\ blocked' = [blocked EXCEPT ![t] = @ \cup {sig}]
    /\ wanted' = [wanted EXCEPT ![t] = Append(@, blocked[t] \cup {sig})]
    /\ spc' = [spc EXCEPT ![t] = "user"] /\ UNCHANGED continued

\* check_signals finds a handler: the frame keeps the mask to restore, the caller's
\* (sigsuspend's old mask) or else the present one.
CheckHandler(t, sig, restore) ==
    /\ sig \in hasHandler /\ Len(frames[t]) < MaxFrames
    /\ frames' = [frames EXCEPT ![t] = Append(@, restore)]
    /\ blocked' = [blocked EXCEPT ![t] = @ \cup {sig}]
    /\ wanted' = [wanted EXCEPT ![t] = Append(@, blocked[t] \cup {sig})]
    /\ spc' = [spc EXCEPT ![t] = "user"] /\ UNCHANGED continued

\* The default action: terminate the process (do_exit with group_exit, which sends
\* SIGKILL to the other threads), or nothing for "cont".
CheckDefault(t, sig) ==
    /\ sig \notin hasHandler
    /\ spc' = [u \in SigThreads |-> IF u = t THEN IF Dies(sig) THEN "dead" ELSE "user"
                                   ELSE IF Dies(sig) THEN WokenBy(SigThreads)[u] ELSE spc[u]]
    /\ IF Dies(sig) THEN /\ pendT' = [u \in SigThreads |-> IF u = t THEN pendT[u] ELSE pendT[u] \cup {"kill"}]
                         /\ UNCHANGED pendP
                    ELSE Taken(t, sig)
    /\ continued' = IF sig = "cont" /\ spc[t] = "suspend" THEN continued \cup {t} ELSE continued
    /\ UNCHANGED <<frames, blocked, wanted>>

\* check_signals, on the way back to user space (post_trap_callback) or in the loop
\* of sys_rt_sigsuspend.
CheckSignals(t) ==
    /\ spc[t] \in {"user", "suspend"}
    /\ \E sig \in Deliverable(t) :
         \/ /\ Taken(t, sig) /\ spc[t] = "user"
            /\ CheckHandler(t, sig, blocked[t])
         \/ /\ Taken(t, sig) /\ spc[t] = "suspend"
            /\ CheckHandler(t, sig, oldMask[t])
         \/ CheckDefault(t, sig)
    /\ UNCHANGED <<hasHandler, oldMask, waitSet, sends>>

\* sys_rt_sigsuspend: the mask is replaced before the first check, and a check that
\* finds nothing is followed by the wait, which a send in between does not stop.
Sigsuspend(t, set) ==
    /\ spc[t] = "user" /\ t \notin continued
    /\ oldMask' = [oldMask EXCEPT ![t] = blocked[t]]
    /\ blocked' = [blocked EXCEPT ![t] = set \ {"kill"}]
    /\ spc' = [spc EXCEPT ![t] = "suspend"]
    /\ UNCHANGED <<pendT, pendP, hasHandler, frames, waitSet, wanted, sends, continued>>
SuspendWait(t) ==
    /\ spc[t] = "suspend" /\ Deliverable(t) = {}
    /\ spc' = [spc EXCEPT ![t] = "waiting"]
    /\ UNCHANGED <<blocked, pendT, pendP, hasHandler, frames, oldMask, waitSet, wanted, sends, continued>>

\* sys_rt_sigreturn, the last call of a handler.
Sigreturn(t) ==
    /\ spc[t] = "user" /\ frames[t] # <<>> /\ t \notin continued
    /\ blocked' = [blocked EXCEPT ![t] = frames[t][Len(frames[t])]]
    /\ frames' = [frames EXCEPT ![t] = SubSeq(@, 1, Len(@) - 1)]
    /\ wanted' = [wanted EXCEPT ![t] = SubSeq(@, 1, Len(@) - 1)]
    /\ UNCHANGED <<spc, pendT, pendP, hasHandler, oldMask, waitSet, sends, continued>>

\* sys_rt_sigtimedwait: a pending signal of the set, blocked or not, is taken
\* without running a handler; or the time is up.
Sigtimedwait(t, set) ==
    /\ spc[t] = "user" /\ spc' = [spc EXCEPT ![t] = "timedwait"]
    /\ waitSet' = [waitSet EXCEPT ![t] = set]
    /\ UNCHANGED <<blocked, pendT, pendP, hasHandler, frames, oldMask, wanted, sends, continued>>
TimedwaitEnd(t) ==
    /\ spc[t] = "timedwait" /\ spc' = [spc EXCEPT ![t] = "user"]
    /\ \/ \E sig \in waitSet[t] \cap (pendT[t] \cup pendP) : Taken(t, sig)
       \/ UNCHANGED <<pendT, pendP>>
    /\ waitSet' = [waitSet EXCEPT ![t] = {}]
    /\ UNCHANGED <<blocked, hasHandler, frames, oldMask, wanted, sends, continued>>

SigNext ==
    \/ \E t \in SigThreads :
          \/ \E how \in {"block", "unblock", "set"}, set \in SUBSET Handled : Sigprocmask(t, how, set)
          \/ \E sig \in Sigs : SendThread(t, sig) \/ \E handler \in BOOLEAN : Sigaction(t, sig, handler)
          \/ \E set \in SUBSET Handled : Sigsuspend(t, set) \/ Sigtimedwait(t, set)
          \/ CheckSignals(t) \/ SuspendWait(t) \/ Sigreturn(t) \/ TimedwaitEnd(t)
    \/ \E sig \in Sigs : SendProcess(sig)

SigSpec == SigInit /\ [][SigNext]_sigVars
-----------------------------------------------------------------------------
\* The mask of a running thread is the one the program has set at this depth of
\* handlers: whatever signals are taken, in whatever order and nesting, between a
\* sigsuspend and the return of its handlers, the mask it replaced comes back.
\* (Not so after a sigsuspend that "cont" has ended: nothing restores it then.)
MaskRestored ==
    \A t \in SigThreads :
       spc[t] \in {"user", "timedwait"} /\ t \notin continued => blocked[t] = wanted[t][Len(wanted[t])]
=============================================================================
