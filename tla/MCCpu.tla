------------------------------- MODULE MCCpu --------------------------------
(* Instances for TLC of what a CPU holds for its tasks: the scheduler with  *)
(* migration and requeues (Sched), the registers across traps and switches  *)
(* and the floating-point unit (CpuContext).  They share no                 *)
(* state: a behaviour moves one of them, the one "which" names.             *)
EXTENDS MCSched, CpuContext

CONSTANTS Off, t1, t2, t3

VARIABLE which

MCFirstTask == (c1 :> t1) @@ (c2 :> t2)

\* t2 stays in the kernel, the others are interrupted or call it: t1 to clone t3,
\* to set a base register or to change its program.
MCMaxTraps == (t1 :> 1) @@ (t2 :> 0) @@ (t3 :> 1)
MCMaxCalls == (t1 :> 1) @@ (t2 :> 0) @@ (t3 :> 1)

ContextOff == /\ arch = Off /\ regs = Off /\ mem = Off /\ cur = Off /\ depth = Off
              /\ inUser = Off /\ started = Off /\ calls = Off /\ inCall = Off
              /\ based = Off /\ view = Off
FpOff == /\ fpArch = Off /\ unit = Off /\ area = Off /\ frameFs = Off /\ fpCur = Off
         /\ fpUser = Off /\ entered = Off /\ mine = Off

MCInit == /\ which \in {"sched", "context", "fp"}
          /\ Init
          /\ IF which = "context" THEN CtxInit ELSE ContextOff
          /\ IF which = "fp" THEN FpInit ELSE FpOff

MCNext ==
    \/ which = "sched" /\ NextFull /\ UNCHANGED <<which, ctxVars, fpVars>>
    \/ which = "context" /\ CtxNext /\ UNCHANGED <<which, vars, fpVars>>
    \/ which = "fp" /\ FpNext /\ UNCHANGED <<which, vars, ctxVars>>

\* The bounds on traps and on floating-point writes end these behaviours.
Bounded == which # "sched" /\ UNCHANGED <<which, vars, ctxVars, fpVars>>

MCSpec == MCInit /\ [][MCNext \/ Bounded]_<<which, vars, ctxVars, fpVars>>
-----------------------------------------------------------------------------
\* Registers and floating-point registers are those of the current task, in the
\* kernel and in user code (LoongArch's switch_to keeps no floating-point ones).
RegistersFollowTask == which = "context" => RegistersKept
FpFollowsTask == which = "fp" /\ fpArch # "loongarch64" => FpKept
=============================================================================
