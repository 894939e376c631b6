------------------------------ MODULE MCBlock -------------------------------
(* Instances for TLC of what a thread blocks on: a futex (Futex) and a      *)
(* signal (Signals).  They share no state: a behaviour moves one of them,   *)
(* the one "which" names.                                                   *)
EXTENDS Futex, Signals, TLC

CONSTANTS t1, a1, Off

\* One thread has the first word as its clear_child_tid, as a thread that another
\* one joins.
MCClearChildTid == [t \in Threads |-> IF t = t1 THEN a1 ELSE NoAddr]

VARIABLE which

SignalsOff == /\ spc = Off /\ blocked = Off /\ pendT = Off /\ pendP = Off
              /\ hasHandler = Off /\ frames = Off /\ oldMask = Off /\ waitSet = Off
              /\ wanted = Off /\ sends = Off /\ continued = Off

MCInit == /\ which \in {"futex", "signals"}
          /\ FxInit
          /\ IF which = "signals" THEN SigInit ELSE SignalsOff

MCNext ==
    \/ which = "futex" /\ FxNext /\ UNCHANGED <<which, sigVars>>
    \/ which = "signals" /\ SigNext /\ UNCHANGED <<which, fxVars>>

MCSpec == MCInit /\ [][MCNext]_<<which, fxVars, sigVars>>

\* The threads without clear_child_tid are alike, in both components.
MCSymmetry == Permutations(SigThreads)
-----------------------------------------------------------------------------
\* The mask that a thread runs with is the one its program has set at this depth
\* of handlers (signal.rs).
MaskKept == which = "signals" => MaskRestored
=============================================================================
