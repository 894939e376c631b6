------------------------------ MODULE MCSched ------------------------------
(* Instances of Sched for TLC: two CPUs, their idle and migration tasks. *)
EXTENDS Sched, TLC

CONSTANTS c1, c2, idle1, idle2, migr1, migr2

MCIdle == (c1 :> idle1) @@ (c2 :> idle2)
MCMigrator == (c1 :> migr1) @@ (c2 :> migr2)

MCSymmetry == Permutations(Tasks \ {Main}) \cup Permutations(Queues)
-----------------------------------------------------------------------------
=============================================================================
