---------------------------- MODULE MCAddrSpace ----------------------------
(* Two threads of one process and its forked child, on two pages. *)
EXTENDS AddrSpace, TLC

CONSTANTS s1, s2, t1, t2, t3

MCSpaceOf == t1 :> s1 @@ t2 :> s1 @@ t3 :> s2
MCPages == 1..2
MCValues == 0..1
MCSymmetry == Permutations(Frames) \cup Permutations({t1, t2})
-----------------------------------------------------------------------------
=============================================================================
