---------------------------- MODULE AbstractLock ----------------------------
(***************************************************************************)
(* What a mutual-exclusion lock promises to its callers: a free lock may   *)
(* be taken by one task, and only the task that took it gives it back.     *)
(* How waiters sleep and wake is no concern of this module.                *)
(***************************************************************************)
CONSTANTS Tasks, NoOwner

VARIABLE holder

Init == holder = NoOwner

Acquire(t) == holder = NoOwner /\ holder' = t

Release(t) == holder = t /\ holder' = NoOwner

Next == \E t \in Tasks : Acquire(t) \/ Release(t)

Spec == Init /\ [][Next]_holder
=============================================================================
