-------------------------------- MODULE Mutex --------------------------------
(***************************************************************************)
(* What a lock promises to the code between spin_lock and spin_unlock: it  *)
(* is held by at most one task, taken only when free and given back only   *)
(* by the task that holds it.                                              *)
(***************************************************************************)
CONSTANTS Tasks, NoTask

VARIABLE holder

Init == holder = NoTask

Acquire(t) == holder = NoTask /\ holder' = t

Release(t) == holder = t /\ holder' = NoTask

Next == \E t \in Tasks : Acquire(t) \/ Release(t)

Spec == Init /\ [][Next]_holder
=============================================================================
