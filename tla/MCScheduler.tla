----------------------------- MODULE MCScheduler -----------------------------
(* Instances of Scheduler for TLC. *)
EXTENDS Scheduler, TLC

CONSTANTS c0, c1, idle0, idle1

\* One and two processors, with their idle tasks.
InitTaskOne == (c0 :> idle0)
InitTaskTwo == (c0 :> idle0) @@ (c1 :> idle1)

\* The forked tasks are interchangeable.
ForkedTasks == Permutations(Tasks \ IdleTasks)
=============================================================================
