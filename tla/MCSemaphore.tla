----------------------------- MODULE MCSemaphore -----------------------------
(* Instances of Semaphore for TLC.                                         *)
EXTENDS Semaphore, TLC

CONSTANTS c0, c1, idle0, idle1

InitTaskOne == (c0 :> idle0)
InitTaskTwo == (c0 :> idle0) @@ (c1 :> idle1)

ForkedTasks == Permutations(Tasks \ IdleTasks)
=============================================================================
