----------------------------- MODULE MCSpinLock ------------------------------
(* Three processors, the first with two tasks.                             *)
EXTENDS SpinLock

CONSTANTS c1, c2, c3, a1, a2, b1, d1

MCCPUs  == {c1, c2, c3}
MCTasks == {a1, a2, b1, d1}
MChome  == [t \in MCTasks |-> IF t \in {a1, a2} THEN c1
                              ELSE IF t = b1 THEN c2 ELSE c3]
=============================================================================
