--------------------------- MODULE MCSoftIrqTimer ----------------------------
(* Two tasks and a few timers; see the configurations.                     *)
EXTENDS SoftIrqTimer, TLC

\* Nothing is claimed of what follows an interrupt that has overtaken a call.
Claimed == ~caught

TaskSymmetry == Permutations(Tasks)
Symmetry     == Permutations(Tasks) \cup Permutations(Timers)
=============================================================================
