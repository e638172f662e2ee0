SPECIFICATION SemSpec
CONSTANTS
  c0 = c0
  c1 = c1
  idle0 = idle0
  idle1 = idle1
  CPUs = {c0}
  Tasks = {idle0, a, b, d}
  InitTask <- InitTaskOne
  NoTask = NoTask
  MaxVruntime = 6
  MaxPreempt = 0
  Units = 1
  Masked = TRUE
INVARIANTS
  ReturnsWhenWoken
SYMMETRY ForkedTasks
CHECK_DEADLOCK FALSE
