SPECIFICATION SemSpec
CONSTANTS
  c0 = c0
  c1 = c1
  idle0 = idle0
  idle1 = idle1
  CPUs = {c0, c1}
  Tasks = {idle0, idle1, a, b}
  InitTask <- InitTaskTwo
  NoTask = NoTask
  MaxVruntime = 6
  MaxPreempt = 0
  Units = 1
  Masked = TRUE
INVARIANTS
  LocalTasks
SYMMETRY ForkedTasks
CHECK_DEADLOCK FALSE
