SPECIFICATION FairSpec
CONSTANTS
  c0 = c0
  c1 = c1
  idle0 = idle0
  idle1 = idle1
  CPUs = {c0}
  Tasks = {idle0, a, b}
  InitTask <- InitTaskOne
  NoTask = NoTask
  MaxVruntime = 18
  MaxPreempt = 0
PROPERTIES NoStarvation
CHECK_DEADLOCK FALSE
