SPECIFICATION Spec
CONSTANTS
  c0 = c0
  c1 = c1
  idle0 = idle0
  idle1 = idle1
  CPUs = {c0}
  Tasks = {idle0, a, b}
  InitTask <- InitTaskOne
  NoTask = NoTask
  MaxVruntime = 16
  MaxPreempt = 1
PROPERTIES SwitchGivesSlice
