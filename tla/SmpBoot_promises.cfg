SPECIFICATION Spec
CONSTANTS
  NR_CPUS = 4
  TaskInitCPU = 3
  None = None
INVARIANTS
  OwnTSS
  LockHolderNotPreempted
CHECK_DEADLOCK FALSE
