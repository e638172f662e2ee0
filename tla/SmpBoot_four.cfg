SPECIFICATION FairSpec
CONSTANTS
  NR_CPUS = 4
  TaskInitCPU = 3
  None = None
INVARIANTS
  OwnStack
  BootInv
PROPERTIES
  AllUp
CHECK_DEADLOCK FALSE
