SPECIFICATION FairSpec
CONSTANTS
  c1 = c1
  c2 = c2
  c3 = c3
  a1 = a1
  a2 = a2
  b1 = b1
  d1 = d1
  CPUs <- MCCPUs
  Tasks <- MCTasks
  home <- MChome
  NoTask = NoTask
INVARIANTS
  LockInv
  MutualExclusion
  HolderRuns
  WordBounded
PROPERTIES
  ImplementsMutex
  Progress
