SPECIFICATION FairSpec
CONSTANTS
  CPU = {0, 1}
  Keyboard = 33
  HPET = 34
  IPIs = {200, 201}
  TickIPI = 200
  Drivers = {0}
  Leaving = {33}
  MaxEdges = 2
  MaxDepth = 2
  NULL = NULL
INVARIANTS IrqInv FollowsNoNull AckedBeforeReturn
PROPERTY EveryInterruptServed
CHECK_DEADLOCK FALSE
