SPECIFICATION Spec
CONSTANTS
  CPU = {0, 1}
  Keyboard = 33
  HPET = 34
  IPIs = {200, 201}
  TickIPI = 200
  Drivers = {0, 1}
  Leaving = {33, 34}
  MaxEdges = 2
  MaxDepth = 2
  NULL = NULL
INVARIANTS IrqInv FollowsNoNull
CHECK_DEADLOCK FALSE
