SPECIFICATION Spec
CONSTANTS
  KB_BUF_SIZE = 3
  Keys = {"a", "shift_l", "ctrl_l", "ctrl_r", "printscreen", "pause"}
  MaxUnread = 4
  None = None
INVARIANTS
  WaitsOnlyForCodes
  CountFitsRing
CHECK_DEADLOCK FALSE
