SPECIFICATION Spec
CONSTANTS
  KB_BUF_SIZE = 3
  Keys = {"a", "shift_l", "ctrl_l", "ctrl_r", "printscreen", "pause"}
  MaxUnread = 3
  None = None
INVARIANTS
  KeyboardInv
  FlagsFollowKeys
CHECK_DEADLOCK FALSE
