SPECIFICATION FairSpec
CONSTANTS
  IntBits = 4
  LongBits = 6
  PointerWidth = 4
  ReportWidth = 4
  CPUs = {c0, c1}
  BSP = c0
  Columns = 5
  PageRows = 2
  ScreenRows = 3
  XCharSize = 2
  YCharSize = 4
  TAB = 2
  BufLen = 16
  BootMessages <- Decimal
  Messages <- Erasing
  BootFaults = {}
  Faults = {}
  FaultInPrint = FALSE
  HandlerFlags = {FALSE}
  Rip = 6
  MaxCalls = 1
  MaxEvents = 1
INVARIANTS
  PrintedWhole
  SignedDecimal
CHECK_DEADLOCK FALSE
