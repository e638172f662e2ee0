SPECIFICATION FairSpec
CONSTANTS
  IntBits = 4
  LongBits = 6
  PointerWidth = 4
  ReportWidth = 4
  CPUs = {c0, c1}
  BSP = c0
  Columns = 5
  PageRows = 2
  ScreenRows = 3
  XCharSize = 2
  YCharSize = 4
  TAB = 2
  BufLen = 16
  BootMessages <- Short
  Messages <- Short
  BootFaults = {}
  Faults = {}
  FaultInPrint = FALSE
  HandlerFlags = {TRUE}
  Rip = 6
  MaxCalls = 1
  MaxEvents = 1
PROPERTIES EveryPrintEnds
CHECK_DEADLOCK FALSE
