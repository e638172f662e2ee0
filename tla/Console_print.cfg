SPECIFICATION FairSpec
CONSTANTS
  IntBits = 4
  LongBits = 6
  PointerWidth = 4
  ReportWidth = 4
  CPUs = {c0, c1}
  BSP = c0
  Columns = 5
  PageRows = 2
  ScreenRows = 3
  XCharSize = 2
  YCharSize = 4
  TAB = 2
  BufLen = 16
  BootMessages <- Boot
  Messages <- Short
  BootFaults <- AllVectors
  Faults <- Interrupting
  FaultInPrint = FALSE
  HandlerFlags = {FALSE}
  Rip = 6
  MaxCalls = 1
  MaxEvents = 1
INVARIANTS
  ConsoleInv
  PrintedWhole
  ConversionsRead
  FaultNamed
PROPERTIES
  EveryPrintEnds
CHECK_DEADLOCK FALSE
