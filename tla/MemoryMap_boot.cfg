SPECIFICATION MapSpec
CONSTANTS
  Callers = {bsp}
  WORD = 4
  MaxNumber = 3
  NULL = NULL
  PAGE = 2
  Maps <- Machines
  EndPages = {0, 1}
  Pools = 3
  GIG = 8
  Gigs = {0, 1, 2}
  FourGB = 24
  Early = {0, 1, 2, 3, 4}
  EarlyWindow = 5
  FrameBuffer = {12, 13}
  IOAPIC = 22
  Absent = Absent
  Junk = Junk
INVARIANTS
  NoDoubleAllocation
  PagesInv
  FromSelectedZone
  MapKept
  HandsOutRam
  KernelMapped
PROPERTIES
  FindsWhatIsThere
