SPECIFICATION Spec
CONSTANTS
  Callers = {bsp, ap3}
  WORD = 4
  Layout <- ZonesApart
  MaxNumber = 3
  NULL = NULL
INVARIANTS
  RefusalIsNull
PROPERTIES
  TriesEveryZone
  MarksFreePages
