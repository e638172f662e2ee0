SPECIFICATION Spec
CONSTANTS
  Callers = {bsp}
  WORD = 4
  Layout <- ZonesAdjacent
  MaxNumber = 3
  NULL = NULL
INVARIANTS
  FromSelectedZone
