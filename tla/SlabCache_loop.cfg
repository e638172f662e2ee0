SPECIFICATION SlabSpec
CONSTANTS
  Caches = {1, 2, 3, 4, 5}
  Small = {1, 2}
  Created = {5}
  Missing = {4}
  Unplaced = {1}
  Capacity <- MCCapacity
  SmallCapacity <- MCSmallCapacity
  HeaderCache = 2
  MapCache <- MCMapCache
  Pages = {6, 7, 8}
  MaxObjects = 5
  StructCache = 2
  FreesReturning = FALSE
  NoObject = NoObject
  Wild = Wild
INVARIANT SlabFreeReturns
CHECK_DEADLOCK FALSE
