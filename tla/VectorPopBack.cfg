SPECIFICATION VectorSpec
CONSTANTS
  Vecs = {v1}
  Elems = {0, 1}
  Default = 0
  Raw = Raw
  FirstCap = 1
  MaxSlots = 2
  PopsObjects = TRUE
INVARIANT ElementsDestroyedOnce
CHECK_DEADLOCK FALSE
