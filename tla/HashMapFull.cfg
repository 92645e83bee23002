SPECIFICATION Spec
CONSTANTS
  Keys = {k1, k2, k3, k4}
  Values = {v1}
  Sizes = {4}
  MaxHash = 3
  MallocFails = FALSE
PROPERTY RefusedOnlyWhenFull
