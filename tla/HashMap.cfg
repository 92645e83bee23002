SPECIFICATION Spec
CONSTANTS
  Keys = {k1, k2, k3, k4}
  Values = {v1, v2}
  Sizes = {2, 4}
  MaxHash = 3
  MallocFails = TRUE
SYMMETRY Symmetry
INVARIANTS WellFormed Reachable
PROPERTY ImplementsDictionary
