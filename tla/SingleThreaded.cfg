SPECIFICATION Spec
CONSTANTS
  Bytes = {0, 1, 2}
  Chunk = 2
  MaxLen = 2
  MaxSize = 4
  Strs = {s1, s2}
  Chars = {0, 1}
  Room = 1
  MaxAppend = 2
  MaxCap = 3
  Vecs = {v1, v2}
  Elems = {0, 1}
  Default = 0
  Raw = Raw
  FirstCap = 1
  MaxSlots = 4
  PopsObjects = FALSE
  Funs = {f1, f2, f3}
  Tmp = Tmp
  Types = {small, big}
  Large = {big}
  Blocks = {b1, b2, b3}
  Null = Null
  Octets = {4, 251}
  MaxOctets = 4
  Strange = {32, 61, 97, 43, 45}
SYMMETRY Symmetry
INVARIANTS
  WellFormed NulTerminated ElementsDestroyedOnce CallablesOwnedOnce
  AcceptsExactlyEncodings SizesAreRight
PROPERTIES
  BufferIsSequence StringIsSequence VectorIsSequence ActsAsValue
CHECK_DEADLOCK FALSE
