SPECIFICATION Spec
CONSTANTS
  Views = {v1, v2}
  Nobody = nobody
  MaxLen = 1
  MaxHandle = 2
  Failures = FALSE
INVARIANT ReadBlobExact
