SPECIFICATION Spec
CONSTANTS
  Owner = owner
  Joiners = {owner, j1, j2}
  Observers = {o1}
  Detachers = {"owner", "routine"}
  CarefulUse = TRUE
  MaxGen = 3
INVARIANTS JoinMeansExited NotRunningMeansExited NothingDeadUsed
PROPERTY CallsReturn
