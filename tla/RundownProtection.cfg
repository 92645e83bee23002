SPECIFICATION Spec
CONSTANTS
  Threads = {t1, t2, t3}
  MaxRef = 2
  AllowDestroy = TRUE
  AllowReuse = TRUE
INVARIANTS RundownGuarantee CountsHolders NoDeadGroupUse NoLostWakeup
PROPERTIES RundownCompletes ImplementsGate
