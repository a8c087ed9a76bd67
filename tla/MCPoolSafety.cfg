SPECIFICATION Spec
CONSTANTS
  Clients = {c1, c2}
  Conns = {k1, k2, k3}
  None = None
  minPoolSize = 1
  maxPoolSize = 2
  useResetConnection = TRUE
  poolValidMinDelay = 0
  maxIdleTime = 0
  waitTimeout = 1
  AgeBound = 2
  TaskBound = 1
  FaultBound = 1
  Faults = {"connectFails", "idleDies", "heldDies", "timesOut", "closeTimesOut"}
CHECK_DEADLOCK FALSE
SYMMETRY PoolSymmetry
INVARIANTS
  SlotAccounting
  PendingAccounting
PROPERTIES
  ImplementsLease
