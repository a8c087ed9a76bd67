SPECIFICATION FairSpec
CONSTANTS
  Clients = {c1, c2}
  Conns = {k1}
  None = None
  minPoolSize = 1
  maxPoolSize = 1
  useResetConnection = TRUE
  poolValidMinDelay = 0
  maxIdleTime = 0
  waitTimeout = 0
  AgeBound = 1
  TaskBound = 1
  FaultBound = 0
  Faults = {}
CHECK_DEADLOCK FALSE
INVARIANTS
  PoolIsRefilled
PROPERTIES
  WaitersGetAChance
  CloseTerminates
