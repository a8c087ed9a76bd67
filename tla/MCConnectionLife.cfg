SPECIFICATION LifeSpec
CONSTANTS
  Hosts <- MCHosts
  MaxWork = 1
  MaxLosses = 2
CHECK_DEADLOCK FALSE
INVARIANTS
  WorkIsAccountedFor
  
PROPERTIES
  CallsReturn
