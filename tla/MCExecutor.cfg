SPECIFICATION Spec
CONSTANTS
  a = a
  b = b
  c = c
  d = d
  Tasks = {a, b, d}
  Period <- Periods
  None = None
  LateBound = 9
CHECK_DEADLOCK FALSE
INVARIANTS
  LateAtMostOneRound
  TasksAreKept
PROPERTIES
  WorkEnds
