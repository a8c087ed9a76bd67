SPECIFICATION Spec
CONSTANTS
  Threads = {t1, t2, t3}
  Items = {a, b}
  QueueBound = 2
INVARIANTS
  NoLostWakeup
PROPERTIES
  WaitersAreReleased
