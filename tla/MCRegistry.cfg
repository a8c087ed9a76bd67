SPECIFICATION Spec
CONSTANTS
  t1 = t1
  t2 = t2
  t3 = t3
  s1 = s1
  s2 = s2
  Threads = {t1, t2, t3}
  Sources = {s1, s2}
  Users = {u1, u2}
  PoolIds = {p1, p2}
  None = None
  Programs <- AllPrograms
CHECK_DEADLOCK FALSE
SYMMETRY RegistrySymmetry
INVARIANTS
  OneOpenPool
  MapMirrorsPools
