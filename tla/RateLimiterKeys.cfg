SPECIFICATION Spec
CONSTANTS
  Calls = {c1, c2}
  Sessions = {s1}
  Tools = {"get_resource"}
  Counters = {n1, n2, n3, n4}
  EnvDefault = Nil
  EnvRead = 1
  EnvWrite = Nil
  windowSize = 1
  cleanupInterval = 1
  MaxTime = 2
  Nil = Nil
SYMMETRY Symmetry
INVARIANTS
  TypeOK
  LockOwnership
  CountersAreUnshared
PROPERTIES
  NoFalseReject
  SweepSparesLiveWindows
CHECK_DEADLOCK FALSE
