SPECIFICATION Spec
CONSTANTS
  Calls = {c1}
  Sessions = {}
  Tools = {"get_resource"}
  Counters = {n1, n2}
  EnvDefault = Nil
  EnvRead = 2
  EnvWrite = Nil
  windowSize = 3
  cleanupInterval = 3
  MaxTime = 6
  Nil = Nil
INVARIANTS
  TokenBucketBound
CHECK_DEADLOCK FALSE
