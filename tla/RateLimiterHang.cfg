SPECIFICATION FairSpec
CONSTANTS
  Calls = {c1}
  Sessions = {}
  Tools = {"get_resource"}
  Counters = {n1, n2}
  EnvDefault = Nil
  EnvRead = 1
  EnvWrite = Nil
  windowSize = 1
  cleanupInterval = 1
  MaxTime = 3
  Nil = Nil
PROPERTIES
  CallsReturn
CHECK_DEADLOCK FALSE
