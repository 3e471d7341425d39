SPECIFICATION FairSpec
CONSTANTS
  Calls = {c1, c2}
  Sessions = {}
  Tools = {"get_resource"}
  Counters = {n1, n2, n3}
  EnvDefault = Nil
  EnvRead = 1
  EnvWrite = Nil
  windowSize = 2
  cleanupInterval = 2
  MaxTime = 4
  Nil = Nil
INVARIANTS
  SlidingWindowBound
  CountTracksAdmissions
PROPERTIES
  HangsOnlyInLockCycle
CHECK_DEADLOCK FALSE
