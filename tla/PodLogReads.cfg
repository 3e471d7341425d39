SPECIFICATION FairSpec
CONSTANTS
  Reads = {r1, r2, r3}
  Users = {u1}
  maxConcurrentPodLogReads = 2
  maxPodLogLimitBytes = 2
  defaultLimitBytes = 1
  MaxStream = 3
  Nil = Nil
INVARIANTS
  TypeOK
  SlotsMatchReads
  AggregateBound
  NeverCutShort
PROPERTIES
  ReadsReturn
