SPECIFICATION Spec
CONSTANTS
  DurationBits = 5
  Second = 2
  DefaultTimeout = 2
  MaxExecTimeout = 8
  defaultCtxTimeout = 3
  maxExecStreamBytes = 2
  MaxOutput = 0
INVARIANTS
  LargeTimeoutsAreCapped
CHECK_DEADLOCK FALSE
