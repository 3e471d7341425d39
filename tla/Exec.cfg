SPECIFICATION FairSpec
CONSTANTS
  DurationBits = 5
  Second = 2
  DefaultTimeout = 2
  MaxExecTimeout = 8
  defaultCtxTimeout = 3
  maxExecStreamBytes = 2
  MaxOutput = 3
INVARIANTS
  TypeOK
  SuccessIsComplete
  MarkIsTrue
PROPERTIES
  ExecReturns
CHECK_DEADLOCK FALSE
