SPECIFICATION Spec
CONSTANTS
  Calls = {c1, c2}
  MaxRV = 4
  Nil = Nil
SYMMETRY Symmetry
INVARIANTS
  TypeOK
  AtMostOnce
  OkMeansDone
PROPERTIES
  RefusedForCause
  WritesReplaceWhatWasSeen
CHECK_DEADLOCK FALSE
