SPECIFICATION FairSpec
CONSTANTS
  o1 = o1
  o2 = o2
  Ops = {o1, o2}
  Offered <- ShortAndLong
  Loops = {l1, l2}
  MaxEdits = 2
  Nil = Nil
INVARIANTS
  TypeOK
  OneGeneration
  ComponentsAgree
  OneLiveLoop
PROPERTIES
  RefreshCatchesUp
  OperationsReturn
