SPECIFICATION Spec
CONSTANTS
  o1 = o1
  o2 = o2
  Ops = {o1}
  Offered <- AnyKind
  Loops = {l1, l2}
  MaxEdits = 2
  Nil = Nil
INVARIANTS
  NoRacingReads
