SPECIFICATION FairSpec
CONSTANTS
  Requests = {c1, c2}
  Sessions = {s1}
  Tools = {"get_resource", "apply_resource"}
  Writers = {"apply_resource"}
  Template = "template"
  Nil = Nil
  Configs <- MCConfigs
CHECK_DEADLOCK FALSE
INVARIANTS
  TypeOK
  Authorised
  OnlyOwnSessionWaits
  OrderlyExit
PROPERTIES
  ClientsDoNotCancelCalls
  NoCallHoldsUpTheNext
  SignalEndsProcess
