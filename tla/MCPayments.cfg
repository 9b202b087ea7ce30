SPECIFICATION FairSpec
CONSTANTS
  Calls = {k1, k2, k3}
  Sessions = {x1}
CHECK_DEADLOCK FALSE
INVARIANTS
  OneRowOfEachKind
  PaidByACharge
  OneUsableIntent
  NoChargeIsLost
PROPERTIES
  EveryChargeIsAnswered
