SPECIFICATION Spec
CONSTANTS
  Calls = {k1, k2}
  Sessions = {}
CHECK_DEADLOCK FALSE
INVARIANTS
  PassedOverIsDuplicate
