CONSTANTS
  Kinds <- MCKinds
  N = 2
  Bound <- MCBound
SPECIFICATION Spec
INVARIANTS
  AllFailedOnlyIfAllFail
CHECK_DEADLOCK FALSE
