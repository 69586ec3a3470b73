CONSTANTS
  Kinds <- MCKinds
  N = 2
  Bound <- MCBound
SPECIFICATION FairSpec
INVARIANTS
  ValuesFromSources
  RejectedForCause
PROPERTIES
  NothingLeaks
  SettlesWhenEnough
CHECK_DEADLOCK FALSE
