CONSTANTS
  MaxItems = 3
  Nets <- MCNets
SPECIFICATION Spec
INVARIANTS
  StopsForMissing
CHECK_DEADLOCK FALSE
