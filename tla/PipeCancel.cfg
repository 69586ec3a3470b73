CONSTANTS
  MaxItems = 3
  Nets <- MCNets
SPECIFICATION FairSpec
PROPERTIES
  CancellingEndsAll
CHECK_DEADLOCK FALSE
