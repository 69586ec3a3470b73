CONSTANTS
  MaxItems = 3
  Nets <- MCNets
  Programs <- MCPrograms
  Other <- MCOther
SPECIFICATION MCSpec
INVARIANTS
  FaithfulDelivery
  YieldsWhileWanted
  SeqGivesResult
  SeqPullsWhatIsNeeded
  SeqTerminalsAgree
PROPERTIES
  PipeDrainedEnds
  CancelEnds
  SeqRunEnds
CHECK_DEADLOCK FALSE
