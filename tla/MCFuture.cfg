CONSTANTS
  p1 = p1
  p2 = p2
  a1 = a1
  a2 = a2
  v1 = v1
  Producers <- MCProducers
  Awaiters <- MCAwaiters
  Values <- MCValues
  Errors <- MCErrors
  Canceled = Canceled
  NilRejected = NilRejected
  NilError = NilError
  Live = Live
  NoResult = NoResult
SPECIFICATION FairSpec
INVARIANTS
  TypeOK
  Agreement
  ResultOrigin
  CauseHonest
PROPERTIES
  AwaitReturns
  ImplementsSingleAssignment
CHECK_DEADLOCK FALSE
