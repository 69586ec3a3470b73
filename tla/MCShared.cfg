CONSTANTS
  g1 = g1
  g2 = g2
  g3 = g3
  Goroutines <- MCGoroutines
  v1 = v1
  v2 = v2
  v3 = v3
  Values <- MCValues
  Less <- MCLess
  Zero = Zero
  None = None
  Capacities = {0, 1, 3}
  Callers <- MCCallers
  Keys <- MCKeys
  LazyKeys <- MCLazyKeys
  Asks <- MCAsks
  Panic = Panic
  NoOutcome = NoOutcome
  Registrars <- MCGoroutines
  Types <- MCTypes
  Names <- MCNames
  NoName = NoName
SPECIFICATION MCSpec
INVARIANTS
  SearchFindsOldest
  OncePerKey
  NamesRoundTrip
PROPERTIES
  ImplementsBoundedFifo
  CallsReturn
  GettersReturn
