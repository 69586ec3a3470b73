CONSTANTS
  v1 = v1
  v2 = v2
  v3 = v3
  Records <- MCRecords
  PKs <- MCPKs
  UKs <- MCUKs
  Groups <- MCGroups
  NoRecord = NoRecord
  Nil = Nil
  NoLine = NoLine
  Rows <- MCRows
  Cols <- MCCols
  CellValues <- MCCellValues
  MaxListed = 2
  MaxNodes = 3
  MaxEdges = 3
SPECIFICATION MCSpec
INVARIANTS
  IndexesAgree
  GridIndexesAgree
  GridWalkIsFaithful
  GraphEdgesIndexed
PROPERTIES
  ImplementsRows
