SPECIFICATION ViewSpec
CONSTANTS
  Queries = {q1, q2}
  MaxUnits = 2
  MaxNesting = 3
  ChangesWhileSelecting = TRUE
  MaxBacklog = 2
  Grids = {g1, g2}
  MaxChunks = 1
  MaxWaiting = 2
  Scenarios <- MCScenarios
INVARIANTS
  TypeOK
  WorkIsScheduled
  FrozenOnlyWhileHeld
  LatestGeometryWins
PROPERTIES
  
  CompressesOnlyWhenQuiet
  ViewSettles
CHECK_DEADLOCK FALSE
