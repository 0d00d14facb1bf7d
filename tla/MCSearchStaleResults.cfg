SPECIFICATION Spec
CONSTANTS
  Queries = {q1, q2}
  MaxUnits = 1
  MaxNesting = 1
  ChangesWhileSelecting = FALSE
INVARIANT
  NoStaleResults
CHECK_DEADLOCK FALSE
