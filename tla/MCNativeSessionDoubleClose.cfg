SPECIFICATION Spec
CONSTANTS
  Closers = {c1, c2}
  OverlappingClose = TRUE
  MaxInflight = 2
  Produced = 2
  EventKinds = {}
INVARIANT
  CloseIsIdempotent
CHECK_DEADLOCK FALSE
