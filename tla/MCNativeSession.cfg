SPECIFICATION FairSpec
CONSTANTS
  Closers = {c1, c2}
  OverlappingClose = FALSE
  MaxInflight = 2
  Produced = 4
  EventKinds = {"mode", "writeError"}
INVARIANTS
  AcksAccounted
  NoUseAfterClose
PROPERTIES
  OutputFlows
  CloseCompletes
CHECK_DEADLOCK FALSE
