SPECIFICATION FairSpec
CONSTANTS
  Capacity = 2
  MaxChunks = 4
PROPERTY
  WritesAreInterruptible
CHECK_DEADLOCK FALSE
