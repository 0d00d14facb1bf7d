SPECIFICATION FairSpec
CONSTANTS
  Capacity = 2
  MaxChunks = 4
PROPERTIES
  SleepsOnlyWithoutReader
  CloseCompletes
CHECK_DEADLOCK FALSE
