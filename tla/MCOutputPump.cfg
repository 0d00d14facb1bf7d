SPECIFICATION FairSpec
CONSTANTS
  ReadSize = 3
  BatchMax = 2
  MaxInflight = 2
  MaxExternal = 3
  AckModes = {TRUE, FALSE}
  ExternalModes = {TRUE, FALSE}
  MaxProduced = 4
INVARIANTS
  TypeOK
  InflightExact
  ExternalAccounted
PROPERTIES
  ImplementsBytePipe
  CloseStopsReader
  OutputArrives
CHECK_DEADLOCK FALSE
