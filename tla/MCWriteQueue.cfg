SPECIFICATION FairSpec
CONSTANTS
  Callers = {c1, c2}
  Sizes = {0, 1, 2, 4}
  MaxBytes = 3
  MaxAccepted = 4
INVARIANTS
  TypeOK
  QueueAccounting
  LossIsReported
  ClosedMeansJoined
PROPERTIES
  ImplementsBytePipe
  RefusalIsFinal
  CloseCompletes
  AcceptedIsWritten
CHECK_DEADLOCK FALSE
