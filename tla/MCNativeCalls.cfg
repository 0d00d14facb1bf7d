SPECIFICATION Spec
CONSTANTS
  s1 = s1
  s2 = s2
  Sessions = {s1, s2}
  Faulty = {s1}
  Ends <- MCEnds
  HostEnvironment <- MCHostEnvironment
  RequestsOf <- MCRequestsOf
  MaxBuffer = 2
INVARIANTS
  NothingLeftBehind
  OnlyWellFormedForks
  SessionIsAsRequested
  OwnershipIsAgreed
PROPERTIES
  ImplementsSupervision
  SpawnReturns
  ExitIsNoticed
CHECK_DEADLOCK FALSE
