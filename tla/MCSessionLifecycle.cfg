SPECIFICATION FairSpec
CONSTANTS
  Killers = {k1}
  Signals = {"KILL", "TERM"}
  Modes = {m1, m2}
  Privileges = {TRUE, FALSE}
  ModeEvents = {TRUE, FALSE}
INVARIANTS
  ClosedIsQuiet
  ClosedChildIsDead
  ExitIsTrue
PROPERTIES
  CallsReturn
  ExitIsReported
  ModeIsReported
CHECK_DEADLOCK FALSE
