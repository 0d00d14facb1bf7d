SPECIFICATION FairSpec
CONSTANTS
  Killers = {k1}
  Signals = {"KILL", "TERM"}
  Modes = {m1, m2}
  Privileges = {FALSE}
  ModeEvents = {TRUE, FALSE}
PROPERTY
  FailedStartReleasesSession
CHECK_DEADLOCK FALSE
