SPECIFICATION Spec
CONSTANTS
  Killers = {k1}
  Signals = {"KILL", "TERM"}
  Modes = {m1, m2}
  Privileges = {FALSE}
  ModeEvents = {TRUE, FALSE}
INVARIANT
  NeverSignalsStalePid
CHECK_DEADLOCK FALSE
