SPECIFICATION Spec
CONSTANTS
  Procs = {p1, p2}
  Codes = {c1}
  MaxSessions = 2
  MaxCommands = 2
  MaxCrashes = 0
CHECK_DEADLOCK FALSE
INVARIANT OneActiveMethod
