SPECIFICATION PartsSpec
CONSTANTS
  r1 = r1
  r2 = r2
  r3 = r3
  r4 = r4
  None = None
  Requests = {r1, r2, r3, r4}
  Exempt = {r3, r4}
  Closing = {r4}
  Size <- MCSize
  MaxWaiting = 2
  MaxBytes = 3
  Clis = {c1, c2}
  Daemons = {1, 2, 3}
  Builds = {new, old}
  Nobody = Nobody
  MaxCommands = 2
  MaxFaults = 1
CHECK_DEADLOCK FALSE
INVARIANTS ConnectionKept DaemonChecked
PROPERTIES ResetForgets ServiceKept CommandsAndRequestsEnd
