SPECIFICATION Spec
CONSTANTS
  Procs = {p1, p2}
  Refs = {1, 2}
  Slots = {"api_key"}
  Ops = {"set"}
  MaxCrashes = 0
  MaxFaults = 0

INVARIANT RecoveryFindsInterruptedWork
