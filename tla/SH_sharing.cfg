SPECIFICATION PartsSpec
CONSTANTS
  Procs = {p1, p2}
  Refs = {1,2,3,4,5,6}
  Slots = {"auth"}
  Ops = {"login","refresh","clear"}
  MaxCrashes = 0
  MaxFaults = 0
  Readers = {r1, r2}
  Life = 1
  MaxAge = 2
  MaxHops = 1
  MaxTime = 3
  Starts = {c1, c2}
  Stops = {s1}
  Pids = {1, 2}
  Free = Free
  MaxProcs = 3
SYMMETRY Symmetry
INVARIANTS DiscardSafe AnswersTrue OneServiceStops
PROPERTY SessionRegister
CHECK_DEADLOCK FALSE
