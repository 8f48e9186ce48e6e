SPECIFICATION CredentialsSpec
CONSTANTS
  Procs = {p1, p2}
  Refs = {1,2}
  Slots = {"auth","api_key","pending_device"}
  Ops = {"login","refresh","set","clear"}
  MaxCrashes = 1
  MaxFaults = 1
  Readers = {r1, r2}
  Life = 1
  MaxAge = 2
  MaxHops = 1
  MaxTime = 3
  Starts = {c1}
  Stops = {s1}
  Pids = {1}
  Free = Free
  MaxProcs = 1
INVARIANT StoredSecretsReadable
PROPERTIES NoSilentLeak InterruptedWorkEnds
