SPECIFICATION PartsSpec
CONSTANTS
  None = None
  Procs = {p1, p2}
  Users = {u, v}
  MaxIssued = 2
  MaxWrites = 8
  MaxCommands = 3
  MaxEvents = 1
  Codes = {c1, c2}
  MaxSessions = 3
  MaxLogins = 3
  MaxCrashes = 1
  Servers = {s1}
  Commands = {d1, d2}
  MaxSaved = 2
  MaxMarks = 3
  MaxFiles = 2
  Terminals = {t1, t2}
  Factors = {f1, f2, f3}
  Salts = {1, 2, 3, 4}
  Connections = {w1}
  Releases = {new, old}
  Mine = new
  Other = Other
  Instances = {i1, i2, i3}
  Pids = {1, 2}
  Nobody = Nobody
  MaxIncidents = 2
  Keys = {k1, k2}
  Programs = {a, b}
  MaxStarts = 3
SYMMETRY Symmetric
CHECK_DEADLOCK FALSE
INVARIANTS AccessKept OwnState LoginKept SessionsKeptApart ReportedFactorOpens OwnServiceOnly PeersKnown
