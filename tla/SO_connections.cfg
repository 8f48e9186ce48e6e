SPECIFICATION PartsSpec
CONSTANTS
  c1 = c1
  c2 = c2
  c3 = c3
  u1 = u1
  u2 = u2
  Conns = {c1, c2, c3}
  Nobody = Nobody
  Settings <- MCSettings
  MaxFaults = 1
  MaxBody = 12
  Secrets <- MCSecrets
  MaxParts = 2
CHECK_DEADLOCK FALSE
INVARIANTS ConnectionsExact FramesTrue
PROPERTIES SlotsReturn
