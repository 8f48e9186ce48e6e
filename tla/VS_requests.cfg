SPECIFICATION PartsSpec
CONSTANTS
  s = s
  t = t
  u = u
  v = v
  Slots = {s, t}
  Users = {u, v}
  Nobody = Nobody
  Limit = 1
  Bounds <- MCBounds
  Requests = {r1, r2}
  Contexts = {c1, c2}
  Keys = {k1, k2}
  Wraps = {w1, w2}
  None = None
  Records = {m1, m2}
  MaxFailures = 2
  Policies <- MCPolicies
CHECK_DEADLOCK FALSE
INVARIANTS SecretsReadable CurrentKeyOpensHeader KeysExpire AnswerToAsker KeyKept
PROPERTIES QueueMovesOn ControlsObeyed
