SPECIFICATION PartsSpec
CONSTANTS
  p1 = p1
  p2 = p2
  a = a
  b = b
  Procs = {p1, p2}
  Requests = {a, b}
  Placements <- SharedOrSeparate
  MaxSessions = 3
  MaxAttempts = 2
  MaxLost = 1
  MaxCrashes = 1
  MaxCommands = 4
  MaxChanges = 3
  MaxPolls = 3
  MaxMoves = 2
  MaxDepth = 4
  MaxServed = 2
  MaxOthers = 1
  MaxAsked = 1
  MaxTicks = 2
  MaxTasks = 2
  MaxRounds = 1
  Rotation = TRUE
CHECK_DEADLOCK FALSE
INVARIANTS RefreshShared StoredSessionUsable OutcomeTrue ExecutedOnce StatusTrue CallSound CatalogTrue
PROPERTIES RequestsAndCommandsEnd
