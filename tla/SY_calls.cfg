SPECIFICATION FairSpec
CONSTANTS
  MaxCalls = 2
  Checks = TRUE
CHECK_DEADLOCK FALSE
INVARIANTS CallsApart
PROPERTIES SecretsErased CallsEnd
