SPECIFICATION Spec
CONSTANTS
  w1 = w1
  Workers = {w1}
  MaxRequests = 1
  Tests <- NoTests
  MaxAttempts = 2
  Limit = 2
  Budget = 3
  MaxCost = 2
  MaxBroken = 0
  MaxRestarts = 1
INVARIANT
  MissingUsageKept
CHECK_DEADLOCK FALSE
