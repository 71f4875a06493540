SPECIFICATION FairSpec
CONSTANTS
  w1 = w1
  Workers = {w1}
  MaxRequests = 2
  Tests <- LastIsTest
  MaxAttempts = 2
  Limit = 2
  Budget = 1
  MaxCost = 1
  MaxBroken = 1
  MaxRestarts = 1
INVARIANTS
  TypeOK
  LedgerBalanced
  ChargesCovered
  TestsCalledOnce
  CallsBounded
  LeaksAreRestarts
PROPERTY
  RequestsSettle
CHECK_DEADLOCK FALSE
