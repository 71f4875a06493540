SPECIFICATION FairSpec
CONSTANTS
  PendingLimit = 0
  WarnAge = 1
  CritAge = 2
  MaxAttempts = 3
  MaxMishaps = 2
INVARIANTS
  TypeOK
  BackupsNotFlattered
PROPERTY
  FailureNoticed
