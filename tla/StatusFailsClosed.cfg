SPECIFICATION Spec
CONSTANTS
  PendingLimit = 0
  WarnAge = 1
  CritAge = 2
  MaxAttempts = 1
  MaxMishaps = 2
PROPERTY
  OffsiteFailsClosed
