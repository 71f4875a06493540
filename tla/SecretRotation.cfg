SPECIFICATION Spec
CONSTANTS
  MaxRotations = 3
  MaxMishaps = 4
  Mishaps = {"fail", "lost", "signal", "crash"}
INVARIANTS
  TypeOK
  SuccessMeansAgreed
  FailureUndone
  DeployRepairs
