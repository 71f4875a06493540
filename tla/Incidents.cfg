SPECIFICATION SpecStability
CONSTANTS
  s1 = s1
  s2 = s2
  s3 = s3
  c1 = c1
  c2 = c2
  none = none
  Signals = {s1, s2, s3}
  Codes = {c1, c2}
  NoCode = none
  CodeOf <- SharedAndOwnCode
  InputStates = {"HEALTHY", "DEGRADED", "CRITICAL", "UNKNOWN"}
  Times <- TwoTimes
  NotResolved = NotResolved
  MaxObservations = 6
INVARIANTS
  TypeOK
  AtMostOneActive
  ActiveHasCause
  KeysUnique
  OutboxTellsLifecycle
  FailingHasIncident
  OneIncidentPerFault
PROPERTY
  ImplementsLifecycle
SYMMETRY SignalSymmetry
CHECK_DEADLOCK FALSE
