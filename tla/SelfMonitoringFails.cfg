SPECIFICATION SpecMonitor
CONSTANTS
  none = none
  Signals <- MCSignals
  Codes <- MCCodes
  NoCode = none
  CodeOf <- MCCodeOf
  InputStates = {"HEALTHY", "DEGRADED", "WARNING", "CRITICAL", "UNKNOWN"}
  Times = {0}
  NotResolved = none
  MaxObservations = 15
  Sources = {"collector"}
  MaxAttempts = 1
  MaxAge = 2
  WarningAge <- MCWarningAge
  CriticalAge <- MCCriticalAge
PROPERTY
  FailedDeliveryStands
