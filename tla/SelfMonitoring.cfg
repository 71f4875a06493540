SPECIFICATION SpecMonitor
CONSTANTS
  none = none
  Signals <- MCSignals
  Codes <- MCCodes
  NoCode = none
  CodeOf <- MCCodeOf
  InputStates = {"HEALTHY", "DEGRADED", "WARNING", "CRITICAL", "UNKNOWN"}
  Times = {0}
  NotResolved = none
  MaxObservations = 12
  Sources = {"collector"}
  MaxAttempts = 2
  MaxAge = 2
  WarningAge <- MCWarningAge
  CriticalAge <- MCCriticalAge
INVARIANTS
  TypeOKMonitor
  SilenceNoticed
  AlarmIsEarned
  OneAlarmPerSilence
