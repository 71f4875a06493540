SPECIFICATION FairSpec
CONSTANTS
  w1 = w1
  Workers = {w1}
  MaxAttempts = 2
  Limit = 2
  MaxEvents = 3
  MaxMishaps = 1
INVARIANTS
  TypeOK
  MailedAsRecorded
  RetriesBounded
PROPERTIES
  OutcomesFinal
  EventsSettle
CHECK_DEADLOCK FALSE
