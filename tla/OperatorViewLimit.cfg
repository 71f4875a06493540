SPECIFICATION Spec
CONSTANTS
  Layout <- MCLayout
  OVERALL_COMPONENTS = {"Web", "Backups", "Services"}
  ViewLimit = 5
  FreshLimit = 1
  MaxMinutes = 2
  MaxSnapshots = 4
INVARIANT
  NothingBadHidden
CHECK_DEADLOCK FALSE
