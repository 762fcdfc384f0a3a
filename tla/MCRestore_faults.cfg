SPECIFICATION Spec
CONSTANTS
  b1 = b1
  up1 = up1
  cr1 = cr1
  Base <- OneRow
  Uploaders <- OneUploader
  Creators <- OneCreator
  MaxRestores = 2
  MaxCrashes = 1
  Faults <- AllFaults
INVARIANTS
  AlwaysRecoverable
  OpenMeansBacked
  OutcomeIsTrue
  StuckKeepsSnapshot
PROPERTIES
  AllOrNothing
CHECK_DEADLOCK FALSE
