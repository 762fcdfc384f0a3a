SPECIFICATION FairSpec
CONSTANTS
  b1 = b1
  up1 = up1
  cr1 = cr1
  Base <- OneRow
  Uploaders <- OneUploader
  Creators <- NoRequest
  MaxRestores = 2
  MaxCrashes = 2
  Faults <- LiveFaults
PROPERTIES
  FlagComesDown
CHECK_DEADLOCK FALSE
