SPECIFICATION FairSpec
CONSTANTS
  o = o
  e = e
  g = g
  a = a
  b = b
  p = p
  k = k
  Users <- MCUsers
  Prefixes = {p}
  Key = {k}
  Session <- MCSession
  CreateFor <- MCCreateFor
  User <- MCUser
  Role <- MCRole
  Inputs <- MCInputs
  Window = 1
  MaxTime = 2
  MaxCalls = 3
  MaxCrashes = 1
INVARIANTS
  RowsAreSound
PROPERTIES
  RunsOncePerKey
  LabelsContinue
  CallsEnd
CHECK_DEADLOCK FALSE
