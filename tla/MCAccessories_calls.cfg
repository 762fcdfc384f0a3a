SPECIFICATION FairSpec
CONSTANTS
  f = f
  g = g
  h = h
  x = x
  y = y
  r1 = r1
  r2 = r2
  o = o
  e = e
  a = a
  b = b
  Firearms <- MCFirearms
  OwnerOf <- MCOwnerOf
  Accessories <- MCAccessories
  RangeSessions <- MCRangeSessions
  Users <- MCUsers
  Session <- MCSession
  User <- MCUser
  Stored <- MCStored
  Shared <- MCShared
  Role <- AllRoles
INVARIANTS
  MountsAreSound
  RoundsStayWithTheOwner
PROPERTIES
  DateFitsTheMount
  CallsEnd
CHECK_DEADLOCK FALSE
