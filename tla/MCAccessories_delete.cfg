SPECIFICATION Spec
CONSTANTS
  f = f
  g = g
  h = h
  x = x
  y = y
  r1 = r1
  r2 = r2
  o = o
  e = e
  a = a
  b = b
  Firearms <- MCFirearms
  OwnerOf <- MCOwnerOf
  Accessories <- MCAccessories
  RangeSessions <- MCRangeSessions
  Users <- MCUsers
  Session <- MCSession
  User <- MCUser
  Stored <- OnlyDated
  Shared <- NoneShared
  Role <- DeleteRoles
INVARIANTS
  DeletionUnmounts
CHECK_DEADLOCK FALSE
