SPECIFICATION Spec
CONSTANTS
  o = o
  e = e
  f = f
  h = h
  x = x
  n1 = n1
  n2 = n2
  rifle = rifle
  optic = optic
  s1 = s1
  s2 = s2
  Users <- MCUsers
  Firearms <- MCFirearms
  Accessories <- MCAccessories
  Names = {n1, n2}
  Categories <- MCCategories
  OwnerOf <- MCOwnerOf
  CategoryOf <- MCCategoryOf
  Origin <- MCOrigin
  Thresholds <- MCThresholds
  Rounds = {2}
  SessionIds = {s1, s2}
  Configured <- MCConfigured
  MAX_BULK_SERVICE_ITEMS = 2
  MaxDay = 1
  MaxWrites = 3
INVARIANTS
  ListsAreSound
  BacklogCanBeCleared
PROPERTIES
  ShownChangesForAReason
  CountsLikeMeters
CHECK_DEADLOCK FALSE
