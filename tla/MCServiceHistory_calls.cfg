SPECIFICATION FairSpec
CONSTANTS
  d1 = d1
  d2 = d2
  d3 = d3
  r1 = r1
  r2 = r2
  r3 = r3
  e1 = e1
  e2 = e2
  e3 = e3
  e4 = e4
  e5 = e5
  i1 = i1
  i2 = i2
  i3 = i3
  p = p
  q = q
  o = o
  u = u
  n1 = n1
  n2 = n2
  n3 = n3
  a = a
  b = b
  Defaults <- MCDefaults
  Rules <- MCRules
  Events <- MCEvents
  ServicedItems <- MCItems
  Shelves <- MCShelves
  RuleNames <- MCNames
  ShelfOf <- MCShelfOf
  Owner <- MCOwner
  Editors <- MCEditors
  Stored <- MCStored
  Session <- MCSession
  User <- MCUser
  Role <- RenameRoles
INVARIANTS
  TablesAreSound
PROPERTIES
  RenamesCarryThrough
  CallsEnd
CHECK_DEADLOCK FALSE
