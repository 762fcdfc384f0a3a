SPECIFICATION FairSpec
CONSTANTS
  m1 = m1
  m2 = m2
  m3 = m3
  a = a
  b = b
  Firearms <- TwoFirearms
  Magazines <- ThreeMagazines
  Kept <- TwoKept
  Linked <- OneLinked
  Session <- Two
  Owners <- TwoOwners
  Role <- GuardedRoles
INVARIANTS
  OnlyMagazineFedLinked
PROPERTIES
  ReplacementIsExact
  CallsEnd
CHECK_DEADLOCK FALSE
