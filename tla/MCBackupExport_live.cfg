SPECIFICATION FairSpec
CONSTANTS
  f1 = f1
  f2 = f2
  d1 = d1
  d2 = d2
  d3 = d3
  Firearms <- TwoFirearms
  Documents <- ThreeDocuments
  Of <- OfFirearm
  Kept <- FirstFirearm
  Stored <- NoDocument
  RFirearms <- FirstFirearm
  RDocuments <- RestoredDocument
INVARIANTS
  ExportIsSound
  BundleIsWhole
PROPERTIES
  ExportEnds
CHECK_DEADLOCK FALSE
