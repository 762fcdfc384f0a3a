SPECIFICATION FairStreamSpec
CONSTANTS
  Chunk = 3
  MaxPiece = 5
  Version = 1
  Bundles <- AllBundles
INVARIANTS
  StagingIsSound
  TheVerdictNamesTheCause
PROPERTIES
  StagingEnds
CHECK_DEADLOCK FALSE
