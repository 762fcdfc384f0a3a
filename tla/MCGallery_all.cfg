SPECIFICATION Spec
CONSTANTS
  p1 = p1
  p2 = p2
  p3 = p3
  p4 = p4
  d1 = d1
  a = a
  b = b
  Photos <- FourPhotos
  Documents <- OneDocument
  Stored <- TwoStored
  MaxPhotos = 3
  MaxDocuments = 1
  Session <- Two
  Owners <- OwnerB
  Files <- NewFiles
  Role <- Roles
  MaxStops = 1
  MaxSweeps = 1
  Faults <- AllFaults
INVARIANTS
  GalleryIsSound
  RowsAreSound
  CallsNeverStick
CHECK_DEADLOCK FALSE
