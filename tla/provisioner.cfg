SPECIFICATION FairSpec
CONSTANTS
  d1 = d1
  d2 = d2
  x = x
  Databases = {d1, d2}
  Foreign = x
  MaxReleases = 3
  MaxFaults = 2
INVARIANTS TypeOK LostOnlyByFaults
PROPERTIES  RecordGoesLast DroppedIsRemoved
CHECK_DEADLOCK FALSE
