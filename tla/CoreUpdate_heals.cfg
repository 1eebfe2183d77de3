CONSTANTS
  NumReleases = 2
  MinSafe = 1
  Pinned = 2
  GeoReleases = {}
  Absent = Absent
  Torn = Torn
  None = None
  MaxRuns = 0
  MaxFaults = 2
  CleanCopies = FALSE
SPECIFICATION FairSpec
PROPERTIES EventuallyCurrent
CHECK_DEADLOCK FALSE
