CONSTANTS
  NumReleases = 3
  MinSafe = 2
  Pinned = 2
  GeoReleases = {geo1}
  Absent = Absent
  Torn = Torn
  None = None
  MaxRuns = 1
  MaxFaults = 2
  CleanCopies = TRUE
SPECIFICATION Spec
INVARIANTS FailedIsUndone UpdatesGoForward RunningIsInstalled
PROPERTIES ServiceChoiceKept
CHECK_DEADLOCK FALSE
