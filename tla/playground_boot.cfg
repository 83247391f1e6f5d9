SPECIFICATION Spec
CONSTANTS
  MaxSessions = 1
  MaxRuns = 1
  MaxCreated = 2
  Cancels = {1}
  MaxStops = 2
  MaxReleases = 1
  PipeSize = 1
  BootMayCrash = TRUE
CHECK_DEADLOCK FALSE
PROPERTIES
  NeverResumed
