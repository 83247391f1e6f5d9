SPECIFICATION LiveSpec
CONSTANTS
  MaxSessions = 2
  MaxRuns = 2
  MaxCreated = 3
  Cancels = {2}
  MaxStops = 1
  MaxReleases = 1
  PipeSize = 1
  BootMayCrash = FALSE
CHECK_DEADLOCK FALSE
INVARIANTS
  SessionsAreSafe
  SuccessIsWorkers
PROPERTIES
  EndsAreFinal
  WorkEnds
