SPECIFICATION BacklogSpec
CONSTANTS
  r1 = r1
  r2 = r2
  Runs = {r1, r2}
  NoRun = NoRun
  MaxParallel = 1
  MaxCrashes = 0
  ExplicitContext = TRUE
  Cancels = {}
  Cleans = {}
  Faulty = {r1}
  Unreadable = {r2}
INVARIANTS
  TypeOK
  TrackedBound
PROPERTIES
  QueueDrains
