SPECIFICATION LiveSpec
CONSTANTS
  r1 = r1
  Runs = {r1}
  NoRun = NoRun
  MaxParallel = 1
  MaxCrashes = 2
  ExplicitContext = TRUE
  Cancels = {r1}
  Cleans = {r1}
  Faulty = {r1}
  Unreadable = {}
INVARIANTS
  CleanupAfterSeal
  CompletedIsRecorded
  FailedHasEnded
  DropLeavesNoPod
  PodDeletedIsTrue
PROPERTIES
  TerminalIsFinal
  OneController
  OperationsEnd
