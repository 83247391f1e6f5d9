SPECIFICATION Spec
CONSTANTS
    Changes = {a}
    MaxIterations = 1
    MaxFailures = 1
    Patience = 1
    RecallLimit = 1
    MaxRuns = 2
    MaxFaults = 1
    Strikes = {"kill"}
CHECK_DEADLOCK FALSE
INVARIANTS
  MeasuredIsFresh
