SPECIFICATION Spec
CONSTANTS
    Changes = {a, b}
    MaxIterations = 3
    MaxFailures = 2
    Patience = 2
    RecallLimit = 2
    MaxRuns = 2
    MaxFaults = 2
    Strikes = {"write", "interrupt", "kill"}
CHECK_DEADLOCK FALSE
INVARIANTS
  LegalMoves
  OneServicePerRun
  AcceptedIsMeasured
  NoRepeat
  LedgerIsBacked
PROPERTIES
  ManagedTeardown
  RunEnds
