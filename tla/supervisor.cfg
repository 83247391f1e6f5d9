SPECIFICATION LiveSpec
CONSTANTS
  w1 = w1
  w2 = w2
  Workers = {w1, w2}
  NoWorker = NoWorker
  MaxVersion = 4
  SyncRaw = FALSE
  ExternalFaults = TRUE
CHECK_DEADLOCK FALSE
INVARIANTS
  EvidenceSafe
  VerdictsAreTrue
PROPERTIES
  IndexedIsFinal
  ImplementsController
  RunEnds
