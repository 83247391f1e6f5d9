SPECIFICATION Spec
CONSTANTS
  w1 = w1
  Workers = {w1}
  NoWorker = NoWorker
  MaxVersion = 4
  SyncRaw = FALSE
  ExternalFaults = FALSE
CHECK_DEADLOCK FALSE
INVARIANTS
  CancelledPodIsRecorded
