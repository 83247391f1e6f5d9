SPECIFICATION Spec
CONSTANTS
  w1 = w1
  w2 = w2
  None = None
  Workers = {w1, w2}
  Mode <- MCMode
  Packages = TRUE
INVARIANTS
  EnvironmentIsWhole
  ResultIsEarned
PROPERTIES
  WorkerEnds
CHECK_DEADLOCK FALSE
