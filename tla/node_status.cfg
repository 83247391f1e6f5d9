SPECIFICATION MonitorSpec
CONSTANTS
  n1 = n1
  g1 = g1
  g2 = g2
  None = None
  Nodes = {n1}
  Gpus = {g1, g2}
  Loads <- MCLoads
  Listings <- MCListings
  CacheTicks = 1
  StaleTicks = 3
INVARIANTS
  IdleIsTrue
PROPERTIES
  RefreshEnds
