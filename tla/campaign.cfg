SPECIFICATION Spec
CONSTANTS
  a = a
  b = b
  None = None
  NaN = NaN
  Campaigns = {a, b}
  LastCandidate <- MCLast
  Documents <- MCDocuments
  Results <- MCResults
  MaxFaults = 1
INVARIANTS
  LedgerTellsResult
  AcceptedIsGood
  CommandWritesItsResult
PROPERTIES
  CampaignEnds
CHECK_DEADLOCK FALSE
