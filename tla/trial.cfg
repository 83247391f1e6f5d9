SPECIFICATION BothSpec
CONSTANTS
  p = p
  q = q
  None = None
  Garbage = Garbage
  Values = {0, 8, 10, 11}
  Points <- MCPoints
  Documents <- MCDocuments
  Patches <- MCPatches
  r1 = r1
  r2 = r2
  commit = commit
  tag = tag
  Nil = Nil
  Runs = {r1, r2}
  Revisions = {commit, tag}
  Tags = {tag}
  MaxFaults = 3
INVARIANTS
  MeasuredHere
  VerdictIsEarned
  SourcesAreLocked
PROPERTIES
  SourcesEnd
CHECK_DEADLOCK FALSE
