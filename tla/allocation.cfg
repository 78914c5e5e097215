SPECIFICATION FairSpec
CONSTANTS
  Reqs = {r1, r2}
  WordCount = 2
  LimitedWords = 2
  GrowAt = 2
  TTLs = {3600, 3601, 172800, 172801}
  Stock = 2
  Budget = 3
  MaxWords = 4
CHECK_DEADLOCK FALSE
INVARIANTS
  PolicyHolds
PROPERTIES
  CreateEnds
  OccupancySettles
