SPECIFICATION FairSpec
CONSTANTS
  Links = {l1}
  Names = {n1}
  Clients = {c1}
  Reqs = {r1, r2}
  None = None
  TTLs = {1, 2}
  TokenTTL = 1
  PinnedSecret = TRUE
  DbFaults = FALSE
  Horizon = 2
  MaxEpoch = 0
PROPERTIES
  EveryRequestEnds
  EveryNameFreed
