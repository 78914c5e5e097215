SPECIFICATION Spec
CONSTANTS
  Links = {l1}
  Names = {n1}
  Clients = {c1, c2}
  Reqs = {r1, r2, r3}
  None = None
  TTLs = {2}
  TokenTTL = 1
  PinnedSecret = FALSE
  DbFaults = TRUE
  Horizon = 2
  MaxEpoch = 1
SYMMETRY Symmetry
INVARIANTS
  ShownOnce
  SoleReader
