SPECIFICATION Spec
CONSTANTS
  Links = {l1}
  Tabs = {t1, t2}
  Awake = {t1, t2}
  None = None
  Grace = 1
  ClearedTtl = 2
  Horizon = 3
  MaxActs = 3
  MaxFlips = 1
INVARIANTS
  DeletedIsTrue
  AgreeAtRest
  ClearedStaysCleared
PROPERTIES
  EntriesMoveOn
  TokensArePurged
  RestUnlessTied
