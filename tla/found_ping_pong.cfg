SPECIFICATION Spec
CONSTANTS
  Links = {l1}
  Tabs = {t1, t2}
  Awake = {t1, t2}
  None = None
  Grace = 1
  ClearedTtl = 2
  Horizon = 0
  MaxActs = 3
  MaxFlips = 0
PROPERTIES
  TabsComeToRest
