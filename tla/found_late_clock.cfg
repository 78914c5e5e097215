SPECIFICATION Spec
CONSTANTS
  Keys = {a}
  Threads = {t1, t2}
  Burst = 2
  Cost = 2
  PruneAt = 2
  Horizon = 6
CHECK_DEADLOCK FALSE
INVARIANTS
  WindowBound
