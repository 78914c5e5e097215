SPECIFICATION Spec
CONSTANTS
  Keys = {a, b, c}
  Threads = {t1}
  Burst = 2
  Cost = 2
  PruneAt = 2
  Horizon = 6
SYMMETRY Symmetry
CHECK_DEADLOCK FALSE
INVARIANTS
  WindowBound
  OnlyActiveBeyondPruneAt
PROPERTIES
  KeepsPromise
