\* A batch whose second row fails.
SPECIFICATION Spec
CONSTANTS
  WindowId = {w1, w2}
  Client = {c1}
  Period <- OnePeriod
  MaxTime = 2
  MaxBatch = 2
  MaxVersion = 4
  MaxLevel = 2
  MaxFaults = 1
CHECK_DEADLOCK FALSE
INVARIANT BatchAllOrNothing
