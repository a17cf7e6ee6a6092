\* One client, two windows and the tick; the engine ticks for ever.
SPECIFICATION FairSpec
CONSTANTS
  WindowId = {w1, w2}
  Client = {c1}
  Period <- OnePeriod
  MaxTime = 2
  MaxBatch = 2
  MaxVersion = 4
  MaxLevel = 2
  MaxFaults = 1
CHECK_DEADLOCK FALSE
INVARIANTS
  TypeOK
  HistoryFollowsLevel
PROPERTIES
  OnlyLegalMoves
  OverdueEscalates
