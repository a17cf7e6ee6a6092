SPECIFICATION Spec
CONSTANTS
  Quota = {q1}
  Caller = {a, b, c}
  Amount <- SignedAmount
  DailyLimit = 3
  MaxRetries = 1
  MaxAttempts = 2
  MaxVersion = 3
CHECK_DEADLOCK FALSE
SYMMETRY Symmetry
INVARIANTS
  TypeOK
  LimitKept
  ConflictMeansContention
PROPERTIES
  KeepsLedger
