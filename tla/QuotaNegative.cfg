SPECIFICATION Spec
CONSTANTS
  Quota = {q1}
  Caller = {a, b}
  Amount <- SignedAmount
  DailyLimit = 2
  MaxRetries = 1
  MaxAttempts = 2
  MaxVersion = 3
CHECK_DEADLOCK FALSE
INVARIANTS
  NeverOverbooked
