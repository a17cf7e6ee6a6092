SPECIFICATION FairSpec
CONSTANTS
  None = None
  Task = {t1}
  Executor = {e1, e2}
  Lease = {l1, l2}
  Caller = {h, x}
  HTTPCaller = {h}
  LeaseTimeout = 1
  MaxClock = 3
  MaxFaults = 1
CHECK_DEADLOCK FALSE
PROPERTIES
  PreemptedIsReassigned
