SPECIFICATION Spec
CONSTANTS
  None = None
  Task = {t1}
  Executor = {e1, e2}
  Lease = {l1, l2, l3}
  Caller = {h, g, x}
  HTTPCaller = {h, g}
  LeaseTimeout = 1
  MaxClock = 4
  MaxFaults = 1
SYMMETRY Symmetry
CHECK_DEADLOCK FALSE
INVARIANTS
  TypeOK
  ExecutionCredited
  LeaseFollowsTask
PROPERTIES
  ClaimHonoured
  KeepsPromise
