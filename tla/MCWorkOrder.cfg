\* Three handlers on one order; completions report different volumes, or none.
SPECIFICATION Spec
CONSTANTS
  Order = {o1}
  Client = {c1, c2, c3}
  Volume <- Volumes
  MaxVersion = 7
SYMMETRY Symmetry
CHECK_DEADLOCK FALSE
INVARIANTS
  TypeOK
  CompletedAsReported
PROPERTIES
  ClosedStands
