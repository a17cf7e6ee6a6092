SPECIFICATION FairSpec
CONSTANTS
  DeclarationId = {d1, d2}
  Key = {}
  NoKey = NoKey
  None = None
  Client = {a}
  Volume = {0, 1}
  Amount <- NoAmount
  DailyLimit = 1
  Priority = {1, 2}
  Document = {h1}
  Party = {p, q}
  MaxVersion = 3
  MaxEdits = 2
  MaxExpiries = 0
CHECK_DEADLOCK FALSE
INVARIANTS
  DecisionStands
PROPERTIES
  FirstIsPromoted
