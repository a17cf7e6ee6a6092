SPECIFICATION Spec
CONSTANTS
  DeclarationId = {d1, d2}
  Key = {k1}
  NoKey = NoKey
  None = None
  Client = {a, b}
  Volume = {1, 5}
  Amount <- SignedAmount
  DailyLimit = 6
  Priority = {1, 11}
  Document = {}
  Party = {}
  MaxVersion = 3
  MaxEdits = 2
  MaxExpiries = 1
CHECK_DEADLOCK FALSE
SYMMETRY Symmetry
INVARIANTS
  TypeOK
  DeclarationsPaid
  AnswersNameOneDeclaration
PROPERTIES
  OnlyLegalMoves
  PromotedInOrder
