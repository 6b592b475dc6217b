SPECIFICATION Spec
CONSTANTS
  MaxInt = 31
  quantityScale = 2
  MaxNotional = 8
  MaxQuantity = 6
  RejectScore = 0
  ModelRejectScore = 60
  NoAnswer = NoAnswer
  Nil = Nil
  Terms <- MCRepresentable
  Answers <- MCAnswers
INVARIANTS TypeOK ModelOnlyStricter OversizedNeverApproved
