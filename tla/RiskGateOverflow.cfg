SPECIFICATION Spec
CONSTANTS
  MaxInt = 31
  quantityScale = 2
  MaxNotional = 8
  MaxQuantity = 6
  RejectScore = 80
  ModelRejectScore = 80
  NoAnswer = NoAnswer
  Nil = Nil
  Terms <- MCTerms
  Answers <- MCAnswers
INVARIANT OversizedNeverApproved
