SPECIFICATION Spec
CONSTANTS
  MaxInt = 1023
  quantityScale = 10
  moneyScale = 100
  a = a
  b = b
  c = c
  Ids = {a, b, c}
  RequestedShards = 3
  Hash <- MCHash
  Submissions <- MCSubmissions
  Request <- MCRequest
  FillQtys = {5}
  Times = {0, 1}
  Limits = {0, 1, 2}
  Nil = Nil
INVARIANTS ListMissesNothing ListNotStale ShownAsWritten RefusedOnlyIfUnrepresentable
