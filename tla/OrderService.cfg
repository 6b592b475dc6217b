SPECIFICATION Spec
CONSTANTS
  MaxInt = 3
  quantityScale = 1
  Ids = {o1, o2}
  Requests = {r1, r2}
  Keys = {k1}
  NoKey = NoKey
  Nil = Nil
  FillQtys = {1, 2}
  FillPrices = {1}
  BufferSize = 2
  FillsFollowRouting = TRUE
  Terms <- MCTerms
SYMMETRY Symmetry
INVARIANTS TypeOK IdemPointsToStored StoredOrdersConsistent PositionsReconcile PlacedProjectedBeforeFills
PROPERTY ImplementsLedger
