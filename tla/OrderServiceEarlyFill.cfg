SPECIFICATION Spec
CONSTANTS
  MaxInt = 15
  quantityScale = 1
  Ids = {o1}
  Requests = {r1, r2}
  Keys = {}
  NoKey = NoKey
  Nil = Nil
  FillQtys = {1, 2}
  FillPrices = {2}
  BufferSize = 2
  FillsFollowRouting = FALSE
  Terms <- MCBuyOnly
INVARIANT PlacedProjectedBeforeFills
