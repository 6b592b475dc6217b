SPECIFICATION FairSpec
CONSTANTS
  MaxInt = 15
  quantityScale = 1
  Ids = {o1, o2}
  Requests = {r1, r2}
  Keys = {}
  NoKey = NoKey
  Nil = Nil
  FillQtys = {2}
  FillPrices = {2}
  BufferSize = 1
  FillsFollowRouting = TRUE
  Terms <- MCBuyOnly
PROPERTIES RequestsReturn StoredOrdersReachReadModel
