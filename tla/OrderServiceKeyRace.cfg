SPECIFICATION FairSpec
CONSTANTS
  MaxInt = 15
  quantityScale = 1
  Ids = {o1, o2}
  Requests = {r1, r2}
  Keys = {k1}
  NoKey = NoKey
  Nil = Nil
  FillQtys = {}
  FillPrices = {2}
  BufferSize = 2
  FillsFollowRouting = TRUE
  Terms <- MCBuyOnly
PROPERTY KeyRoutesOneOrder
