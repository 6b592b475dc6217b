SPECIFICATION FairSpec
CONSTANTS
  MaxInt = 7
  quantityScale = 1
  RetryAttempts = 3
  RouteTimeout = 2
  BaseDelay = 2
  MaxDelay = 3
  Terms <- MCTerms
  MarketPrice = 1
  FillQtys = {1}
  MaxFailures = 1
INVARIANTS TypeOK CopiesAccountedFor ExecutedOnce WithinBudget
PROPERTY RouteReturns
