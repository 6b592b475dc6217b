SPECIFICATION Spec
CONSTANTS
  MaxInt = 31
  quantityScale = 2
  OrderID = "o1"
  Terms <- MCTerms
  FillQtys <- MCFillQtys
  FillPrices <- MCFillPrices
INVARIANTS TypeOK StatusMatchesFills EventsReplayToState AvgDriftBounded AvgWithinFillPrices
PROPERTIES TerminalIsFinal VersionGuardsContent
CHECK_DEADLOCK FALSE
