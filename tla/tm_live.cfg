SPECIFICATION FairRunnerSpec
CONSTANTS
  s1 = s1
  s2 = s2
  Symbols <- OneSymbol
  OrderIds <- MCIds3
  MaxQty = 2
  Sides <- Both
  MaxTrades = 2
  MaxLoss <- MCMaxLoss
  PnLs <- LossOrNothing
  ReportsOpen = TRUE
  PartialFills = FALSE
  LateRejects = TRUE
CHECK_DEADLOCK FALSE
INVARIANT OneExitInFlight
INVARIANT NeverAheadOfBroker
INVARIANT EntriesNearLimit
PROPERTY PendingOrdersSettle
PROPERTY ExitsResolve
