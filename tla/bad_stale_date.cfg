SPECIFICATION LiveSpec
CONSTANTS
  s1 = s1
  s2 = s2
  Symbols <- OneSymbol
  OrderIds <- MCIds2
  MaxQty = 1
  Sides <- Long
  MaxTrades = 2
  MaxLoss <- MCMaxLoss
  PnLs <- Nothing
  ReportsOpen = FALSE
  PartialFills = FALSE
  LateRejects = FALSE
  ManualTrades = FALSE
  Outages = {"interrupt"}
  LastDate = 1
CHECK_DEADLOCK FALSE
INVARIANT ExecutionConsumesLimit
