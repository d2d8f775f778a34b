SPECIFICATION LiveSpec
CONSTANTS
  s1 = s1
  s2 = s2
  Symbols <- OneSymbol
  OrderIds <- MCIds2
  MaxQty = 2
  Sides <- Long
  MaxTrades = 2
  MaxLoss <- MCMaxLoss
  PnLs <- Nothing
  ReportsOpen = TRUE
  PartialFills = TRUE
  LateRejects = FALSE
  ManualTrades = FALSE
  Outages = {"crash", "read"}
  LastDate = 1
CHECK_DEADLOCK FALSE
INVARIANT ManagedMatchesBroker
