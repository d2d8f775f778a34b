SPECIFICATION LiveSpec
CONSTANTS
  s1 = s1
  s2 = s2
  Symbols <- OneSymbol
  OrderIds <- MCIds2
  MaxQty = 2
  Sides <- Long
  MaxTrades = 2
  MaxLoss <- MCMaxLoss
  PnLs <- Nothing
  ReportsOpen = FALSE
  PartialFills = TRUE
  LateRejects = FALSE
  ManualTrades = TRUE
  Outages = {"crash", "read", "write", "login"}
  LastDate = 0
CHECK_DEADLOCK FALSE
INVARIANT SnapshotIsProtected
