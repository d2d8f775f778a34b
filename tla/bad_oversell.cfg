SPECIFICATION RunnerSpec
CONSTANTS
  s1 = s1
  s2 = s2
  Symbols <- OneSymbol
  OrderIds <- MCIds3
  MaxQty = 2
  Sides <- Long
  MaxTrades = 2
  MaxLoss <- MCMaxLoss
  PnLs <- Nothing
  ReportsOpen = TRUE
  PartialFills = TRUE
  LateRejects = FALSE
CHECK_DEADLOCK FALSE
INVARIANT ExitsNeverOversell
