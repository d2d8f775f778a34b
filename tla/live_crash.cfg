SPECIFICATION LiveSpec
CONSTANTS
  s1 = s1
  s2 = s2
  Symbols <- OneSymbol
  OrderIds <- MCIds3
  MaxQty = 1
  Sides <- Long
  MaxTrades = 2
  MaxLoss <- MCMaxLoss
  PnLs <- Nothing
  ReportsOpen = TRUE
  PartialFills = FALSE
  LateRejects = TRUE
  ManualTrades = FALSE
  Outages = {"crash", "read"}
  LastDate = 1
CHECK_DEADLOCK FALSE
INVARIANT LiveTypeOK
INVARIANT ManagedIsHeld
INVARIANT UnknownIsBlocked
INVARIANT CountCoversKnown
PROPERTY NoDuplicateEntry
PROPERTY BrokerFollowsCycle
