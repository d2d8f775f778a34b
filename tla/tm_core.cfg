SPECIFICATION Spec
CONSTANTS
  s1 = s1
  s2 = s2
  Symbols <- TwoSymbols
  OrderIds <- MCIds3
  MaxQty = 2
  Sides <- Long
  MaxTrades = 2
  MaxLoss <- MCMaxLoss
  PnLs <- LossOrNothing
  ReportsOpen = FALSE
  PartialFills = TRUE
  LateRejects = FALSE
SYMMETRY MCSymmetry
CHECK_DEADLOCK FALSE
INVARIANT HeldIsProtected
INVARIANT PositionIsSumOfFills
INVARIANT OneTradePerFilledOrder
INVARIANT EntriesCounted
INVARIANT BooksAgree
PROPERTY OrdersFollowLifecycle
