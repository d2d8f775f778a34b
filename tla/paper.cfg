SPECIFICATION Spec
CONSTANTS
  s1 = s1
  s2 = s2
  Symbols <- TwoSymbols
  Prices = {9, 11}
  Quantities = {1, 2}
  Capital = 12
  MarginPct = 50
  MaxTrades = 2
  MaxLoss <- MCMaxLoss
  PnLs <- SomePnL
  LastDay = 1
SYMMETRY Symmetry
CHECK_DEADLOCK FALSE
INVARIANT PaperTypeOK
INVARIANT BooksMatchBroker
INVARIANT MoneyConserved
INVARIANT DailyPnlIsOfToday
INVARIANT OneEntryPerSymbolADay
PROPERTY LossStopsEntries
