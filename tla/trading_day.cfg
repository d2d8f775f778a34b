SPECIFICATION FairSpec
CONSTANTS
  s1 = s1
  s2 = s2
  Symbols <- OneSymbol
  ExpiryOf <- MCExpiryOf
  Configs <- AllConfigs
  DayLength = 6
  WeekLength = 3
  Horizon = 24
  HostOffset <- MCHostOffset
  Cooldown = 2
  LastTime = 12
  PassLength = 1
  MaxChanges = 2
  AuthMaxAttempts = 2
  MaxTrades = 2
  MaxLoss <- MCMaxLoss
  PnLs <- Nothing
CHECK_DEADLOCK FALSE
INVARIANT TradingDayTypeOK
INVARIANT DatesMatchDefinition
INVARIANT PassLeavesNothingDue
INVARIANT UnknownExpiryStops
INVARIANT AuthLimit
 
PROPERTY RecoveryEnds
