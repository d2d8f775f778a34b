SPECIFICATION Spec
CONSTANTS
  Prices <- MCPrices
  Atrs = {0, 75, 120}
  None = None
  StopPct = 10
  TargetPct = 10
  ActivationPct = 10
  Multiplier = 2
CHECK_DEADLOCK FALSE
INVARIANT LevelsTypeOK
INVARIANT TrailingFollowsBest
INVARIANT SnapshotNeverTighter
INVARIANT NoHitSurvives
PROPERTY ProtectionOnlyTightens
