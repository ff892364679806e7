CONSTANTS
  Settings   <- MCStill
  Starts     <- MCStill
  Variants   <- MCVariants
  Readings   <- MCMixed
  Rankings   <- MCRankings
  Verdicts   <- MCVerdicts
  Prices     = {90, 100, 110}
  Opening    = 100
  MaxPositions = 3
SPECIFICATION Spec
CHECK_DEADLOCK FALSE
INVARIANT
  ScannersBuyTheirSide
