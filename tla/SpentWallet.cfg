CONSTANTS
  Settings   <- MCWallet
  Starts     <- MCWallet
  Variants   <- MCVariants
  Readings   <- MCReadings
  Rankings   <- MCRankings
  Verdicts   <- MCVerdicts
  Prices     = {90, 100, 110}
  Opening    = 100
  MaxPositions = 3
SPECIFICATION Spec
CHECK_DEADLOCK FALSE
INVARIANT
  WalletCovers
