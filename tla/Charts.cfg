CONSTANTS
  Studies <- MCStudies
  Warm    <- MCWarm
  Shapes  <- MCShapes
  MaxBars <- MCMaxBars
  Inputs  <- MCInputs
SPECIFICATION Spec
CHECK_DEADLOCK FALSE
PROPERTY OscillatorsInRange
PROPERTY TwinsAgree
PROPERTY MirroredChart
PROPERTY LegsAreExtremes
PROPERTY LinesTouchTheChart
PROPERTY ThinnedLineFits
PROPERTY ConsensusFlipsOnBreak
PROPERTY TrendTurnsApart
PROPERTY ClosedBarsStand
