SPECIFICATION DowngradeSpec
CONSTANTS
  Scale <- ScaleIds
  Rank <- ScaleRank
  Executable <- Executables
  DefaultScale = "1x1"
  Engine = "baseline"
  Regime <- BaselineRegime
  Profile <- BaselineProfile
  RegimeAware = FALSE
  Readings <- EstimatorReadings
  Observed <- LowDemand
  ProbeDelta <- Deltas
  Episodes = 14
  NoScale = NoScale
  NoResult = NoResult
INVARIANTS
  LowDemandComesDown
CHECK_DEADLOCK FALSE
