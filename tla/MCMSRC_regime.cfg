SPECIFICATION Spec
CONSTANTS
  Scale <- DefaultIds
  Rank <- DefaultRank
  Executable <- LadderExecutable
  DefaultScale = "1x1"
  Regime <- RegimeLabels
  Profile <- RegimeProfile
  RegimeAware = TRUE
  Readings <- MCReadings
  ProbeDelta <- MCProbeDelta
  Episodes = 10
  NoScale = NoScale
  NoResult = NoResult
INVARIANTS
  TypeOK
  PendingProbeIsFresh
  LedgerGivesScale
  ProbesAreAnswered
PROPERTIES
  ImplementsHysteresis
CHECK_DEADLOCK FALSE
