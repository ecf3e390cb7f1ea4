SPECIFICATION Spec
CONSTANTS
  Episodes = 5
  ScopeCount = 2
  Impressions <- CalmAndStain
  Mishaps = 2
INVARIANTS
  ChainHasNoGap
  EvidenceIsKept
PROPERTIES
  ImplementsProcess
  BlockOutlivesRunner
CHECK_DEADLOCK FALSE
