SPECIFICATION Spec
CONSTANTS
  thermal = thermal
  resource = resource
  Episodes = 3
  Scenarios <- MCWorlds
  Formula <- Production
  Impressions <- MCImpressions
  NewestFirst = TRUE
  EventLimit = 4
  MesoLimit = 2
  Support = 2
  MaxHistory = 2
INVARIANT TypeOK
INVARIANT GateInv
INVARIANT SeriesFollowsLedger
INVARIANT ValidIsCertified
PROPERTY ImplementsLife
SYMMETRY Interchangeable
CHECK_DEADLOCK FALSE
