SPECIFICATION Spec
CONSTANTS
  thermal = thermal
  resource = resource
  Episodes = 3
  Scenarios <- MCWorlds
  Formula <- Production
  Impressions <- MCGood
  NewestFirst = FALSE
  EventLimit = 4
  MesoLimit = 2
  Support = 2
  MaxHistory = 2
INVARIANT ValidIsCertified
SYMMETRY Interchangeable
CHECK_DEADLOCK FALSE
