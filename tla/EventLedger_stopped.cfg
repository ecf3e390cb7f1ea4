SPECIFICATION Spec
CONSTANTS
  p1 = p1
  p2 = p2
  Opener <- OneProcess
  LegacyIds <- LegacyWithGap
  LastEvent = 5
  BatchSize = 2
INVARIANTS
  EventsAreVisible

