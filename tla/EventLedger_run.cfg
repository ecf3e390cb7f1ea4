SPECIFICATION Spec
CONSTANTS
  p1 = p1
  p2 = p2
  Opener <- TwoProcesses
  LegacyIds <- LegacyWithGap
  LastEvent = 6
  BatchSize = 2
INVARIANTS
  TypeOK
  NothingDestroyed
  VisibleIfOrderly
  CopyIsFaithful
PROPERTY
  ImplementsLog
