SPECIFICATION Spec
CONSTANTS
  Capacity = 2
  MaxCycles = 2
INVARIANTS
  TypeOK
  StoppedIsQuiet
PROPERTIES
  ImplementsLifecycle
  ShutdownCompletes
  EveryEventIsRouted
  BoundedRunEnds
  BusCloses
CHECK_DEADLOCK FALSE
