CONSTANTS
  w1 = w1
  Conns <- OneConn
  Capacity = 1
  MaxVersion = 2
SPECIFICATION Spec
INVARIANTS
  StaleExplained
PROPERTIES
  ShutdownEnds
  BrokenLeave
CHECK_DEADLOCK FALSE
