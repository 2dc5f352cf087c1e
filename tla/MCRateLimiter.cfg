CONSTANTS
  a1 = a1
  a2 = a2
  Ips <- Addresses
  MaxServing = 2
  ReadLimit = 2
  MutationLimit = 1
  Window = 3
  IdleTTL = 5
  Delay = 1
  MaxTime = 18
  MaxRequests = 4
SPECIFICATION Spec
SYMMETRY Symmetry
INVARIANTS
  AtMostTwoLimits
PROPERTIES
  Implements
  MemoryBounded
CHECK_DEADLOCK FALSE
