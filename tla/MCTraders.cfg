CONSTANTS
  n1 = n1
  m1 = m1
  Noise <- OneNoise
  MeanRevs <- OneRev
  Levels = 2
  MinTrades = 2
  Slots = 1
  MaxTrades = 5
  MaxSessions = 2
SPECIFICATION Spec
INVARIANTS
  OneLateTrade
PROPERTIES
  PacedTrades
  OncePerExcursion
  BotsReturn
CHECK_DEADLOCK FALSE
