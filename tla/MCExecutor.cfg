CONSTANTS
  c1 = c1
  c2 = c2
  Calls <- TwoCalls
  Mixes <- AnyTwo
  Slots = 1
  MaxFailures = 2
  MaxReseeds = 1
SPECIFICATION Spec
INVARIANTS
  NoCollision
  GapsExplained
  SellsApproved
PROPERTIES
  TradesLand
  CallsReturn
CHECK_DEADLOCK FALSE
