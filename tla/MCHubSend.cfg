CONSTANTS
  w1 = w1
  Conns <- OneConn
  Capacity = 1
  MaxVersion = 1
SPECIFICATION Spec
INVARIANTS
  NoSendAfterClose
CHECK_DEADLOCK FALSE
