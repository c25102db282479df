SPECIFICATION FairSpec
CONSTANTS
  Network = network
  LastSeg = 1
  MaxAttempts = 2
  ZeroSpace = 6
  MaxWire = 1
  MaxMessages = 2
  MaxAcks = 2
  MaxMishaps = 1
INVARIANTS CreditedWhereDue
PROPERTIES PdusStayWhole SendsReturn
CHECK_DEADLOCK FALSE
