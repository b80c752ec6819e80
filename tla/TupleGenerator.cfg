SPECIFICATION FairSpec
CONSTANTS
  bufferSize = 2
  Sizes = {3}
  MaxRequests = 2
INVARIANTS TypeOK QueueExact Exclusive NoLostWakeup SameOrder Correlated UsedOnce
PROPERTIES RequestsAnswered
CHECK_DEADLOCK FALSE
