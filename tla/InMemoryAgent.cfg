SPECIFICATION FairSpec
CONSTANTS
  SendSizes = {1, 2}
  ReceiveSizes = {0, 1, 2}
  MaxBytes = 3
PROPERTIES ImplementsAgent ReceiveReturns
CHECK_DEADLOCK FALSE
