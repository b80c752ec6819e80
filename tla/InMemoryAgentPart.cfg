SPECIFICATION Spec
CONSTANTS
  SendSizes = {2}
  ReceiveSizes = {1}
  MaxBytes = 4
INVARIANTS ReceivesNextBytes
CHECK_DEADLOCK FALSE
