SPECIFICATION Spec
CONSTANTS
  Newline = Newline
  Stale = Stale
  Setups <- MCSetups
  ReadSizes = {1, 2, 4}
  MaxLength = 2
  MAX_RETRY_COUNT = 3
INVARIANTS UploadsEntireFile
CHECK_DEADLOCK FALSE
