SPECIFICATION Spec
CONSTANTS
  Newline = Newline
  Stale = Stale
  Setups <- MCSetups
  ReadSizes = {1, 2, 4}
  MaxLength = 4
  MAX_RETRY_COUNT = 3
INVARIANTS AnswersFollowFile StoredIsWritten
CHECK_DEADLOCK FALSE
