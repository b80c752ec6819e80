SPECIFICATION FairSpec
CONSTANTS
  IntBits = 2
  Random <- MCRandom
  Settings <- MCSettings
  BufferSize = 1
INVARIANTS SharesSumToSecret RevealedIsSecret
PROPERTIES ProgramsEnd
CHECK_DEADLOCK FALSE
