SPECIFICATION Spec
CONSTANTS
  w1 = w1
  w2 = w2
  w3 = w3
  w4 = w4
  Wire = {w1, w2, w3, w4}
  IntModulus = 4
  Party = {0}
  myId = 0
  MaxUnexecutedGates = 1
  Inputs <- MCInputs
  Strategies <- MCStrategies
  MaxRights = 1
  MaxReferences = 1
  Copied = {}
  MaxLevel = 1
  UnsetIndex = {0}
SYMMETRY Symmetry
INVARIANTS ResultsStored
CHECK_DEADLOCK FALSE
