SPECIFICATION Spec
CONSTANTS
  w1 = w1
  w2 = w2
  w3 = w3
  Wire = {w1, w2, w3}
  IntModulus = 4
  Party = {0, 1}
  myId = 0
  MaxUnexecutedGates = 1
  Inputs <- MCInputs
  Strategies <- MCStrategies
  MaxRights = 2
  MaxReferences = 2
  Copied = {"int"}
  MaxLevel = 1
  UnsetIndex = {3}
SYMMETRY Symmetry
INVARIANTS TypeOK RefCountExact TopologicalOrder ForceFindsLevel LimitFindsLevel LevelPurity BatchingLimit ExecutedValue OnlyEmptyAndThrows
PROPERTIES ImplementsEager CallsReturn
CHECK_DEADLOCK FALSE
