SPECIFICATION Spec
CONSTANT
  Setups <- MCSetups
  Wire = {1, 2, 3, 4, 5, 6}
  Empty = Empty
  MaxAliases = 4
INVARIANTS WiresHeld ValuesKept
CHECK_DEADLOCK FALSE
