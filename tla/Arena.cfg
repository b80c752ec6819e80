SPECIFICATION Spec
CONSTANTS
  a = a
  b = b
  NullOpt = NullOpt
  Item = {a, b}
  Default = a
  kChunkSize = 2
  MaxBlocks = 4
  unsafe = FALSE
INVARIANTS TypeOK FreePartition GetReturnsItem SafeDetectsFreed
PROPERTIES ImplementsAllocator
