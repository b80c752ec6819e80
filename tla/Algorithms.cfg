SPECIFICATION Spec
INVARIANTS CircuitsExact PermutationsExact MemoryExact TransfersCorrect RowsMatched
CHECK_DEADLOCK FALSE
