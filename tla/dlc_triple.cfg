CONSTANTS
  Series <- MCTriple
  Hash <- MCHashA
  Width = 64
  BatchLen = 1
  Pos = {0}
  MaxBatches = 1
SPECIFICATION Spec
INVARIANT NoDuplicateInStep
CHECK_DEADLOCK FALSE
