CONSTANTS
  Series <- MCTwin
  Hash <- MCHashA
  Width = 64
  BatchLen = 64
  Pos = {62, 63}
  MaxBatches = 1
SPECIFICATION Spec
INVARIANT NoDuplicateInStep
CHECK_DEADLOCK FALSE
