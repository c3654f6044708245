CONSTANTS
  Series <- MCSeries
  Hash <- MCHash
  Width = 64
  BatchLen = 2
  Pos = {0, 1}
  MaxBatches = 2
SPECIFICATION Spec
INVARIANT NoDuplicateInStep NoFalseAlarm
CHECK_DEADLOCK FALSE
