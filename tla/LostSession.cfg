SPECIFICATION Spec
CONSTANTS
  EpochWidth = 16
  BufferSize = 2
  MaxSent = 5
  MaxLosses = 1
  MayAbandon = FALSE
INVARIANTS
  NoGap
CHECK_DEADLOCK FALSE
