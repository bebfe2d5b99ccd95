SPECIFICATION FairSpec
CONSTANTS
  EpochWidth = 16
  BufferSize = 2
  MaxSent = 5
  MaxLosses = 2
  MayAbandon = TRUE
INVARIANTS
  NoGapUnlessSevered
  InOrder
  NothingForgotten
PROPERTIES
  Lossless
CHECK_DEADLOCK FALSE
