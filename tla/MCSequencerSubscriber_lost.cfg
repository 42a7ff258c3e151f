SPECIFICATION Spec
CONSTANTS
  MsgCapacity = 1
  ConfCapacity = 1
  ErrCapacity = 1
  InitialBackoff = 1
  MaxBackoff = 2
  Parallel = TRUE
  MaxBatch = 1
  MaxSeq = 1
  MaxFrames = 1
PROPERTY CancelStops
