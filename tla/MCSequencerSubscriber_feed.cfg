SPECIFICATION Spec
CONSTANTS
  MsgCapacity = 1
  ConfCapacity = 1
  ErrCapacity = 1
  InitialBackoff = 1
  MaxBackoff = 2
  Parallel = FALSE
  MaxBatch = 2
  MaxSeq = 2
  MaxFrames = 1
INVARIANTS NothingReordered ConfirmedIsForwarded
PROPERTY CancelStops
