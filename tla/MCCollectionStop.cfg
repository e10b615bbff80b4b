SPECIFICATION Spec
CONSTANTS
  QueueMax = 2  FrameMax = 2  Faults = FALSE  MaxRecords = 5
INVARIANT QueueEmptiesAtStop
CHECK_DEADLOCK FALSE
