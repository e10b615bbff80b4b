SPECIFICATION FairSpec
CONSTANTS
  QueueMax = 3  FrameMax = 3  Faults = TRUE  MaxRecords = 8
INVARIANTS
  TypeOK
  LossIsReported
  NothingDropped
PROPERTIES
  FatalIsLatched
  StopEndsTheRun
  StaleIsNoticed
  WrittenOrReported
CHECK_DEADLOCK FALSE
