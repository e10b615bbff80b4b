SPECIFICATION Spec
CONSTANTS
  None = None
  Gap = 1  Retention = 3  Warmup = 1  Latency = 0  ActivationDelay = 1
  Ttl = 2  Horizon = 1  Interval = 2  Offset = 1  Delay = 1  Grace = 0
  Day = 1  LossLimit = 1  Returns <- MCReturns  Faults = TRUE
  MaxTime = 6  MaxRuns = 2  MaxDials = 3  LastDecision = 5
INVARIANT EquityReplayable
CHECK_DEADLOCK FALSE
