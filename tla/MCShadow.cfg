SPECIFICATION Spec
CONSTANTS
  None = None
  Gap = 1  Retention = 3  Warmup = 1  Latency = 0  ActivationDelay = 1
  Ttl = 2  Horizon = 1  Interval = 2  Offset = 1  Delay = 1  Grace = 0
  Day = 1  LossLimit = 1  Returns <- MCReturns  Faults = TRUE
  MaxTime = 8  MaxRuns = 2  MaxDials = 2  LastDecision = 7
INVARIANTS
  TypeOK
  OneOpenCandidate
  RollingGuardHonoured
  SettledInOneSession
PROPERTY SlotSpec
CHECK_DEADLOCK FALSE
