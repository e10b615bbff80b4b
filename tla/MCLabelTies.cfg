SPECIFICATION PipelineSpec
CONSTANTS
  None = None  p1 = p1  p2 = p2  v1 = v1  v2 = v2  Rotten = Rotten
  Prices = {v1, v2}  Sizes = {0, 1}  Interval = 1
  MaxSeq = 4  MaxDials = 2  WireMax = 2  MaxTime = 2
  Symbols <- MCSymbols  LastDate = 2  Parameters = {v1, v2}  Importers = {p1, p2}  Attempts = 2
  ExpectedKinds = {}  Audits <- MCAudits  Builders = {p1, p2}
  Workers = {p1, p2}  Outputs = {v1, v2}
  MaxDays = 2  MaxDatasets = 1  MaxEvaluations = 1  MaxBundles = 1
  SecondsPerMinute = 2  MinutesPerDay = 3  MaximumMissing = 1  AssumedLatency = 1
  PriceInterval = 1  PriceOffset = 0  PriceHistory = 1  TradeAge = 3  PriceHorizon = 4
  Latency = 1  ActivationDelay = 2  Ttl = 4  Horizon = 2  Gap = 2
  SecondTicks = 2  MinuteTicks = 4  Stop = 2  TakeProfit = 1
  DayTicks = 12  DecisionInterval = 4  DecisionOffset = 1  HistoryMinutes = 1
  BookAge = 3  TickerAge = 3  InterestLags = {2, 5}  TradeWindows = {2, 6}  Delay = 1
  Day = 2  Embargo = 1  TrainDays = 3  TestDays = 1  CalibrationDays = 2
  MaximumFolds = 2  MinimumTrain = 1  MinimumTest = 1  MinimumCalibration = 1
  SmokeFit = 1  MinimumDecisions = 2  Classes = {"SL", "TP"}
  Window = 3  LossLimit = 1  MinimumExpected = 1
SYMMETRY Interchangeable
INVARIANT AmbiguousWhereTied
CHECK_DEADLOCK FALSE
