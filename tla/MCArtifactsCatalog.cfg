SPECIFICATION ArtifactsSpec
CONSTANTS
  None = None  Rotten = Rotten
  Workers = {w1}  Outputs = {o1}
  MaxDays = 1  MaxDatasets = 1  MaxEvaluations = 1  MaxBundles = 1
INVARIANT PublishedIsEvaluable
CHECK_DEADLOCK FALSE
