SPECIFICATION FilesSpec
CONSTANTS
  None = None  p1 = p1  p2 = p2  v1 = v1  v2 = v2  f1 = f1  f2 = f2  g1 = g1
  Writers = {p1, p2}  Bundles = {v1, v2}
  DayLength = 2  Faults = FALSE  MaxNow = 6  MaxLines = 6
  Streams = {p1, p2}  Dates = {v1, v2}  MaxRecords = 4  MaxStarts = 3
  Files = {f1, f2, g1}  DayOf <- MCDayOf  LastDay = 3  Retention = 1
  Procs = {p1, p2}  Outputs = {v1, v2}  SharedOutput = FALSE
SYMMETRY Interchangeable
INVARIANTS ChainIntact HeadIsOnDisk
           StoreTypeOK FinalIsComplete PartitionHolds
           TypeOK DataNeverLost ReceiptsAccount
PROPERTIES AppendOnly FinalIsImmutable LogSpec
           DeletedWhileVerified RecentKept DeletionsStayListed
