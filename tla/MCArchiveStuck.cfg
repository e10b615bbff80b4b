SPECIFICATION Spec
CONSTANTS
  None = None
  f1 = f1
  f2 = f2
  g1 = g1
  Files = {f1, f2, g1}
  DayOf <- MCDayOf
  LastDay = 3
  Retention = 1
  Procs = {p1, p2}
  Outputs = {o1, o2}
  SharedOutput = FALSE
SYMMETRY Interchangeable
PROPERTY ReceiptsDurable
