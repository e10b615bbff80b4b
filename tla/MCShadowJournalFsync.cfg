SPECIFICATION JournalSpec
CONSTANTS
  None = None
  Writers = {w1, w2}  Bundles = {b1, b2}
  DayLength = 2  Faults = TRUE  MaxNow = 6  MaxLines = 6
SYMMETRY Interchangeable
INVARIANT ChainIntact
