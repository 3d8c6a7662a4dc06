SPECIFICATION Spec
CONSTANTS
  p1 = p1
  d1 = d1
  d2 = d2
  w1 = w1
  w2 = w2
  Programs = {p1}
  Documents = {d1, d2}
  Workers = {w1, w2}
  OriginalSize = 1
  RewrittenSize = 2
  MaxFileBytes = 2
  MaxFiles = 2
  MaxProgramBytes = 3
  MaxTotalBytes = 2
  Threshold = 2
  Overlapped = FALSE
  MayRefuse = TRUE
  MayTimeOut = TRUE
  MaxOps = 3
  MaxPurges = 1
SYMMETRY Symmetry
CHECK_DEADLOCK FALSE
INVARIANTS TotalAccounted QuotasHold UndoHolds
