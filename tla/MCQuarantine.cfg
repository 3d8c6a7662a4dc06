SPECIFICATION FairSpec
CONSTANTS
  i1 = i1
  c1 = c1
  c2 = c2
  Loop = Loop
  Isolations = {i1}
  Clients = {c1, c2}
  MaxPathFiles = 3
  MaxEdits = 1
  MaxFaults = 1
  MaxRequests = 2
INVARIANTS NothingLost IsolatedIsGone
PROPERTIES OthersUntouched SettlesIsolated
CHECK_DEADLOCK FALSE
