SPECIFICATION FairSpec
CONSTANTS
  f1 = f1
  f2 = f2
  f4 = f4
  f5 = f5
  w1 = w1
  w2 = w2
  alice = alice
  Nobody = Nobody
  Files = {f1, f2, f4, f5}
  Skipped = {f4}
  Unreadable = {f5}
  Verdict <- MCVerdict
  Workers = {w1, w2}
  QueueCapacity = 2
  MaxFindings = 1
  Users = {alice}
  Admins = {}
  MaxScans = 2
  MaxMisses = 1
INVARIANTS CompletedIsComplete CancelBounded
PROPERTIES FinishedStays ScanEnds
