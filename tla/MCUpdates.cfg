SPECIFICATION FairSpec
CONSTANTS
  None = None
  Corrupt = Corrupt
  b1 = b1
  b2 = b2
  b2r = b2r
  b3 = b3
  Bundles = {b1, b2, b2r, b3}
  Compiles = {b2, b2r, b3}
  Sequence <- MCSequence
  Digest <- MCDigest
  ExpiresAt <- MCExpiresAt
  EventCapacity = 1
  MaxTime = 1
  MaxCrashes = 1
  MaxDamage = 1
INVARIANTS PointersCommitted HealthTruthful
PROPERTIES RollbackProtected NewestAdopted
