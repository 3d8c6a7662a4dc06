SPECIFICATION Spec
CONSTANTS
  r1 = r1
  r2 = r2
  w1 = w1
  w2 = w2
  Requests = {r1, r2}
  Workers = {w1, w2}
  QueueCapacity = 1
  CacheCapacity = 2
  MaxWrites = 1
  MaxEngine = 1
  MaxIndex = 1
  Disturbances = {"failure", "timeout", "disconnect", "unreadable"}
  EngineDetects <- MCEngineDetects
  IndexDetects <- MCIndexDetects
INVARIANTS RaceNotJudgedByOldVerdict BypassesCounted CacheHitNotOutdated
SYMMETRY Symmetry
CHECK_DEADLOCK FALSE
