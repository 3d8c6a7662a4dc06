SPECIFICATION FairSpec
CONSTANTS
  r1 = r1
  r2 = r2
  w1 = w1
  Requests = {r1, r2}
  Workers = {w1}
  QueueCapacity = 1
  CacheCapacity = 2
  MaxWrites = 0
  MaxEngine = 2
  MaxIndex = 2
  Disturbances = {"disconnect", "settings", "open failure"}
  EngineDetects <- MCEngineDetects
  IndexDetects <- MCIndexDetects
INVARIANTS CachedUnderCurrentIndex
PROPERTIES EveryRequestDecided
CHECK_DEADLOCK FALSE
