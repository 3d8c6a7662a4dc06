SPECIFICATION CacheSpec
CONSTANTS
  k1 = k1
  k2 = k2
  k3 = k3
  Keys = {k1, k2, k3}
  Reports <- MCReports
  Capacity = 2
  MaxTick = 5
  MaxGeneration = 2
INVARIANT Consistent
PROPERTIES ImplementsLru EvictsLeastRecent
