SPECIFICATION FairSpec
CONSTANTS
  MaxVersion = 3
  MaxGeneration = 2
  MaxFaults = 1
  MaxDamage = 1
  MaxCrashes = 1
INVARIANTS PointerComplete
PROPERTIES NeverOlder IndexCatchesUp
