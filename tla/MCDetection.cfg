SPECIFICATION Spec
CONSTANTS
  None = None
  MinAnchor = 2
  MaxAnchor = 3
  MinDistinct = 2
  MinFixed = 3
  MinLogicalFixed = 3
  MaxGap = 2
  MaxSteps = 6
  GiveUpFactor = 1
  MaxSize = 7
  Databases <- MCDatabases
  MaxRead = 6
  Nearby = 3
  MostPositions = 3
  MinEntropyBytes = 1
  MinOverlay = 1
  MaxSections = 1
  MaxPdfStream = 2
  MaxPdfExpanded = 3
  MaxPdfStreams = 2
  WindowSamples = 3
  MinimumSamples = 2
  MaximumMatchRate = 5000
  Blobs <- MCBlobs
  Files <- MCFiles
  Blob <- MCBlob
  MaxScans = 2
  MaxDepth = 2
  MaxEntries = 3
  MaxEntryBytes = 4
  MaxExpanded = 6
  MacroOffsets = 1
  MaxMacroBytes = 4
  MaxFindings = 2
INVARIANTS
  ScanAgrees
  HashesAgree
  StaticAgrees
  BudgetsHold
  StrongestEntryDecides
  NothingUnreadIsClean
