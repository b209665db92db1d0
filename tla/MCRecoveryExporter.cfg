SPECIFICATION FairExporterSpec
CONSTANTS
  f1 = f1
  Regions <- TheRegions
  RegionSize = 3
  Fresh = Fresh
  InitialDram <- Placed
  Files <- OneFile
  Reused = {1, 2, 3}
  Seeks = {0, 1, 3, 5}
  MaxCount = 2
INVARIANTS
  ServedFaithfully
PROPERTIES
  ReadCompletes
CHECK_DEADLOCK FALSE
