SPECIFICATION FairSystemSpec
CONSTANTS
  EarlyInitcalls <- OneEarly
  Initcalls <- OneLevel
  Finalisers <- OneFinal
  InitPaths <- OnePath
  EarlyCreate = TRUE
  FlightRecorder = TRUE
  FirstIrqTrace = FALSE
  ZoneSize = 5
  Stale = Stale
  Lines <- AllLines
  MaxLine = 2
  MaxTotal = 400
  MarkCells = 1
  TextCells = 2
  MaxTexts = 1
  MaxBoots = 1
  FailingBoots = {}
  Fresh = Stale
  f1 = f1
  Files <- OneFile
  Reused = {}
  Seeks = {}
  MaxCount = 1
  MaxRecoveries = 1
INVARIANTS
  DumpKeepsTriplet
  TripletSurvives
PROPERTIES
  BootNeverBlocked
CHECK_DEADLOCK FALSE
