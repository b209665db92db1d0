SPECIFICATION SystemSpec
CONSTANTS
  EarlyInitcalls <- NoInitcalls
  Initcalls <- OneLevel
  Finalisers <- NoFinal
  InitPaths <- OnePath
  EarlyCreate = FALSE
  FlightRecorder = FALSE
  FirstIrqTrace = FALSE
  ZoneSize = 3
  Stale = Stale
  Lines <- AllLines
  MaxLine = 2
  MaxTotal = 200
  MarkCells = 1
  TextCells = 2
  MaxTexts = 1
  MaxBoots = 2
  FailingBoots = {1, 2}
  Fresh = Stale
  f1 = f1
  Files <- OneFile
  Reused = {2}
  Seeks = {}
  MaxCount = 2
  MaxRecoveries = 2
INVARIANTS
  DumpNamesInitcall
  DumpIsOfLastBoot
CHECK_DEADLOCK FALSE
