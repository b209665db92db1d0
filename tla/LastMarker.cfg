SPECIFICATION Spec
CONSTANTS
  EarlyInitcalls <- OneEarly
  Initcalls <- TwoLevels
  Finalisers <- OneFinal
  InitPaths <- OnePath
  EarlyCreate = FALSE
  FlightRecorder = FALSE
  FirstIrqTrace = FALSE
  ZoneSize = 4
  Stale = Stale
  Lines <- AllLines
  MaxLine = 2
  MaxTotal = 200
  MarkCells = 1
  TextCells = 2
  MaxTexts = 2
  MaxBoots = 2
  FailingBoots = {1}
INVARIANTS
  LastMarkerIdentifiesInitcall
CHECK_DEADLOCK FALSE
