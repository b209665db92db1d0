SPECIFICATION Spec
CONSTANTS
  EarlyInitcalls <- OneEarly
  Initcalls <- TwoLevels
  Finalisers <- OneFinal
  InitPaths <- OnePath
  EarlyCreate = TRUE
  FlightRecorder = FALSE
  FirstIrqTrace = TRUE
  ZoneSize = 5
  Stale = Stale
  Lines <- AllLines
  MaxLine = 2
  MaxTotal = 200
  MarkCells = 2
  TextCells = 1
  MaxTexts = 1
  MaxBoots = 2
  FailingBoots = {1}
INVARIANTS
  HeaderSurvives
  TornOnlyInFlight
  ClaimsDisjoint
  LogNamesInitcall
PROPERTIES
  ZoneSpec
  KeepsBoundedLog
CHECK_DEADLOCK FALSE
