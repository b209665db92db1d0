SPECIFICATION Spec
CONSTANTS
  Cells <- AnyCell
  Zero <- ZeroCell
  Jobs <- AllJobs
  PartitionBytes = 36
  Devices <- TheDevices
  Chunk = 12
  NoFile = NoFile
  MaxJobs = 2
INVARIANTS
  LoaderFindsParts
  AuditPasses
  OnlyGrowthRefused
  SuccessMeansWhole
CHECK_DEADLOCK FALSE
