SPECIFICATION FairSpec
CONSTANTS
  rsc = rsc
  clk = clk
  smmu = smmu
  d1 = d1
  d2 = d2
  d3 = d3
  Host = host
  Tlmm = tlmm
  Providers <- FourProviders
  Needs <- Chain
  HostNeeds <- ByCall
  Optional <- NoTlmm
  Disks <- ThreeDisks
  ListCap = 2
  Nobody = Nobody
  MaxOthers = 1
INVARIANTS
  ListingsTrue
  SnapshotsInOrder
  FailureNamed
  ResetDoneOrMarked
  BoundMeansReady
PROPERTIES
  FourSnapshots
  HostSettles
CHECK_DEADLOCK FALSE
