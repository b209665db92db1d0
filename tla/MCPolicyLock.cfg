SPECIFICATION FairSpec
CONSTANTS
  u1 = u1
  u2 = u2
  l1 = l1
  init = init
  su = su
  app = app
  Updaters <- TwoUpdaters
  Lookups <- OneLookup
  Types <- ThreeTypes
  BootTypes <- LoadedTypes
  Jobs <- ThreeJobs
  Queries <- SuAsksInit
  Null = Null
  MaxUpdates = 3
INVARIANTS
  NamesFound
  UpdatesAtomic
  NeverSleepsAtomic
  TypeArraysSound
  CacheCurrent
PROPERTIES
  UpdatesReturn
CHECK_DEADLOCK FALSE
