SPECIFICATION HostFairSpec
CONSTANTS
  N = 3
  Deadline = 2
  AlarmAt = 3
  HostTimeout = 4
INVARIANTS
  VerdictTrue
PROPERTIES
  HostDecides
CHECK_DEADLOCK FALSE
