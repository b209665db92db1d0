SPECIFICATION Spec
CONSTANTS
  t1 = t1
  t2 = t2
  Threads <- TwoThreads
  Cap = 2
  Copies = 3
  MaxMessages = 3
INVARIANTS
  RefusedOnlyAfterCap
  MirroredInFull
CHECK_DEADLOCK FALSE
