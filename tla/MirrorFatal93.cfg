SPECIFICATION Spec
CONSTANTS
  t1 = t1
  t2 = t2
  Threads <- OneThread
  Cap = 2
  Copies = 3
  MaxMessages = 3
INVARIANTS
  FatalExplanationPreserved
CHECK_DEADLOCK FALSE
