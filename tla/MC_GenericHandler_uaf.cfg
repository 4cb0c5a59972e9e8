CONSTANTS
  MaxId = 3
SPECIFICATION Spec
CHECK_DEADLOCK FALSE
INVARIANTS
  NoWorkerUseAfterFree
