CONSTANTS
  MaxCalls = 2
  Timeouts <- TimeoutsBoth
SPECIFICATION Spec
CHECK_DEADLOCK FALSE
INVARIANTS
  NoDoubleDelete
