CONSTANTS
  Handlers = {h1, h2}
  MaxCreations = 2
SYMMETRY HandlerSymmetry
SPECIFICATION Spec
CHECK_DEADLOCK FALSE
INVARIANTS
  ServerRunsWhileHandlerAlive
