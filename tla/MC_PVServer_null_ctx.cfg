CONSTANTS
  Handlers = {h1, h2}
  MaxCreations = 3
SYMMETRY HandlerSymmetry
SPECIFICATION Spec
CHECK_DEADLOCK FALSE
INVARIANTS
  NoNullServer
