CONSTANTS
  Handlers = {h1}
  MaxCreations = 20
SPECIFICATION Spec
\* The process stops making handlers once MaxCreations is reached and the
\* last handler is destroyed.
CHECK_DEADLOCK FALSE
INVARIANTS
  NoNullServer
