CONSTANTS
  MaxId = 8
SPECIFICATION Spec
\* The program stops sending actions after MaxId and may destroy the handler.
CHECK_DEADLOCK FALSE
INVARIANTS
  CompletionsMatchStarted
PROPERTIES
  EveryStartedCompletes
