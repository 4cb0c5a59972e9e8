CONSTANTS
  Producer = producer
  PrefsThreads = {}
  NONE = NONE
  Headers <- HeadersAll
  Chunks <- ChunksInFrame
  Counts <- CountsSmall
  MaxFrames = 2
  MaxEvents = 5
SPECIFICATION Spec
INVARIANTS
  RetrieveReturnsChunk
  NoOverrun
