CONSTANTS
  Producer = producer
  PrefsThreads = {q}
  NONE = NONE
  Headers <- HeadersSupported
  Chunks <- ChunksInFrame
  Counts <- CountsOne
  MaxFrames = 1
  MaxEvents = 4
SPECIFICATION Spec
INVARIANTS
  DataEventsRetrievable
