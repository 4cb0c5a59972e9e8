CONSTANTS
  Producer = producer
  PrefsThreads = {}
  NONE = NONE
  Headers <- HeadersZeroBitpix
  Chunks <- ChunksInFrame
  Counts <- CountsOne
  MaxFrames = 2
  MaxEvents = 4
SPECIFICATION Spec
INVARIANTS
  DataEventsRetrievable
