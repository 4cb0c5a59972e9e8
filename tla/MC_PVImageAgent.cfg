CONSTANTS
  Producer = producer
  PrefsThreads = {}
  NONE = NONE
  Headers <- HeadersSupported
  Chunks <- ChunksInFrame
  Counts <- CountsSmall
  MaxFrames = 2
  MaxEvents = 6
SPECIFICATION Spec
INVARIANTS
  TypeOK
  EventSequence
  DataEventsRetrievable
  RetrieveReturnsChunk
  BufferInPlace
  NoOverrun
  BufferHoldsBiasedSamples
PROPERTIES
  RefinesFrameSession
