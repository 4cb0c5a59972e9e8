CONSTANTS
  Producer = producer
  PrefsThreads = {}
  NONE = NONE
  Headers <- HeadersSupported
  Chunks <- ChunksInFrame
  Counts <- CountsSmall
  MaxFrames = 2
  MaxEvents = 4
SPECIFICATION Spec
PROPERTIES
  RefinesDocumentedNumbering
