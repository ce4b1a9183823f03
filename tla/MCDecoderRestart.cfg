SPECIFICATION ReceiverSpec
CONSTANTS
  MaxSlices = 0
  DataShards = 1
  ParityShards = 0
  MaxCountedGap = 10
  MaxIndex = 3
  MaxRuns = 2
  MaxQueued = 1
  MaxSessions = 2
  ConsumerFails = TRUE
PROPERTIES DecoderHasReference
