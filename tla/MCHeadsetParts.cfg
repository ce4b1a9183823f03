SPECIFICATION HeadsetPartsSpec
CONSTANTS
  HeaderBytes = 2
  ReadBytes = 3
  MaxMessageLen = 2
  HandshakeLen = 2
  MaxToEngine = 5
  MaxToClient = 5
  MaxConnections = 2
  PCs = {1, 2}
  MaxCertificates = 3
  MaxFaults = 1
  MaxSlices = 0
  DataShards = 2
  ParityShards = 0
  MaxCountedGap = 1
  MaxIndex = 4
  MaxRuns = 2
  StreamConfigs <- TwoConfigs
  LogSize = 1
  InputBuffers = 1
  MaxVideoStreams = 2
  MaxFrameIndex = 1
  MaxLaunches = 1
  Width = 6
  ReorderWindow = 2
  MaxConcealed = 1
  BufferSlots = 2
  Reorders = 2
  MaxPackets = 7
  MaxStretch = 4
  MaxStreams = 2
  SeqSpace = 6
  CountedGap = 1
  LogMax = 5
  LogKeep = 3
  PruneEvery = 2
  FrameSizes = {2}
  MaxSentPackets = 8
  MaxRepeats = 1
  MaxReports = 1
  Window = 2
  FlushTicks = 2
  MaxTicks = 4
  MaxLogSessions = 2
  MaxLogFrames = 2
  MaxDiskFaults = 2
INVARIANTS MessagesArriveInOrder PairingOutlivesRestarts EveryFrameCountedOnce PictureTurnedFromItsPose SoundInOrder FiguresTell
PROPERTIES HandsOverAStream ReferenceWasHanded
CHECK_DEADLOCK FALSE
