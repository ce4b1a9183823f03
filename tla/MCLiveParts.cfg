SPECIFICATION LivePartsSpec
CONSTANTS
  FrameRoom = 1
  MaxRequests = 1
  MaxSessions = 2
  Devices = {speakers, headphones}
  NoDevice = NoDevice
  MaxChanges = 4
  Lip = {jaw}
  Eye = {blink}
  FaceTop = 3
  FaceRest = 1
  FaceValues <- RawValues
  NotFinite = 9
  Profiles <- SharpProfiles
  MaxFaceSessions = 2
  MaxOscLosses = 1
  FramesPerStep = 2
  ShardSize = 2
  Prefix = 1
  WordShards = 3
  FrameShards = 3
  MaxSlices = 2
  MinSliceSize = 3
  Redundancies = {20, 100}
  MaxLength = 4
  MaxFrames = 2
  Headsets = {vive}
  Phones = {phone}
  MaxPlugs = 1
  MaxClicks = 2
  MaxAppRuns = 2
  MaxSims = 2
  MaxRealRuns = 1
INVARIANTS ActsAsShown SimulationsApart FramesComeBack
PROPERTIES CompanionSettles KeyframeComes CaptureFollowsDevice AvatarRelaxes
CHECK_DEADLOCK FALSE
