SPECIFICATION DriverPartsSpec
CONSTANTS
  MinRate = 20
  Settings = {20, 24}
  Configured = 24
  SleepRate = 16
  MinFec = 10
  MaxFec = 25
  ConfiguredFec = 20
  LossReports = {0, 3, 10}
  GccEnabled = TRUE
  FecEnabled = TRUE
  Governed = FALSE
  Sleeps = FALSE
  EncoderFails = TRUE
  Views = {v1, v2, narrow}
  Plausible = {v1, v2}
  NoView = NoView
  MaxServed = 2
  MaxMoves = 3
  MaxInits = 2
INVARIANTS DecisionsReachEncoders CallbacksFindDevice
PROPERTIES BurstIsMetByFec RecoversToSetting SteamVrFollowsHeadset
CHECK_DEADLOCK FALSE
