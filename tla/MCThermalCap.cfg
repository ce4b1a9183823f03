SPECIFICATION Spec
CONSTANTS
  MinRate = 20
  Settings = {20, 24}
  Configured = 24
  SleepRate = 16
  MinFec = 10
  MaxFec = 25
  ConfiguredFec = 20
  LossReports = {0}
  GccEnabled = FALSE
  FecEnabled = FALSE
  Governed = TRUE
  Sleeps = FALSE
  EncoderFails = FALSE
INVARIANTS CapReachesEncoder
