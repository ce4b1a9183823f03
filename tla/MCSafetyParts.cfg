SPECIFICATION SafetyPartsSpec
CONSTANTS
  NaN = NaN
  Options <- SomeChoices
  ManualKeys <- SomeManualKeys
  ManualKinds = {"table", "broken"}
  MaxManual = 2
  MaxChosen = 2
  PinLife = 10
  HoldSeconds = 9
  BackoffMax = 1
  StaleAfter = 2
  MaxUnread = 1
  MaxPins = 2
  Second = 2
  MaxBlocks = 3
  CallBlocks = 2
  MaxFrames = 2
  MaxNames = 2
  MaxMade = 2
  MaxSlices = 2
  DataShards = 2
  ParityShards = 1
  MaxCountedGap = 10
  MaxIndex = 1
  MaxRuns = 2
  MinRate = 20
  Settings = {20, 21}
  Configured = 21
  SleepRate = 20
  MinFec = 10
  MaxFec = 25
  ConfiguredFec = 20
  LossReports = {0, 6}
  GccEnabled = FALSE
  FecEnabled = FALSE
  Governed = TRUE
  Sleeps = TRUE
  EncoderFails = FALSE
  Scripts <- SomeScripts
  MaxScenarios = 2
  MaxDatagrams = 2
INVARIANTS SettingsSurvive ViewIsRecent RecordingsReadable WholeFrames BitrateBounded ScenariosApart
CHECK_DEADLOCK FALSE
