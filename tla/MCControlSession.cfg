SPECIFICATION ControlSpec
CONSTANTS
  Hosts = {h1, h2}
  NoHost = NoHost
  Settings = {1, 2}
  Configured = 1
  MaxMisses = 1
  EventRoom = 1
  NoticeRoom = 1
  WireRoom = 2
  BufferRoom = 1
  MaxSessions = 2
  MaxOffered = 2
INVARIANTS InputsOfSession EndsForItsReason SettingFollowsAcks
PROPERTIES SessionsEnd
CHECK_DEADLOCK FALSE
