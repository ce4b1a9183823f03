SPECIFICATION EngineSpec
CONSTANTS
  Pins = {p1, p2}
  MaxAttempts = 1
  Lockout = 1
  Lifetime = 1
  HoldWindow = 1
  MaxTime = 3
  Clients = {hmd}
  NoClient = NoClient
  NoPin = NoPin
  ShutsDown = TRUE
  MaxAcceptErrors = 1
  FailureCap = 1
PROPERTIES KeepsServing
CHECK_DEADLOCK FALSE
