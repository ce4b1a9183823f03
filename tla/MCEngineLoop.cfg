SPECIFICATION EngineSafeSpec
CONSTANTS
  Pins = {p1, p2}
  MaxAttempts = 2
  Lockout = 2
  Lifetime = 3
  HoldWindow = 2
  MaxTime = 6
  Clients = {hmd, other}
  NoClient = NoClient
  NoPin = NoPin
  ShutsDown = FALSE
  MaxAcceptErrors = 2
  FailureCap = 2
SYMMETRY Symmetry
INVARIANTS SessionOfItsHandshake PinKept LockoutHolds
PROPERTIES PairingSpec
