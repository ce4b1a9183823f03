SPECIFICATION SessionSpec
CONSTANTS
  Views = {v1, v2}
  NoView = NoView
  MaxOutbox = 1
  MaxEvents = 2
  MaxStreams = 2
  MaxStarts = 2
INVARIANTS StaysInStep
PROPERTIES LeavesWithDisconnect EndsOnlyWhenStopped
CHECK_DEADLOCK FALSE
