CONSTANTS
  DeviceCount = 2
  PathCount = 2
  none = none
  Processes <- MCProcesses
  MaxMoves = 2
  MaxServer = 2
  MaxRetries = 1
SPECIFICATION Spec
INVARIANT CoresReachable
PROPERTY OnlyWhileServed
PROPERTY TimeoutSpares
CHECK_DEADLOCK FALSE
