CONSTANTS
  Roles = {"client", "server"}
  Kinds = {FALSE, TRUE}
  MaxSent = 4
  MaxInput = 2
  MaxOutput = 2
  MaxRoom = 1
  MaxEvents = 2
  Payload = 1
SPECIFICATION LiveSpec
INVARIANT NoLostWakeup
INVARIANT ShutdownLast
PROPERTY PlainFlushEnds
PROPERTY EndNoticed
CHECK_DEADLOCK FALSE
