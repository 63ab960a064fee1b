CONSTANTS
  MaxShape = 3
  MaxFlight = 3
  MaxSuspends = 1
  MaxRetries = 2
  MaxSessions = 2
SPECIFICATION Spec
INVARIANT AllUnderstood
INVARIANT OnlyUnackedMisleads
INVARIANT EndsAgree
INVARIANT NeverStranded
CHECK_DEADLOCK FALSE
