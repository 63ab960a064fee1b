CONSTANTS
  none = none
  wide = wide
  odd = odd
  Total = 2
  Reported = 2
  Profiles <- MCProfiles
  Blank = none
  Stored <- MCStored
  SizeOf <- MCSizeOf
  GivenSize = 1
  Fallback = 3
  Requests <- MCRequests
  MaxLate = 1
  MaxRequests = 2
  MaxEnters = 1
  MaxAlives = 1
SPECIFICATION Spec
INVARIANT OnlyInFlightMisleads
INVARIANT ScreenAgrees
INVARIANT AnswersTrue
INVARIANT Woken
CHECK_DEADLOCK FALSE
