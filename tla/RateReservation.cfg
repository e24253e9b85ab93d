CONSTANTS
  Caller = {c1, c2}
  NoCaller = NoCaller
  Interval = {1, 3}
  PlatformInterval = 2
  MaxRetries = 2
  MaxReservations = 3
  MaxTime = 7
SPECIFICATION RateSpec
SYMMETRY Symmetry
CHECK_DEADLOCK FALSE
INVARIANTS
  RateHolds
