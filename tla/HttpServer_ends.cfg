SPECIFICATION EndingSpec
CONSTANTS
  r1 = r1
  r2 = r2
  t1 = t1
  Requests <- MCRequests
  Timers <- MCTimers
INVARIANT TypeOK
INVARIANT WorkFinished
PROPERTY ShutdownEnds
CHECK_DEADLOCK FALSE
