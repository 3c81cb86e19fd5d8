SPECIFICATION Spec
CONSTANTS
  r1 = r1
  r2 = r2
  t1 = t1
  Requests <- MCRequests
  Timers <- MCTimers
INVARIANT InFlightFinishes
CHECK_DEADLOCK FALSE
