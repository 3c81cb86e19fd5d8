SPECIFICATION EmbedSpec
CONSTANTS
  c1 = c1
  c2 = c2
  t1 = t1
  t2 = t2
  NoTask = NoTask
  Callers <- MCOne
  Timers <- MCTimers
  ChanCap = 2
  MaxYields = 1
  MaxStarts = 2
INVARIANT DroppedNeverFires
CHECK_DEADLOCK FALSE
