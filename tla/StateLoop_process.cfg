SPECIFICATION FairProcessSpec
CONSTANTS
  c1 = c1
  c2 = c2
  t1 = t1
  t2 = t2
  NoTask = NoTask
  Callers <- MCCallers
  Timers <- MCOneTimer
  ChanCap = 1
  MaxYields = 1
  MaxStarts = 1
INVARIANT TypeOK
INVARIANT OneResponse
INVARIANT EventsExact
INVARIANT WaitExact
INVARIANT DroppedNeverFires
PROPERTY KeepsPromise
PROPERTY CallsAnswered
PROPERTY EndsReached
CHECK_DEADLOCK FALSE
