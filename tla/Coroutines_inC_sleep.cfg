SPECIFICATION SpecInC
CONSTANTS
  e = e
  a = a
  b = b
  c = c
  NoCo = NoCo
  Entry = e
  Cos <- MCThreeCos
  MaxWakes = 2
INVARIANT SleepWaits
CHECK_DEADLOCK FALSE
