SPECIFICATION Spec
CONSTANTS
  e = e
  a = a
  b = b
  c = c
  NoCo = NoCo
  Entry = e
  Cos <- MCCos
  MaxWakes = 2
SYMMETRY MCSymmetry
INVARIANT TypeOK
INVARIANT AnswersFit
INVARIANT OneWake
INVARIANT ClosesCleanly
INVARIANT StatusSeen
PROPERTY KeepsPromise
CHECK_DEADLOCK FALSE
