SPECIFICATION Spec
CONSTANTS
  x1 = x1
  x2 = x2
  h = h
  plain = plain
  html = html
  None = None
  Exchanges <- MCTwo
  Headers <- MCHeaders
  PageHeaders <- MCPageHeaders
  Displaced <- MCDisplaced
  Statuses = {404}
  Limit = 1
  Lengths = {1, 2}
  MaxText = 1
SYMMETRY MCSymmetry
INVARIANT TypeOK
INVARIANT HeadHonest
INVARIANT BodyWhole
PROPERTY KeepsPromise
CHECK_DEADLOCK FALSE
