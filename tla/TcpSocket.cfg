SPECIFICATION Spec
CONSTANTS
  s1 = s1
  s2 = s2
  c1 = c1
  NoConn = NoConn
  Socks <- MCTwoSocks
  Conns <- MCOneConn
  Len = 2
  Modes = {"line", "size", "all", "any"}
  Sizes = {1, 2}
SYMMETRY MCSockSymmetry
INVARIANT TypeOK
INVARIANT OwnershipExact
INVARIANT KeepsItsOwn
PROPERTY KeepsPromise
CHECK_DEADLOCK FALSE
