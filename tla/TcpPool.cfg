SPECIFICATION FairSpec
CONSTANTS
  c1 = c1
  c2 = c2
  NoConn = NoConn
  Conns <- MCConns
  PoolSizes = {1, 2}
INVARIANT TypeOK
INVARIANT KeptAlone
INVARIANT PoolExact
PROPERTY KeepsPromise
PROPERTY PoolMoves
CHECK_DEADLOCK FALSE
