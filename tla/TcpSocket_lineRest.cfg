SPECIFICATION Spec
CONSTANTS
  s1 = s1
  s2 = s2
  c1 = c1
  NoConn = NoConn
  Socks <- MCOneSock
  Conns <- MCOneConn
  Len = 2
  Modes = {"line", "any"}
  Sizes = {2}
INVARIANT ReceivesOwnBytes
CHECK_DEADLOCK FALSE
