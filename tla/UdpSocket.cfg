SPECIFICATION Spec
CONSTANTS
  s1 = s1
  c1 = c1
  c2 = c2
  ip = ip
  name = name
  path = path
  addr = addr
  NoConn = NoConn
  NoAddr = NoAddr
  Socks <- MCSocks
  Conns <- MCConns
  IPs = {ip}
  Names = {name}
  Paths = {path}
  Addrs = {addr}
  MaxSize = 2
  Sizes = {0, 1, 3}
  Timeouts = {0, 5, 10}
  QueueLimit = 2
INVARIANT TypeOK
INVARIANT RightPeer
PROPERTY KeepsPromise
PROPERTY Answered
CHECK_DEADLOCK FALSE
