\* Three requests and two connections, of which one is lost.
SPECIFICATION FairSpec
CONSTANTS
  p1 = p1
  p2 = p2
  q = q
  k1 = k1
  k2 = k2
  Requests = {p1, p2, q}
  Role <- MCRole
  Refused = {q}
  Conns <- MCConns
  NoConn = NoConn
  MaxFaults = 1
\* The application may stop calling.
CHECK_DEADLOCK FALSE
INVARIANTS  GracefulClose
PROPERTIES  AllReleased
