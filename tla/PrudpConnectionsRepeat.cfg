\* The secure server, with retransmitted CONNECTs.
SPECIFICATION Spec
CONSTANTS
  a1 = a1
  a2 = a2
  p1 = p1
  p2 = p2
  Addr <- MCAddr
  Host <- MCHost
  Pid <- MCPid
  NoPid = NoPid
  SessionId = {1}
  Secure = TRUE
  PingInterval = 2
  IdleTimeout = 3
  MaxConn = 2
  MaxLoops = 2
SYMMETRY Symmetry
PROPERTY EvictsOnlyIdle
