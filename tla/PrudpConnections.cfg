\* The secure server: three connections of one CONNECT each, or
\* two of which the first accepts two.
\* With liveness: no symmetry.
SPECIFICATION MCFairSpec
CONSTANTS
  a1 = a1
  a2 = a2
  p1 = p1
  p2 = p2
  Addr <- MCAddr
  Host <- MCHost
  Pid <- MCPid
  NoPid = NoPid
  SessionId = {1}
  Secure = TRUE
  PingInterval = 1
  IdleTimeout = 2
  MaxConn = 3
  MaxLoops = 2
INVARIANTS TypeOK TableConsistent RunsAsAdmitted DroppedInTime
PROPERTIES SingleEvictsOnlyIdle SilentIsDropped
