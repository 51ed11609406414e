\* Two players, one address; up to two ticket requests and three registrations.
SPECIFICATION Spec
CONSTANTS
  a1 = a1
  p1 = p1
  p2 = p2
  own = own
  Default = Default
  Blank = Blank
  NoRow = NoRow
  Nobody = Nobody
  Addr <- MCAddr
  Pid <- MCPid
  Password <- MCPassword
  MaxAge = 1
  MaxTries = 2
  MaxRegs = 3
  Limits <- MCLimits
SYMMETRY Symmetry
INVARIANTS TypeOK OpensWithAccount PasswordLapses LatestRegistration
