SPECIFICATION Spec
CONSTANTS
  p1 = p1
  p2 = p2
  d1 = d1
  d2 = d2
  b1 = b1
  b2 = b2
  s1 = s1
  s2 = s2
  Account = {p1, p2}
  NoPid = NoPid
  Device = {d1, d2}
  NoDevice = NoDevice
  Known <- MCKnown
  Ban = {b1, b2}
  Staff = {s1, s2}
  Crash = TRUE
SYMMETRY Symmetry
INVARIANTS TypeOK BannedIsOff OffForAReason
