CONSTANTS
  u1 = u1
  u2 = u2
  c1 = c1
  c2 = c2
  UUID <- MCUUID
  CallId <- MCCallId
  NoUUID = NoUUID
  InvalidId = InvalidId
  Window = 1
  MaxNow = 4
SPECIFICATION Spec
SYMMETRY Symmetry
INVARIANT TypeOK
INVARIANT IndexConsistent
INVARIANT RefusedInTime
