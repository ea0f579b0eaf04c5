SPECIFICATION FairSpec
CONSTANTS
  c1 = c1
  c2 = c2
  Call <- Calls
  Setups <- Everything
CHECK_DEADLOCK FALSE
INVARIANTS TypeOK DeviceFollowsFlag
PROPERTY CallIsHeard
