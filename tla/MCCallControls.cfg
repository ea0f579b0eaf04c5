SPECIFICATION FairSpec
CONSTANTS
  c1 = c1
  c2 = c2
  Call <- Calls
  NoCall = NoCall
  Setups <- Everything
CHECK_DEADLOCK FALSE
INVARIANTS TypeOK MicFollowsFlag ButtonFollowsFlag HoldShownIsReal
PROPERTY SilentCallEnds
