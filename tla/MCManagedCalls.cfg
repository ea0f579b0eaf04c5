SPECIFICATION MFairSpec
CONSTANTS
  a1 = a1
  x1 = x1
  c1 = c1
  NoUUID = NoUUID
  InvalidId = InvalidId
  UUID <- MCUUID
  Announced <- OneCall
  Invented <- OneInvented
  CallId <- MCCallId
  MayRefuse = TRUE
  Window = 9
  Setups <- Surroundings
CHECK_DEADLOCK FALSE
INVARIANTS MTypeOK RingingIsShown
PROPERTY ScreensFollowCalls
