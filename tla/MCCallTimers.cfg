SPECIFICATION FairSpec
CONSTANTS
  a1 = a1
  x1 = x1
  x2 = x2
  c1 = c1
  c2 = c2
  NoUUID = NoUUID
  InvalidId = InvalidId
  UUID <- MCUUID
  Announced <- OneCall
  Invented <- OneInvented
  CallId <- MCCallId
  Window = 9
  Setups <- Timers
CHECK_DEADLOCK FALSE
PROPERTIES EveryInviteSettles NoEndlessRinging
