SPECIFICATION Spec
CONSTANTS
  a1 = a1
  x1 = x1
  x2 = x2
  c1 = c1
  c2 = c2
  NoUUID = NoUUID
  InvalidId = InvalidId
  UUID <- MCUUID
  Announced <- OneCall
  Invented <- TwoInvented
  CallId <- MCCallId
  Window = 9
  Setups <- Again
CHECK_DEADLOCK FALSE
PROPERTY AnsweredNeverRingsAgain
