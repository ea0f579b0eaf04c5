SPECIFICATION Spec
CONSTANTS
  c1 = c1
  c2 = c2
  Call <- Calls
  NoCall = NoCall
  Setups <- Refused
CHECK_DEADLOCK FALSE
INVARIANT MutedIsSilent
