SPECIFICATION Spec
CONSTANTS
  c1 = c1
  c2 = c2
  Call <- Calls
  Setups <- Crossed
CHECK_DEADLOCK FALSE
INVARIANT FlagIsTheDevice
