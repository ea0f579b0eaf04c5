SPECIFICATION Spec
CONSTANTS
  wifi = wifi
  cellular = cellular
  Offline = Offline
  Path <- Networks
  First <- AtHome
  Setups <- Stopped
CHECK_DEADLOCK FALSE
INVARIANT RegisteredIsBelievable
