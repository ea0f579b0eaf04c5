SPECIFICATION Spec
CONSTANTS
  wifi = wifi
  cellular = cellular
  Offline = Offline
  Path <- Networks
  First <- AtHome
  Setups <- Moved
CHECK_DEADLOCK FALSE
INVARIANT HandoverIsSeen
