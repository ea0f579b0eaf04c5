SPECIFICATION Spec
CONSTANTS
  wifi = wifi
  cellular = cellular
  Offline = Offline
  Path <- Networks
  First <- AtHome
  Setups <- Waited
CHECK_DEADLOCK FALSE
INVARIANT WaiterIsTold
