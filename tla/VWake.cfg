SPECIFICATION FairSpec
CONSTANTS
  wifi = wifi
  cellular = cellular
  Offline = Offline
  Path <- Networks
  First <- AtHome
  Setups <- Woken
CHECK_DEADLOCK FALSE
PROPERTY WakeRegisters
