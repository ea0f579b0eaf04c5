SPECIFICATION FairSpec
CONSTANTS
  wifi = wifi
  cellular = cellular
  Offline = Offline
  Path <- Networks
  First <- AtHome
  Setups <- Everything
CHECK_DEADLOCK FALSE
INVARIANTS TypeOK SettledStateIsTrue TransportsFollowPath
PROPERTY RegisteringEnds
