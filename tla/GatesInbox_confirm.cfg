SPECIFICATION Spec
CONSTANTS
  NItems = 2
  MaxUser = 3
  MaxServer = 2
  Item <- MCItem
  Visits <- MCVisits
INVARIANTS
  TypeOK
  ListSound
  ConfirmedStaysGone
  BannerTruthful
  SocketIsActive
  LockHeldExactly
  
  WaitersHaveFlight
\* once the bounded events are spent and the requests have settled, nothing is left to do
CHECK_DEADLOCK FALSE
