SPECIFICATION FairSpec
CONSTANTS
  MaxDown = 2
  MaxUp = 1
  Cap = 2
  BufSize = 2
  Lazy = {0}
  Faulty = {2}
INVARIANTS
  PrefixDelivered
  OneWayComplete
  RelayInv
PROPERTIES
  RelayEnds
CHECK_DEADLOCK FALSE
