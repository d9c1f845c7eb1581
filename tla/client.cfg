SPECIFICATION FairSpec
CONSTANTS
  MaxConns = 2
  MaxUsers = 1
  MaxDue = 2
  MinDelay = 2
  MaxDelay = 3
  MaxPongMiss = 3
  MTMux = TRUE
INVARIANTS
  NoSessionLeak
  BackoffFollowsFailures
  ClientInv
PROPERTIES
  ClosesOwnSession
  Reconnects
  SilenceNoticed
