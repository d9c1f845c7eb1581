SPECIFICATION FairSpec
CONSTANTS
  Writers = {handler, userConn}
  MaxMessages = 3
  Sizes = {1, 2, 3}
  LengthSize = 2
  MaxMsgSize = 2
  Registrations = 1
INVARIANTS
  FailsForCause
  FramesInv
PROPERTIES
  AllDelivered
CHECK_DEADLOCK FALSE
