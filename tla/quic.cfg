\* One Write of each end.
CONSTANTS
  MaxWrites = 1
  MaxStreams = 2
SPECIFICATION QuicFairSpec
INVARIANT StreamInv
PROPERTIES CloseEndsCalls ServerHears
CHECK_DEADLOCK FALSE
