SPECIFICATION FairSpec
CONSTANTS
  None = None
  Users = {u1, u2}
  Names = {web, ssh}
INVARIANTS
  StreamsMatched
  TunnelInv
PROPERTIES
  WaitersServed
  SessionEndFreesAll
CHECK_DEADLOCK FALSE
