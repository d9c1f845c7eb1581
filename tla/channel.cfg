\* Two connections, one of which carries up to three bytes: frames of up to
\* two bytes of payload, a readCh of one piece, an acceptCh of one.
CONSTANTS
  Conns = {c1, c2}
  Active = {c1}
  None = None
  AcceptCap = 1
  ReadCap = 1
  MaxBytes = 3
  WriteSizes = {3}
  BufSizes = {1}
  LengthSize = 1
  LengthLimit = 4
  Overhead = 1
SPECIFICATION FairSpec
INVARIANTS ChannelInv GapsOnlyByOverflow
PROPERTIES ReaderReleased CloseReturns
CHECK_DEADLOCK FALSE
