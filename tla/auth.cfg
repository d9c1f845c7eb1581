\* Two handlers and one request, which may arrive four times; a second is two
\* ticks, the limits are one second.
CONSTANTS
  Callers = {c1, c2}
  Nonces = {n1}
  Stamps = {0, 1, 2}
  TicksPerSecond = 2
  MaxTimeDiff = 1
  NonceExpiry = 1
  MaxTime = 8
  MaxCalls = 4
SPECIFICATION FairSpec
INVARIANTS AuthInv AcceptedOnce
PROPERTY ExpiredForgotten
CHECK_DEADLOCK FALSE
