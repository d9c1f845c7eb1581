SPECIFICATION FairSpec
CONSTANTS
  h1 = h1
  h2 = h2
  tokA = tokA
  tokB = tokB
  tokC = tokC
  tokS = tokS
  idA = idA
  idS = idS
  web = web
  ssh = ssh
  None = None
  Handlers = {h1, h2}
  Tokens <- MCTokens
  ShortTokens = {tokS}
  ClientID <- MCClientID
  Names = {web}
  RemotePort <- MCPort
PROPERTIES
  HandlerEnds
  EvictedEnds
  DeadPortReleased
  ImplementsContract
