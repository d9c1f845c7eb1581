SPECIFICATION Spec
CONSTANTS
  h1 = h1
  h2 = h2
  tokA = tokA
  tokB = tokB
  tokC = tokC
  tokS = tokS
  idA = idA
  idS = idS
  web = web
  ssh = ssh
  None = None
  Handlers = {h1, h2}
  Tokens <- MCTokens2
  ShortTokens = {}
  ClientID <- MCClientID2
  Names = {web, ssh}
  RemotePort <- MCPort
SYMMETRY SymmAll
INVARIANTS
  NoOrphanListener
  NoGhostEntry
  AcceptLoopCanStop
  GaugeExact
  RegistryInv
