\* Ports 1 to 3, up to 2 tunnels, three starts of the server.
CONSTANTS
  MaxPort = 3
  MaxTunnels = 2
  DefTunnels = 1
  Transports = {"", "gnet", "quic", "other"}
  Cryptos = {"", "tls", "chacha20", "none", "other"}
  TunnelCounts = {0, 2, 3}
  ProxyLists <- MCProxyLists
  MaxStarts = 3
SPECIFICATION Spec
INVARIANTS FewIdentities ProxiesAsConfigured MatchedConnects StartupInv
CHECK_DEADLOCK FALSE
