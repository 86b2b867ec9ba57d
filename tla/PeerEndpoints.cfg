SPECIFICATION PeerSpec
CONSTANTS
  c1 = c1
  c2 = c2
  c3 = c3
  c4 = c4
  p1 = p1
  p2 = p2
  x1 = x1
  x2 = x2
  Connections = {c1, c2, c3, c4}
  RemoteOf <- PeerOfConn
  EndpointOf <- EndpointOfConn
  Infos = {"one", "other"}
  NoInfo = "none"
  ExternalAddrs = {"ours"}
  MaxPing = 1
  MaxHeard = 2
CHECK_DEADLOCK FALSE
INVARIANTS
  EndpointsListed
