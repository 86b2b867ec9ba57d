SPECIFICATION FairSpec
CONSTANTS
  peer = peer
  Conns = {c1, c2}
  PeerOf <- OnePeer
  NumProtocols = 1
  Messages = {}
  EventBuffer = 1
  MaxPending = 6
  MaxInbound = 1
CHECK_DEADLOCK FALSE
INVARIANTS
  CloseEndsBrokenSession
PROPERTIES
  ProtocolsSettle
