SPECIFICATION FairSpec
CONSTANTS
  peer = peer
  Conns = {c1}
  PeerOf <- OnePeer
  NumProtocols = 1
  Messages = {}
  EventBuffer = 2
  MaxPending = 6
  MaxInbound = 1
CHECK_DEADLOCK FALSE
PROPERTIES
  ClosedIsReported
