SPECIFICATION Spec
CONSTANTS
  peer = peer
  Conns = {c1}
  PeerOf <- OnePeer
  NumProtocols = 2
  Messages = {}
  EventBuffer = 2
  MaxPending = 6
  MaxInbound = 2
CHECK_DEADLOCK FALSE
INVARIANTS
  TypeOK
  RemoteOpenIsAnswered
  OpenBeforeNotification
PROPERTIES
  HandlersConform
