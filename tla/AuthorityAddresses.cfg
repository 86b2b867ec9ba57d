SPECIFICATION Spec
CONSTANTS
  a1 = a1
  a2 = a2
  a3 = a3
  stranger = stranger
  p1 = p1
  x1 = x1
  x2 = x2
  nobody = nobody
  authorities <- AuthorityList
  MaxQueries = 2
  MaxDiscoveryQueries = 1
  Addresses = {x1, x2}
  Peers = {p1}
  PeerIdOf <- PeerIdOfAddress
  NoPeer = nobody
  DhtRecords <- Records
  MaxSubmitted = 7
CHECK_DEADLOCK FALSE
INVARIANTS
  AddressesNamePeer
