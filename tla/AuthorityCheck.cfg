SPECIFICATION CheckSpec
CONSTANTS
  a1 = a1
  a2 = a2
  a3 = a3
  stranger = stranger
  p1 = p1
  p2 = p2
  x1 = x1
  x2 = x2
  x3 = x3
  nobody = nobody
  authorities <- AuthorityList
  MaxQueries = 2
  MaxDiscoveryQueries = 1
  Addresses = {x1, x2, x3}
  Peers = {p1, p2}
  PeerIdOf <- PeerIdOfAddress
  NoPeer = nobody
  DhtRecords <- Records
  MaxSubmitted = 5
  MaxParallelChecks = 2
  IsPublic <- Public
  TcpEndpoint <- Endpoint
CHECK_DEADLOCK FALSE
INVARIANTS
  CheckTypeOK
  SlotsSound
  NoStall
  ViewsExact
  ReportComplete
  VerdictsAgree
  SummariesAgree
PROPERTIES
  CheckCompletes
