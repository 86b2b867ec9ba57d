SPECIFICATION CommandSpec
CONSTANTS
  c1 = c1
  c2 = c2
  c3 = c3
  c4 = c4
  x1 = x1
  x2 = x2
  p1 = p1
  p2 = p2
  a1 = a1
  a2 = a2
  s1 = s1
  s2 = s2
  nobody = nobody
  Conns = {c1, c2}
  PeerOf <- PeerOfConn
  Indices = {0, 1}
  TransactionsIndex = 1
  CloseAfter = 2
  ChannelSize = 2
  MaxSessions = 3
  MaxToldEvents = 2
  Dials = {1, 2, 3}
  MaxAnswers = 2
  BootnodeOf <- BootnodeOfDial
  authorities <- AuthorityList
  Account = {s1, s2}
  Name = {"name", "legal", "garbled"}
  NoAccount = nobody
  NoName = nobody
  NoRegistration = nobody
  Garbled = "garbled"
  Chains <- AllChains
  Connections = {c1, c2, c3, c4}
  RemoteOf <- PeerOfConn
  EndpointOf <- EndpointOfConn
  Infos = {"one", "other"}
  NoInfo = "none"
  ExternalAddrs = {"ours"}
  MaxPing = 1
  MaxHeard = 2
CHECK_DEADLOCK FALSE
INVARIANTS
  LoopBounded
  SenderIsCurrent
  VerdictsJustified
  AnswersCounted
  NamesExact
  ListedAreUp
  IdentifiedExact
