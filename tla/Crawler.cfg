SPECIFICATION Spec
CONSTANTS
  t = t
  q = q
  x1 = x1
  x2 = x2
  Peers = {t, q}
  Addresses = {x1, x2}
  Target = t
  Roles = {authority}
  NoRole = none
  Bootnodes <- BootnodeAddresses
  MaxQueries = 2
  MaxWalks = 3
  MaxTold = 2
CHECK_DEADLOCK FALSE
INVARIANTS
  TypeOK
  PoolFull
  DialsMatchDiscovered
  NoRouteMissed
  TargetConsistent
