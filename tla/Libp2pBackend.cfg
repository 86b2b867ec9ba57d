SPECIFICATION Spec
CONSTANTS
  CommandBuffer = 2
  EventBuffer = 3
  BootnodeAddresses = 1
  FirstQueries = 1
  Slots = 2
  FirstId = 1
  MaxAdds = 2
  MaxWalks = 5
  MaxTold = 5
CHECK_DEADLOCK FALSE
INVARIANTS
  TypeOK
  QueriesAccounted
  NoLostWakeup
PROPERTIES
  CallsReturnUnlessJammed
