SPECIFICATION Spec
CONSTANTS
  CommandBuffer = 1
  KadCommands = 1
  KadEvents = 2
  BootnodeAddresses = 1
  FirstQueries = 1
  Slots = 2
  MaxAdds = 2
  MaxWalks = 3
  MaxTold = 4
CHECK_DEADLOCK FALSE
INVARIANTS
  NoLostWakeup
