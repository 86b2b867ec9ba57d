SPECIFICATION FairSpec
CONSTANTS
  NumProtocols = 2
  Messages = {1, 2}
  MaxPending = 4
INVARIANTS
  TypeOK
  OneRequestPerOpening
  NoAnswerWhenOpen
  AnnouncementsFollowState
  NoMessageBeforeHandshake
  OrderedDelivery
PROPERTIES
  RequestsResolve
