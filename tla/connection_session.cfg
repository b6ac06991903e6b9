SPECIFICATION Spec
CONSTANTS
  NoName = NoName
  ClientId = ClientId
  Malformed = Malformed
  Lines <- LinesOf
  Requests <- AllRequests
  MaxItems = 3
  MaxRequests = 3
  Timeouts = TRUE
INVARIANTS
  TypeOK
  NoExtraReplies
PROPERTIES
  ImplementsSession
CHECK_DEADLOCK FALSE
