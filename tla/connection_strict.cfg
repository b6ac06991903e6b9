SPECIFICATION Spec
CONSTANTS
  NoName = NoName
  ClientId = ClientId
  Malformed = Malformed
  Lines <- LinesOf
  Requests <- MalformedRequests
  MaxItems = 3
  MaxRequests = 2
  Timeouts = TRUE
INVARIANT
  NoExtraReplies
CHECK_DEADLOCK FALSE
