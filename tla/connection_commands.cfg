SPECIFICATION FairSpec
CONSTANTS
  NoName = NoName
  ClientId = ClientId
  Malformed = Malformed
  Lines <- LinesOf
  Requests <- EveryRequest
  MaxItems = 3
  MaxRequests = 2
  Timeouts = TRUE
INVARIANTS
  RepliesEncode
  TypesFollowProtocol
PROPERTIES
  FailuresChangeNothing
  Answered
  HangUpEnds
CHECK_DEADLOCK FALSE
