SPECIFICATION FairSpec
CONSTANTS
  c1 = c1
  c2 = c2
  t1 = t1
  t2 = t2
  None = None
  CPUs = 1
  Environments <- AllKinds
  Conns = {c1, c2}
  Workers = {t1, t2}
  Inbox = 2
  Window = 1
INVARIANTS
  TypeOK
  InOnePlace
  OneReplyEach
  ReportsItsThreads
PROPERTIES
  AcceptedIsServed
  SilentConnectionsClose
CHECK_DEADLOCK FALSE
