SPECIFICATION FairSpec
CONSTANTS
  c1 = c1
  c2 = c2
  t1 = t1
  t2 = t2
  None = None
  CPUs = 1
  Environments <- AllKinds
  Conns = {c1, c2}
  Workers = {t1, t2}
  Inbox = 1
  Window = 1
PROPERTIES
  IdleConnectionsClose
CHECK_DEADLOCK FALSE
