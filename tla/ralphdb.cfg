SPECIFICATION FairProcess
CONSTANTS
  c1 = c1
  c2 = c2
  t1 = t1
  t2 = t2
  counter = counter
  minus = minus
  zero = zero
  one = one
  two = two
  None = None
  Vacant = Vacant
  Ok = Ok
  Error = Error
  Conns = {c1, c2}
  Workers = {t1, t2}
  CPUs = 1
  Environments <- TwoThreads
  Inbox = 1
  Window = 1
  Keys = {counter}
  ShardOf <- OneShard
  Bytes <- MCBytes
  parse <- MCParse
  to_string <- MCToString
  MinI64 <- MCMinI64
  MaxI64 = 2
  TicksPerSec = 2
  MaxInstant = 1
  MaxTime = 1
  Requests <- CounterRequests
  Counter = counter
INVARIANTS
  TicketsAreUnique
  RealTimeOrder
PROPERTIES
  ImplementsServer
CONSTRAINT
  Bounds
CHECK_DEADLOCK FALSE
