SPECIFICATION HistorySpec
CONSTANTS
  w1 = w1
  w2 = w2
  w3 = w3
  kv = kv
  kp = kp
  one = one
  zero = zero
  minus = minus
  plus = plus
  text = text
  None = None
  Vacant = Vacant
  Ok = Ok
  Error = Error
  Workers = {w1, w2}
  Keys = {kv, kp}
  ShardOf <- OwnShards
  Bytes <- MCBytes
  parse <- MCParse
  to_string <- MCToString
  MinI64 <- MCMinI64
  MaxI64 = 1
  TicksPerSec = 2
  MaxInstant = 4
  MaxTime = 3
  Requests <- RaceRequests
SYMMETRY Symmetry
PROPERTIES
  LiveKeysAreOnlyDeleted
