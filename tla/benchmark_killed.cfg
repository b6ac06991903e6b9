SPECIFICATION FairSpec
CONSTANTS
  Mixes = 2
  Repeats = 2
  Protocols = 2
  Modes = 3
  Statuses <- MCStatuses
  ProbeExits <- MCProbeExits
INVARIANTS
  SuccessIsComplete
CHECK_DEADLOCK FALSE
