SPECIFICATION FairSpec
CONSTANTS
  a = a
  b = b
  Star = Star
  Chars = {a, b}
  MaxPattern = 5
  MaxKey = 4
INVARIANTS
  TypeOK
  FindsMatches
PROPERTIES
  Terminates
CHECK_DEADLOCK FALSE
