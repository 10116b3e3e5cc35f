SPECIFICATION Spec
CONSTANTS
  s = 1
  E = 2
  b = 1
  AddrBits = 4
  Addresses <- MCAddresses
  MaxLines = 7
INVARIANTS
  LinesDistinct
  UnusedNeverMatch
PROPERTY
  LruSpec
CHECK_DEADLOCK FALSE
