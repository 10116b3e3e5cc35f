SPECIFICATION Spec
CONSTANTS
  MAXJOBS = 2
  Pids <- MCPids
  Commands <- AllCommands
  JidBound = 3
  MaxKeys = 0
INVARIANTS
  AtMostOneForeground
CHECK_DEADLOCK FALSE
