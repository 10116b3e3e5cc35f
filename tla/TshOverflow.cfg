SPECIFICATION Spec
CONSTANTS
  MAXJOBS = 1
  Pids <- MCPids
  Commands <- AllCommands
  JidBound = 3
  MaxKeys = 1
INVARIANTS
  TableInv
  CrashOnlyAfterOverflow
CHECK_DEADLOCK FALSE
