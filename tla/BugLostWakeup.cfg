SPECIFICATION FairSpec
CONSTANTS
  MAXJOBS = 2
  Pids <- MCPids
  Commands <- OnlyRun
  JidBound = 3
  MaxKeys = 0
PROPERTIES
  WaitfgReturns
CHECK_DEADLOCK FALSE
