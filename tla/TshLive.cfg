SPECIFICATION FairSpec
CONSTANTS
  MAXJOBS = 2
  Pids <- MCPids
  Commands <- NoForegroundCommand
  JidBound = 2
  MaxKeys = 1
INVARIANTS
  NoForegroundAtPrompt
PROPERTIES
  ControlSpec
  ChangesNoticed
  CommandsReturn
CHECK_DEADLOCK FALSE
