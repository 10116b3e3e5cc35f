SPECIFICATION Spec
CONSTANTS
  MAXJOBS = 3
  JidBound = 6
  Pids <- MCPids
INVARIANTS
  JidIffPid
  FreshOrWrapped
  IdleRestart
PROPERTY
  AddedJobIsFound
