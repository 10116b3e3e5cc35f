SPECIFICATION Spec
CONSTANTS
  MAXJOBS = 2
  Pids <- MCPids
  Commands <- AllCommands
  JidBound = 3
  MaxKeys = 1
INVARIANTS
  TableSound
  NoChildForgotten
  StoppedIsStopped
PROPERTIES
  KeysSpareBackground
  ListSpec
CHECK_DEADLOCK FALSE
