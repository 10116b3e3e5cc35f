SPECIFICATION TestTransSpec
CONSTANTS
  Sessions <- MCSessions
  Buffer = 292
  KillAt = {1, 6, 20}
  A = 6304256
  B = 6566400
  M_addr = 6828544
  N_addr = 6828548
  func_list_addr = 6828576
  MARKER_START = 6828556
  MARKER_END = 6828557
INVARIANTS
  RightShapes
  TraceIsExact
  CreditIsEarned
  SubmissionScores
