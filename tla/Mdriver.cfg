SPECIFICATION DriverSpec
CONSTANTS
  CHUNKSIZE = 4
  MAX_HEAP = 22
  ALIGNMENT = 8
  Indices <- MCIndices
  Sizes <- MCSizes
  TraceFiles <- MCTraceFiles
  Files = 2
  RUNS = 2
  ARENAS = 9
  K = 2
  MAXSAMPLES = 3
  EPSILON = 1
  UNIT = 4
  WORD = 4
  NEVENT = 2
  THRESHOLD = 1
  RECORDTHRESH = 3
  TICK = 3
  Durations <- MCDurations
  MaxTicks = 1
  Starts <- MCStarts
INVARIANTS
  KeepsBest
  TimesAreRight
  ReplaysAgree
  ArenasCounted
  ReportIsEarned
PROPERTY
  Finishes
