SPECIFICATION Spec
CONSTANTS
  CHUNKSIZE = 4
  MAX_HEAP = 22
  ALIGNMENT = 8
  Indices <- MCIndices
  Sizes <- MCSizes
INVARIANTS
  HeapTiled
  FreeListExact
  HeldAreAllocated
  DataKept
  
  RangesAreHeld
PROPERTY
  FirstFit
