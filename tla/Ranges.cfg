SPECIFICATION Spec
CONSTANTS
  ALIGNMENT = 8
  HeapHi = 63
  Sizes <- MCSizes
  MaxRanges = 4
INVARIANT
  SwallowsOrDisjoint
