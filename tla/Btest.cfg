SPECIFICATION BtestSpec
CONSTANTS
  TEST_RANGE = 4
  RandomWords <- MCRandomWords
  Probes <- MCProbes
  Ratings <- MCRatings
  MaxOptions = 2
  MaxAlarms = 2
INVARIANTS
  ValuesFit
  VerdictHasReason
  TotalsAddUp
  GapsAreExact
