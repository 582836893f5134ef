CONSTANTS
  Base = 4
  TestAmounts = {1, 8, 64, 512}
  MinPrecision = 2
  MaxAttempts = 4
  Limits = {0, 1, 7, 20, 100}
  UpNum = 3
  UpDen = 2
  RateNum = 2
  RateDen = 3
  Reports = {TRUE, FALSE}
  MaxFailures = 5
SPECIFICATION ProbeFairSpec
INVARIANTS GivesUpForCause PreciseEnough
PROPERTY Settles
CHECK_DEADLOCK FALSE
