CONSTANTS
  MaxLong = 63
  FixedAmounts = {2, 25, 63}
  HasFixedRate = FALSE
  TestAmounts = {1, 4}
  PathLimits = {0, 1, 5, 20}
  RateNum = 3
  RateDen = 2
  Reports = {TRUE, FALSE}
  Money = {0, 3, 50}
  MaxVolleys = 2
  MaxShortages = 2
SPECIFICATION FairSpec
INVARIANT WithinMaximum
PROPERTY FindsAmount
CHECK_DEADLOCK FALSE
