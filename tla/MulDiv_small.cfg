CONSTANTS
  MaxLong = 31
SPECIFICATION multiplyDivide
INVARIANTS SmallIsExact CeilAndRound
CHECK_DEADLOCK FALSE
