CONSTANTS
  Default = 2
  ClientAllows = 1
  ServerAllows = 1
  Streams = {1, 2, 3, 4}
  Ending = {1}
  MaxCarried = 2
  MaxFaults = 1
SPECIFICATION FairSpec
INVARIANTS NeverTooMany OpenBounded LimitKnown
PROPERTY ClosedAtLast
CHECK_DEADLOCK FALSE
