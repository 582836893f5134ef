CONSTANTS
  MaxLong = 7
  Streams = {1}
  Prepares = {p1, p2, p3}
  Packets <- LargePackets
  ReceiveLimits = {2, 7}
  ShouldFulfill = TRUE
SPECIFICATION Spec
PROPERTY OverflowIsReal
CHECK_DEADLOCK FALSE
