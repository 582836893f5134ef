CONSTANTS
  MaxLong = 7
  Streams = {1}
  Prepares = {p1, p2, p3}
  Packets <- LargePackets
  ReceiveLimits = {7}
  ShouldFulfill = TRUE
SPECIFICATION Spec
INVARIANTS CountedOnce NoTotalOverflow HoldCovers
CHECK_DEADLOCK FALSE
