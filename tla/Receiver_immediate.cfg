CONSTANTS
  MaxLong = 7
  Streams = {1, 3}
  Prepares = {p1, p2}
  Packets <- SomePackets
  ReceiveLimits = {1, 4}
  ShouldFulfill = FALSE
SPECIFICATION Spec
INVARIANTS ReceiveLimit SplitConserves
PROPERTY OnlyOpenStreamsReceive
CHECK_DEADLOCK FALSE
