CONSTANTS
  MaxLong = 11
  Streams = {1, 3}
  SendLimits = {3}
  ReceiveLimits = {4}
  PacketLimits = {3}
  RateNum = 2
  RateDen = 1
  MaxSequence = 14
  ShouldFulfill = TRUE
  MaxChanges = 4
  MaxFaults = 1
SPECIFICATION FairSpec
INVARIANTS KnowledgeIsPast BooksAgree
PROPERTIES Implements GetsThrough
CHECK_DEADLOCK FALSE
