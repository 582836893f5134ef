CONSTANTS
  Streams = {1}
  MaxCalls = 1
  MaxFrames = 1
  MaxFaults = 1
SPECIFICATION LifeFairSpec
INVARIANTS StreamsCloseFirst PeerIsTold
PROPERTIES NoErrorAfterClose ClosesAtLast ConnectSettles
CHECK_DEADLOCK FALSE
