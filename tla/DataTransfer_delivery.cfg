CONSTANTS
  Streams = {1, 3}
  Flowing = {1}
  MaxWritten = 3
  ChunkSizes = {3}
  HighWaterMark = 3
  PacketSize = 2
  Overhead = 0
  Header = 0
  BufferSize = 2
  PeerBufferSize = 3
  Ending = {1}
  MaxMoneyPackets = 1
  MaxFaults = 2
SPECIFICATION FairSpec
INVARIANTS RoomKept CutOffForCause NothingForgotten
PROPERTIES Implements AllRead
CHECK_DEADLOCK FALSE
