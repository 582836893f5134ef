CONSTANTS
  MaxLong = 7
  Streams = {1, 3}
  SendLimits = {1, 3}
  PacketLimits = {2}
  RateNum = 2
  RateDen = 1
  MaxSequence = 3
  Answers <- AllAnswers
  PeerLimits <- OnePeerLimit
SPECIFICATION Spec
INVARIANTS NoLostWakeUp NoStrandedHold PaidWithinLimit
PROPERTY EndSendsFirst
