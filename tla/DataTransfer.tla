---------------------------- MODULE DataTransfer ----------------------------
(***************************************************************************)
(* The data of streams, from stream.write at one end to stream.read at the *)
(* other: the sender's queues and send loop, the packets with their        *)
(* rejections, the receiver's buffers, and the two kinds of flow control,  *)
(* of each stream and of the connection.  A stream may also be ended.      *)
(* Errors that end the connection are left out: nothing follows them.      *)
(*                                                                         *)
(* The bytes written to a stream are numbered from 1, so that a byte is    *)
(* also its place.  Money is left out, but for the packets that carry some *)
(* and are refused for it after their data has been taken (MoneySender and *)
(* Receiver say when).  Node's stream buffers are modelled by what the     *)
(* code relies on: writes go to _write in order, read() calls _read when   *)
(* the buffer falls below the mark, and not while an earlier call waits,   *)
(* and after a push Node calls _read itself, a tick of the event loop      *)
(* later, until the buffer is at the mark or _read finds nothing.          *)
(***************************************************************************)
EXTENDS DataBuffers, FiniteSets, Functions

CONSTANTS
  Streams,          \* ids of the streams, the sender's
  Flowing,          \* those whose reader has a 'data' handler
  MaxWritten,       \* bound on the bytes written to a stream
  ChunkSizes,       \* sizes of a write
  HighWaterMark,    \* readableHighWaterMark, and the initial _remoteMaxOffset (16384)
  PacketSize,       \* what a packet has room for (32767 and less)
  Overhead,         \* what is set aside for a StreamData frame (20)
  Header,           \* what one takes
  BufferSize,       \* maxBufferedData of the sender, which it takes for the peer's
  PeerBufferSize,   \* maxBufferedData of the receiver
  Ending,           \* the streams that may be ended
  MaxMoneyPackets,  \* bound on the packets with money
  MaxFaults         \* bound on rejected packets

ASSUME DataAssumption ==
  /\ Streams \subseteq Nat \ {0} /\ IsFiniteSet(Streams) /\ Flowing \subseteq Streams /\ Ending \subseteq Streams
  /\ ChunkSizes \subseteq Nat \ {0}
  /\ {MaxWritten, HighWaterMark, PacketSize, Overhead, BufferSize, PeerBufferSize} \subseteq Nat
  /\ Header \in 0 .. Overhead

VARIABLES
  loop, sending,        \* as in MoneySender, here always connected
  request,              \* the packet under way: its data, its closes, whether it has money,
                        \* and whether the connection's window left no room for data
  stage, response,      \* where it is: "none", "path", "handling", "answered"; the answer
  queuedCloses,         \* streams with a StreamClose frame in queuedFrames
  life,                 \* "open", "ending" (end() has been called), "removed"
  written,              \* how many bytes have been written
  outgoing,             \* _outgoingData, with the writes that Node keeps back
  toRetry,              \* _outgoingDataToRetry
  outgoingOffset, remoteMaxOffset,
  connectionMax,        \* the connection's remoteMaxOffset
  status,               \* the receiver's stream: "open", "ended", "removed"
  incoming,             \* the entries of _incomingData
  readOffset, maxOffset, readable,   \* ... its offsets; Node's buffer of what has been read
  reading,              \* Node's state.reading: _read was called and has not pushed
  got,                  \* history: what the application has read
  peerLoop, peerSending, announced,  \* as in MoneyTransfer, for StreamMaxData frames
  unheard,              \* history: whether the last of the receiver's packets was refused
  failure,              \* "none", or "flow": destroyed with a FlowControlError
  dropped,              \* history: streams removed before all of their data got through
  faults, moneyPackets

loopVars    == <<loop, sending, request, queuedCloses>>
queueVars   == <<outgoing, toRetry, outgoingOffset>>
windowVars  == <<remoteMaxOffset, connectionMax>>
bufferVars  == <<incoming, readOffset, maxOffset, readable, reading, got>>
peerVars    == <<peerLoop, peerSending, announced, unheard>>
boundVars   == <<faults, moneyPackets>>
vars == <<loopVars, stage, response, life, written, queueVars, windowVars, status, bufferVars,
          peerVars, failure, dropped, boundVars>>

NoRequest == [data |-> [s \in {} |-> Entry(<<>>, 0)], closes |-> {}, money |-> FALSE, shut |-> FALSE]
NoLimits  == [s \in {} |-> 0]
NoResponse == [code |-> "none", connectionMax |-> 0, limits |-> NoLimits]

Zero == [s \in Streams |-> 0]
Empty == [s \in Streams |-> <<>>]

Init ==
  /\ loop = "idle" /\ sending = FALSE /\ request = NoRequest /\ queuedCloses = {}
  /\ stage = "none" /\ response = NoResponse
  /\ life = [s \in Streams |-> "open"] /\ written = Zero
  /\ outgoing = Empty /\ toRetry = Empty /\ outgoingOffset = Zero
  /\ remoteMaxOffset = [s \in Streams |-> HighWaterMark] /\ connectionMax = BufferSize
  /\ status = [s \in Streams |-> "open"]
  /\ incoming = Empty /\ readOffset = Zero /\ maxOffset = Zero /\ readable = Empty
  /\ reading = [s \in Streams |-> FALSE] /\ got = Empty
  /\ peerLoop = "idle" /\ peerSending = FALSE /\ announced = NoLimits /\ unheard = FALSE
  /\ failure = "none" /\ dropped = {} /\ faults = 0 /\ moneyPackets = 0
-----------------------------------------------------------------------------
(* The applications, and the sender's streams.                              *)

Existing == {s \in Streams : life[s] # "removed"}

Bytes(first, n) == [i \in 1 .. n |-> first + i - 1]

startSendLoop ==
  /\ sending' = TRUE
  /\ loop' = IF loop = "idle" THEN "tick" ELSE loop

\* stream.write: _write or _writev, at once or after the writes before it.
Write(s, n) ==
  /\ failure = "none" /\ life[s] = "open" /\ written[s] + n <= MaxWritten
  /\ outgoing' = [outgoing EXCEPT ![s] = Append(@, Bytes(written[s] + 1, n))]
  /\ written' = [written EXCEPT ![s] = @ + n]
  /\ startSendLoop
  /\ UNCHANGED <<request, queuedCloses, stage, response, life, toRetry, outgoingOffset, windowVars,
                 status, bufferVars, peerVars, failure, dropped, boundVars>>

End(s) ==
  /\ s \in Ending /\ failure = "none" /\ life[s] = "open"
  /\ life' = [life EXCEPT ![s] = "ending"]
  /\ UNCHANGED <<loopVars, stage, response, written, queueVars, windowVars, status, bufferVars,
                 peerVars, failure, dropped, boundVars>>

\* Mutant: the stream is closed without waiting for its data.
AllTakenNot(s) == TRUE

\* What _final waits for: the writes have been taken into packets.
AllTaken(s) == outgoing[s] = <<>>

\* _final and, a setImmediate later, 'close' and removeStreamRecord.
Finish(s) ==
  /\ failure = "none" /\ life[s] = "ending" /\ AllTaken(s)
  /\ life' = [life EXCEPT ![s] = "removed"]
  /\ dropped' = IF toRetry[s] = <<>> THEN dropped ELSE dropped \cup {s}
  /\ queuedCloses' = queuedCloses \cup {s}
  /\ startSendLoop
  /\ UNCHANGED <<request, stage, response, written, queueVars, windowVars, status, bufferVars,
                 peerVars, failure, boundVars>>
-----------------------------------------------------------------------------
(* The sender's packets.                                                    *)

Least(a, b) == IF a <= b THEN a ELSE b

\* What is left of data to send again when a packet has room for a part.
Rest(entry, n) == Entry(Drop(entry.data, n), entry.offset + n)

DataAgain(s, size) ==
  LET first == Head(toRetry[s])
      n     == Least(size, Len(first.data))
  IN  [frame |-> Entry(Take(first.data, n), first.offset),
       queue |-> outgoing[s], offset |-> outgoingOffset[s],
       retry |-> IF n < Len(first.data) THEN <<Rest(first, n)>> \o Tail(toRetry[s])
                 ELSE Tail(toRetry[s])]

NewData(s, size) ==
  LET r == QueueRead(outgoing[s], Least(size, remoteMaxOffset[s] - outgoingOffset[s]))
  IN  [frame |-> Entry(r.data, outgoingOffset[s]), queue |-> r.queue,
       offset |-> outgoingOffset[s] + Len(r.data), retry |-> toRetry[s]]

\* _getAvailableDataToSend: data to send again first, then new data as far as the peer's
\* stream allows.
AvailableData == [s \in Streams |-> [size \in Nat |->
  IF toRetry[s] # <<>> THEN DataAgain(s, size) ELSE NewData(s, size)]]

\* Mutant: what has been sent is not counted.
WindowOpen == connectionMax

\* What the connection's window leaves: getOutgoingOffsets counts the current streams.
Window == connectionMax - SumFunctionOnSet(outgoingOffset, Existing)

\* What a stream adds to a packet that has room left for data.
TakeFrame(packet, s) ==
  LET a == AvailableData[s][packet.left - Overhead]
  IN  IF s \notin Existing \/ packet.left <= Overhead \/ a.frame.data = <<>> THEN packet
      ELSE [left  |-> packet.left - Len(a.frame.data) - Header,
            taken |-> [t \in DOMAIN packet.taken \cup {s} |-> IF t = s THEN a ELSE packet.taken[t]]]

LastId == Max(Streams \cup {0})

\* A packet with the data of the streams up to an id.
Packet[s \in 0 .. LastId] ==
  IF s = 0 THEN [left |-> Least(PacketSize, Window), taken |-> [t \in {} |-> 0]]
  ELSE TakeFrame(Packet[s - 1], s)

DataFrames == Packet[LastId].taken

\* Frames of the other kinds are always there while there is a stream, and do not keep the
\* loop going.
loadAndSendPacket(money) ==
  /\ failure = "none" /\ loop = "tick"
  /\ money => moneyPackets < MaxMoneyPackets /\ Existing # {}
  /\ LET taken == DataFrames
         empty == DOMAIN taken = {} /\ queuedCloses = {} /\ ~money
     IN  /\ request' = [data |-> [s \in DOMAIN taken |-> taken[s].frame],
                        closes |-> queuedCloses, money |-> money, shut |-> Window <= Overhead]
         /\ outgoing' = [s \in Streams |-> IF s \in DOMAIN taken THEN taken[s].queue ELSE outgoing[s]]
         /\ toRetry' = [s \in Streams |-> IF s \in DOMAIN taken THEN taken[s].retry ELSE toRetry[s]]
         /\ outgoingOffset' = [s \in Streams |-> IF s \in DOMAIN taken THEN taken[s].offset
                                                 ELSE outgoingOffset[s]]
         /\ sending' = (sending /\ ~empty)
         /\ IF empty /\ Existing = {} /\ Window >= PacketSize
            THEN loop' = "idle" /\ stage' = "none"
            ELSE loop' = "waiting" /\ stage' = "path"
  /\ queuedCloses' = {}
  /\ moneyPackets' = IF money THEN moneyPackets + 1 ELSE moneyPackets
  /\ UNCHANGED <<response, life, written, windowVars, status, bufferVars, peerVars, failure,
                 dropped, faults>>

LoopOn == loop' = IF sending' THEN "tick" ELSE "idle"

\* handleControlFrames for StreamMaxData: limits only rise, and one that does starts the loop.
Raised(limits) == {s \in DOMAIN limits \cap Existing : limits[s] > remoteMaxOffset[s]}

TakeLimits(limits) ==
  remoteMaxOffset' = [s \in Streams |-> IF s \in Raised(limits) THEN limits[s] ELSE remoteMaxOffset[s]]

\* ConnectionMaxData: raised, unless it is the sender's own buffer size.
TakeConnectionMax(max) ==
  IF max # BufferSize /\ max < connectionMax THEN connectionMax ELSE max

\* Mutant: data is sent again with the next packet alone.
UndoneOnce ==
  /\ toRetry' = [s \in Streams |-> IF s \in DOMAIN request.data \cap Existing
                                   THEN <<request.data[s]>> ELSE toRetry[s]]
  /\ dropped' = dropped \cup (DOMAIN request.data \ Existing)
  /\ queuedCloses' = queuedCloses \cup request.closes

\* undoRejectedPacket: what the streams still there have to send again.
Undone ==
  /\ toRetry' = [s \in Streams |-> IF s \in DOMAIN request.data \cap Existing
                                   THEN Append(toRetry[s], request.data[s]) ELSE toRetry[s]]
  /\ dropped' = dropped \cup (DOMAIN request.data \ Existing)
  /\ queuedCloses' = queuedCloses \cup request.closes

\* The packet is done with; what its window was like is kept for the properties.
Settled == stage' = "none" /\ response' = NoResponse /\ request' = [NoRequest EXCEPT !.shut = request.shut]

Answered ==
  /\ failure = "none" /\ stage = "answered"
  /\ Settled
  /\ IF response.code = "fulfill" THEN UNCHANGED <<toRetry, dropped, queuedCloses>> ELSE Undone
  /\ TakeLimits(response.limits)
  /\ connectionMax' = TakeConnectionMax(response.connectionMax)
  /\ sending' = (sending \/ Raised(response.limits) # {})
  /\ LoopOn
  /\ UNCHANGED <<life, written, outgoing, outgoingOffset, status, bufferVars, peerVars, failure,
                 boundVars>>

\* A connector refuses the packet for the time being.
TemporaryError ==
  /\ failure = "none" /\ stage = "path" /\ faults < MaxFaults
  /\ faults' = faults + 1 /\ Settled /\ loop' = "backoff"
  /\ Undone
  /\ UNCHANGED <<sending, life, written, outgoing, outgoingOffset, windowVars,
                 status, bufferVars, peerVars, failure, moneyPackets>>

BackoffOver ==
  /\ failure = "none" /\ loop = "backoff"
  /\ loop' = IF sending THEN "tick" ELSE "idle"
  /\ UNCHANGED <<sending, request, queuedCloses, stage, response, life, written, queueVars, windowVars,
                 status, bufferVars, peerVars, failure, dropped, boundVars>>
-----------------------------------------------------------------------------
(* The receiver.                                                            *)

\* Mutant: the buffers are taken to be empty.
ReadableLengthNone(s) == 0

\* readableLength: what Node has, and what it could have from the sorter.
ReadableLength(s) == Len(readable[s]) + ByteLength(incoming[s], readOffset[s])

\* The offset up to which a stream, and the connection, can take data.
Acceptable(s) == readOffset[s] + HighWaterMark - ReadableLength(s)

Kept == {s \in Streams : status[s] # "removed"}

ConnectionAcceptable ==
  SumFunctionOnSet(readOffset, Kept) - SumFunctionOnSet([s \in Streams |-> ReadableLength(s)], Kept) + PeerBufferSize

\* startSendLoop of the receiver.
WakePeer ==
  /\ peerSending' = TRUE
  /\ peerLoop' = IF peerLoop = "idle" THEN "tick" ELSE peerLoop

\* Node has room for more, and the sorter has nothing that goes on: _read finds nothing.
Full(s)  == Len(readable[s]) >= HighWaterMark
Left(s)  == ByteLength(incoming[s], readOffset[s]) > 0
Rests(s) == ~Full(s) /\ ~Left(s)

\* What _read gives some streams goes to Node's buffer, or to the reader.  In the end _read finds
\* nothing and has the limits sent, unless the buffer is full or, for now, something is left.
Give(reads) ==
  /\ incoming' = [s \in Streams |-> IF s \in DOMAIN reads THEN reads[s].entries ELSE incoming[s]]
  /\ readOffset' = [s \in Streams |-> IF s \in DOMAIN reads THEN readOffset[s] + Len(reads[s].data)
                                      ELSE readOffset[s]]
  /\ readable' = [s \in Streams |-> IF s \in DOMAIN reads \ Flowing THEN readable[s] \o reads[s].data
                                    ELSE readable[s]]
  /\ got' = [s \in Streams |-> IF s \in DOMAIN reads \cap Flowing THEN got[s] \o reads[s].data
                               ELSE got[s]]
  /\ reading' = [s \in Streams |-> IF s \in DOMAIN reads /\ reads[s].data # <<>> THEN Rests(s)'
                                   ELSE reading[s]]
  /\ IF \E s \in DOMAIN reads \ Flowing : reads[s].data = <<>> \/ Rests(s)' THEN WakePeer
     ELSE UNCHANGED <<peerLoop, peerSending>>

\* _pushIncomingData: the data is sorted in, and some of what follows on is read.
Pushed(s) ==
  LET entries == SorterPush(incoming[s], request.data[s])
  IN  SorterRead(entries, readOffset[s],
                 HighWaterMark - (Len(readable[s]) + ByteLength(entries, readOffset[s])))

\* What Node's own call of _read gets.
More(s) == SorterRead(incoming[s], readOffset[s], HighWaterMark)

\* Node is about to call _read, before anything else comes to the event loop.
Due(s) == status[s] = "open" /\ ~reading[s] /\ ~Full(s) /\ Left(s)

ReadMore(s) ==
  /\ failure = "none" /\ Due(s)
  /\ Give([t \in {s} |-> More(t)])
  /\ UNCHANGED <<loopVars, stage, response, life, written, queueVars, windowVars, status, maxOffset,
                 announced, unheard, failure, dropped, boundVars>>

Arriving == {s \in DOMAIN request.data : status[s] = "open"}

\* The frames are applied in their order: StreamClose, then data.
Arrive ==
  /\ failure = "none" /\ stage = "path" /\ \A s \in Streams : ~Due(s)
  /\ stage' = "handling"
  /\ response' = [response EXCEPT !.connectionMax = ConnectionAcceptable]
  /\ status' = [s \in Streams |-> IF s \in request.closes /\ status[s] = "open"
                                  THEN "ended" ELSE status[s]]
  /\ Give([s \in Arriving |-> Pushed(s)])
  /\ maxOffset' = [s \in Streams |->
       IF s \notin Arriving \/ maxOffset[s] >= request.data[s].offset + Len(request.data[s].data)
       THEN maxOffset[s] ELSE request.data[s].offset + Len(request.data[s].data)]
  /\ failure' = IF \/ \E s \in DOMAIN request.data : maxOffset'[s] > Acceptable(s)'
                   \/ SumFunctionOnSet(maxOffset', Kept) > ConnectionAcceptable'
                THEN "flow" ELSE "none"
  /\ UNCHANGED <<loopVars, life, written, queueVars, windowVars, announced, unheard, dropped, boundVars>>

MaxData == [s \in {t \in Streams : status[t] = "open"} |-> Acceptable(s)]

\* The rest of handlePrepare: fulfilled, or refused for the packet's money.
Respond ==
  /\ failure = "none" /\ stage = "handling"
  /\ stage' = "answered"
  /\ \/ response' = [response EXCEPT !.code = "fulfill", !.limits = MaxData] /\ UNCHANGED faults
     \/ /\ request.money /\ faults < MaxFaults /\ faults' = faults + 1
        /\ response' = [response EXCEPT !.code = "F99", !.limits = NoLimits]
  /\ UNCHANGED <<loopVars, life, written, queueVars, windowVars, status, bufferVars, peerVars,
                 failure, dropped, moneyPackets>>

\* push(null) and end(), after a StreamClose frame: 'close' follows a setImmediate later.
RemovePeer(s) ==
  /\ failure = "none" /\ status[s] = "ended"
  /\ status' = [status EXCEPT ![s] = "removed"]
  /\ UNCHANGED <<loopVars, stage, response, life, written, queueVars, windowVars, bufferVars, peerVars,
                 failure, dropped, boundVars>>

\* stream.read() of a stream that does not flow, unless _read has found nothing since the last
\* data, calls it first.
Read(s) ==
  /\ failure = "none" /\ s \notin Flowing /\ readable[s] # <<>>
  /\ LET calls == ~reading[s] /\ status[s] = "open"
         more  == IF calls THEN More(s) ELSE [data |-> <<>>, entries |-> incoming[s]]
     IN  /\ incoming' = [incoming EXCEPT ![s] = more.entries]
         /\ readOffset' = [readOffset EXCEPT ![s] = @ + Len(more.data)]
         /\ readable' = [readable EXCEPT ![s] = <<>>]
         /\ got' = [got EXCEPT ![s] = @ \o readable[s] \o more.data]
         /\ IF calls /\ Rests(s)' THEN WakePeer /\ reading' = [reading EXCEPT ![s] = TRUE]
            ELSE UNCHANGED <<peerLoop, peerSending, reading>>
  /\ UNCHANGED <<loopVars, stage, response, life, written, queueVars, windowVars, status, maxOffset,
                 announced, unheard, failure, dropped, boundVars>>

\* The receiver's own packet has StreamMaxData frames, and nothing else that counts here.
Announce ==
  /\ failure = "none" /\ peerLoop = "tick" /\ \A s \in Streams : ~Due(s)
  /\ announced' = MaxData
  /\ peerLoop' = "waiting" /\ peerSending' = FALSE
  /\ UNCHANGED <<loopVars, stage, response, life, written, queueVars, windowVars, status, bufferVars,
                 unheard, failure, dropped, boundVars>>

PeerGoesOn ==
  /\ failure = "none" /\ peerLoop = "waiting"
  /\ peerLoop' = IF peerSending THEN "tick" ELSE "idle"
  /\ announced' = NoLimits
  /\ UNCHANGED peerSending

AnnouncementArrives ==
  /\ PeerGoesOn /\ unheard' = FALSE
  /\ TakeLimits(announced)
  /\ IF Raised(announced) # {} THEN startSendLoop ELSE UNCHANGED <<loop, sending>>
  /\ UNCHANGED <<request, queuedCloses, stage, response, life, written, queueVars, connectionMax,
                 status, bufferVars, failure, dropped, boundVars>>

AnnouncementRefused ==
  /\ faults < MaxFaults /\ faults' = faults + 1
  /\ PeerGoesOn /\ unheard' = TRUE
  /\ UNCHANGED <<loopVars, stage, response, life, written, queueVars, windowVars, status, bufferVars,
                 failure, dropped, moneyPackets>>
-----------------------------------------------------------------------------
SenderStep ==
  \/ \E money \in BOOLEAN : loadAndSendPacket(money)
  \/ Answered \/ BackoffOver
  \/ \E s \in Streams : Finish(s)
PathStep == Arrive \/ Respond
PeerStep == Announce \/ AnnouncementArrives \/ \E s \in Streams : ReadMore(s) \/ RemovePeer(s)
Writing  == \E s \in Streams : End(s) \/ \E n \in ChunkSizes : Write(s, n)
Failing  == TemporaryError \/ AnnouncementRefused

Next == SenderStep \/ PathStep \/ PeerStep \/ (\E s \in Streams : Read(s)) \/ Writing \/ Failing

Spec == Init /\ [][Next]_vars

\* Something goes on as long as something can: the two event loops, the path, the readers.
\* None of them can go on forever without the others.
Progress == (\E s \in Streams : Read(s)) \/ PathStep \/ PeerStep \/ SenderStep

FairSpec == Spec /\ WF_vars(Progress)
-----------------------------------------------------------------------------
(* Properties.                                                              *)

\* An entry that starts before the reader's place: a duplicate, for which the sorter waits.
Clogged(s) == \E i \in DOMAIN incoming[s] : incoming[s][i].offset < readOffset[s]

\* The sender never takes more into its packets than the receiver has room for besides what its
\* application has read: not on a stream, and not on the connection as long as no stream was
\* removed, whose data both ends forget (connection.ts:1623).
StreamHasRoom(s) == outgoingOffset[s] <= Len(got[s]) + HighWaterMark
ConnectionHasRoom ==
  SumFunctionOnSet(outgoingOffset, Streams) <=
    SumFunctionOnSet([s \in Streams |-> Len(got[s])], Streams) + PeerBufferSize
RoomKept ==
  (\A s \in Streams : StreamHasRoom(s)) /\ (Existing = Streams => ConnectionHasRoom)

\* "Make sure the peer hasn't exceeded the flow control limits" (connection.ts:851): the receiver
\* destroys the connection for it only when data that could be read was left in the sorter (it
\* counts in readableLength, so that limits the peer was told go down), or a stream was removed.
CutOffForCause == failure = "flow" => (\E s \in Streams : Left(s)) \/ Existing # Streams

\* What the code does lose: the data of a packet that was rejected after its stream had
\* been removed, and what arrives behind a duplicate.
Lost(s) == s \in dropped \/ Clogged(s)

\* What is rejected is sent again: nothing that was taken out of the queue is lost while
\* the stream is there.
Accounted(s) ==
  \A b \in 1 .. outgoingOffset[s] :
    \/ b <= readOffset[s]
    \/ \E i \in DOMAIN incoming[s] : b \in Range(incoming[s][i].data)
    \/ \E i \in DOMAIN toRetry[s] : b \in Range(toRetry[s][i].data)
    \/ stage # "none" /\ s \in DOMAIN request.data /\ b \in Range(request.data[s].data)
NothingForgotten == \A s \in Existing : Accounted(s)

Pipe == INSTANCE BytePipe
  WITH written <- [s \in Streams |-> Bytes(1, written[s])], arrived <- readOffset,
       ended <- [s \in Streams |-> status[s] # "open"],
       failed <- [s \in Streams |-> Lost(s)]

\* The two ends implement the promise of a Node stream.
Implements == Pipe!Spec

\* Everything is read at last, unless the connection has failed, the stream is clogged, or
\* the sender rests, after a packet that the connection's window left without data or while
\* the receiver's limits went astray (its packets with limits alone are not sent again).
Stopped(s) == Lost(s) \/ (loop = "idle" /\ (request.shut \/ unheard))
AllRead == <>[](failure # "none" \/ \A s \in Streams : (Len(got[s]) = written[s]) \/ Stopped(s))
=============================================================================
