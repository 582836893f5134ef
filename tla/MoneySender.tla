----------------------------- MODULE MoneySender -----------------------------
(***************************************************************************)
(* The sending half of a Connection for money: the send loop of            *)
(* connection.ts (startSendLoop, loadAndSendPacket, sendPacket,            *)
(* undoRejectedPacket, handleConnectorError) and the part of               *)
(* DataAndMoneyStream that holds, executes and cancels outgoing money.     *)
(*                                                                         *)
(* One loop runs at a time.  It stops at four awaits, and everything else  *)
(* the connection does interleaves there: "connecting" (the exchange rate  *)
(* is being determined), "tick" (setImmediate, before a packet is loaded), *)
(* "waiting" (plugin.sendData) and "backoff" (the delay after a temporary  *)
(* error).                                                                 *)
(***************************************************************************)
EXTENDS LongArith, FiniteSets, Functions

CONSTANTS
  Streams,        \* ids of the streams of the connection, all created
  SendLimits,     \* arguments of setSendMax
  PacketLimits,   \* values of congestion.testMaximumPacketAmount
  RateNum,        \* the exchange rate is RateNum / RateDen
  RateDen,
  MaxSequence,    \* the first sequence number a packet may not have (2^31)
  Answers,        \* what plugin.sendData can resolve to, see IsAnswer
  PeerLimits      \* the contents of the StreamMaxMoney frames of the peer's packets

LimitType == [receiveMax : Long, totalReceived : Long]

\* Sets of frames: what StreamMaxMoney frames say of some of the streams.
IsLimits(l) == DOMAIN l \subseteq Streams /\ l \in [DOMAIN l -> LimitType]

\* The code of the ILP reply: "fulfill" and "F99" with frames, "bare" for a reject by
\* which nothing is learnt but that it is one, "T" for a temporary error, "F00" for any
\* other, "noData" for a fulfillment without data, "broken" where sendPacket throws.
IsAnswer(r) ==
  /\ r.code \in {"fulfill", "F99", "bare", "T", "F00", "noData", "broken"}
  /\ r.code \in {"fulfill", "F99"} => IsLimits(r.limits) /\ r.closes \subseteq Streams
  /\ r.code = "broken" => r.paid \in BOOLEAN

\* checkedSubtract misses an underflow by more than half of a Long, so that a limit
\* is taken below that.
ASSUME SenderAssumption ==
  /\ Streams \subseteq Nat /\ IsFiniteSet(Streams)
  /\ SendLimits \subseteq {n \in Long : 2 * n <= MaxLong}
  /\ PacketLimits \subseteq Long
  /\ RateNum \in Nat \ {0} /\ RateDen \in Nat \ {0}
  /\ MaxSequence \in Nat \ {0}
  /\ \A r \in Answers : IsAnswer(r)
  /\ \A l \in PeerLimits : IsLimits(l)

VARIABLES
  loop,              \* "idle" unless this.looping, else the await the loop is at
  sending,           \* this.sending
  connected,         \* this.connected
  destroyed,         \* destroy() has been called
  remoteGone,        \* remoteState is Closed
  nextSequence,      \* nextPacketSequence
  request,           \* the packet the loop waits for: its sequence, the money of each stream
                     \* and of all (amountToSend), its StreamClose frames
  queuedCloses,      \* streams with a StreamClose frame in queuedFrames
  life,              \* "open", "ending" (_final waits), "closed", "removed" from this.streams
  sentEnd,           \* stream._sentEnd
  sendMax, totalSent, held,   \* stream._sendMax, _totalSent, _outgoingHeldAmount
  holds,             \* stream.holds: by sequence number, 0 where there is none
  remoteReceived, remoteReceiveMax,
  connectionSent,    \* connection._totalSent
  peak, paid         \* history: the largest sendMax so far, the money of fulfilled packets

loopVars   == <<loop, sending, connected, destroyed, remoteGone, nextSequence, request, queuedCloses>>
streamVars == <<life, sentEnd>>
moneyVars  == <<totalSent, held, holds, connectionSent, paid>>
remoteVars == <<remoteReceived, remoteReceiveMax>>
vars == <<loopVars, streamVars, sendMax, moneyVars, remoteVars, peak>>

NoMoney == [s \in Streams |-> 0]

Init ==
  /\ loop = "connecting" /\ sending = TRUE /\ connected = FALSE
  /\ destroyed = FALSE /\ remoteGone = FALSE
  /\ nextSequence = 1 /\ request = [seq |-> 0, money |-> NoMoney, amount |-> 0, closes |-> {}]
  /\ queuedCloses = {}
  /\ life = [s \in Streams |-> "open"] /\ sentEnd = [s \in Streams |-> FALSE]
  /\ sendMax = NoMoney /\ totalSent = NoMoney /\ held = NoMoney
  /\ holds = [s \in Streams |-> [n \in 0 .. MaxSequence |-> 0]]
  /\ remoteReceived = NoMoney /\ remoteReceiveMax = [s \in Streams |-> MaxLong]
  /\ connectionSent = 0 /\ peak = NoMoney /\ paid = NoMoney
-----------------------------------------------------------------------------
isOpen(s)   == life[s] \in {"open", "ending"}
recorded(s) == life[s] # "removed"

\* Mutant: what is held for packets under way is available again.
AvailableAgain(max, sent, h) == checkedSubtract(max, sent).difference

\* _getAmountAvailableToSend, given what is sent, held and allowed.
Available(max, sent, h) == checkedSubtract(checkedSubtract(max, sent).difference, h).difference

_getAmountAvailableToSend(s) ==
  IF isOpen(s) THEN Available(sendMax[s], totalSent[s], held[s]) ELSE 0

\* What the peer still accepts on a stream, in the units of this side.
MaxSourceAmount(s) ==
  minLong(Ceil(checkedSubtract(remoteReceiveMax[s], remoteReceived[s]).difference,
               RateDen, RateNum),
          MaxLong)

\* Mutant: a loop that is running is left alone.
startSendLoopOnce ==
  /\ IF loop # "idle" \/ remoteGone THEN UNCHANGED <<loop, sending>>
     ELSE sending' = TRUE /\ loop' = IF connected THEN "tick" ELSE "connecting"
  /\ UNCHANGED <<connected, destroyed, remoteGone, nextSequence, request>>

\* The effect of startSendLoop on the loop variables other than the loop's own.
startSendLoop ==
  /\ IF loop # "idle" THEN sending' = TRUE /\ UNCHANGED loop
     ELSE IF remoteGone THEN UNCHANGED <<loop, sending>>
     ELSE sending' = TRUE /\ loop' = IF connected THEN "tick" ELSE "connecting"
  /\ UNCHANGED <<connected, destroyed, remoteGone, nextSequence, request>>

\* Streams in _final that wait for '_send_loop_finished' are closed by it.
LoopFinished == life' = [s \in Streams |-> IF life[s] = "ending" THEN "closed" ELSE life[s]]

\* The loop's own next step, given the value of this.sending.
Continue(flag) ==
  /\ sending' = flag
  /\ loop' = IF flag THEN "tick" ELSE "idle"

\* An error in the loop: destroy() closes every stream, no event ends the loop.
Destroy(closes) ==
  /\ loop' = "idle" /\ destroyed' = TRUE
  /\ life' = [s \in Streams |-> IF isOpen(s) THEN "closed" ELSE life[s]]
  /\ queuedCloses' = closes
  /\ UNCHANGED <<sending, connected, remoteGone, nextSequence, request, sentEnd>>
-----------------------------------------------------------------------------
(* The loop.                                                                *)

setupExchangeRate ==
  /\ loop = "connecting"
  /\ \/ /\ connected' = TRUE /\ Continue(sending)
        /\ UNCHANGED <<destroyed, remoteGone, nextSequence, request, queuedCloses, sentEnd>>
        /\ IF sending THEN UNCHANGED life ELSE LoopFinished
     \/ Destroy(queuedCloses)
  /\ UNCHANGED <<sendMax, moneyVars, remoteVars, peak>>

\* What each stream gets of a packet that may carry `limit`: streams are served in
\* order, each as much as it has available, the peer accepts and the packet has left.
MoneyFrames(limit) ==
  {m \in [Streams -> 0 .. limit] :
     \A s \in Streams :
       m[s] = IF sentEnd[s] \/ ~recorded(s) THEN 0
              ELSE minLong(minLong(_getAmountAvailableToSend(s), MaxSourceAmount(s)),
                           limit - SumFunctionOnSet(m, {t \in Streams : t < s}))}

\* The rate must not take the amount delivered past MaxLong.
LimitFor(testMaximum) ==
  IF RateNum > RateDen THEN minLong(testMaximum, Floor(MaxLong, RateDen, RateNum))
  ELSE testMaximum

TooManyPackets ==
  /\ loop = "tick" /\ nextSequence >= MaxSequence
  /\ Destroy(queuedCloses)
  /\ UNCHANGED <<sendMax, moneyVars, remoteVars, peak>>

\* _holdOutgoing, for every stream with a money frame in the packet.
_holdOutgoing(m) ==
  /\ held' = [s \in Streams |-> held[s] + m[s]]
  /\ holds' = [s \in Streams |-> IF m[s] > 0 THEN [holds[s] EXCEPT ![nextSequence] = m[s]]
                                 ELSE holds[s]]

\* Mutant: the loop stops after any packet, unless something starts it again.
SendOnce(m, amount, other) ==
  /\ request' = [seq |-> nextSequence, money |-> m, amount |-> amount, closes |-> queuedCloses]
  /\ loop' = "waiting"
  /\ sending' = FALSE

\* The loop stops at a packet with nothing in it, and after one that only has frames
\* which are not worth a retry.  Those of an open stream are always there, `other`
\* says whether there are any that are not modelled.
SendUnlessEmpty(m, amount, other) ==
  IF amount = 0 /\ queuedCloses = {} /\ ~other /\ \A s \in Streams : ~isOpen(s)
  THEN Continue(FALSE) /\ UNCHANGED request
  ELSE /\ request' = [seq |-> nextSequence, money |-> m, amount |-> amount, closes |-> queuedCloses]
       /\ loop' = "waiting"
       /\ sending' = IF amount = 0 /\ queuedCloses = {} THEN FALSE ELSE sending

loadAndSendPacket(limit, other) ==
  /\ loop = "tick" /\ nextSequence < MaxSequence
  /\ nextSequence' = nextSequence + 1
  /\ queuedCloses' = {}
  /\ \E m \in MoneyFrames(LimitFor(limit)) :
       /\ _holdOutgoing(m)
       /\ \E amount \in {a \in Long : a = SumFunction(m)} : SendUnlessEmpty(m, amount, other)
  /\ UNCHANGED <<connected, destroyed, remoteGone, streamVars, sendMax, totalSent, connectionSent,
                 paid, remoteVars, peak>>
-----------------------------------------------------------------------------
(* Answers.  A response with frames has the StreamMaxMoney frames of the    *)
(* peer (limits) and the streams of its StreamClose frames (closes).        *)

\* Mutant: all of the packet's money is taken for the stream's.
HeldInPacket(s) == request.amount

\* What a stream holds for the packet that is answered.
HeldFor(s) == holds[s][request.seq]

\* Mutant: nothing is undone.
KeepHolds == UNCHANGED <<held, holds, totalSent, connectionSent, paid>>

\* undoRejectedPacket: streams that are no longer recorded keep their hold.
CancelHolds ==
  LET cancelled == {s \in Streams : recorded(s) /\ holds[s][request.seq] # 0}
  IN  /\ held' = [s \in Streams |-> IF s \in cancelled THEN held[s] - HeldFor(s) ELSE held[s]]
      /\ holds' = [s \in Streams |-> IF s \in cancelled
                                     THEN [holds[s] EXCEPT ![request.seq] = 0] ELSE holds[s]]
      /\ UNCHANGED <<totalSent, connectionSent, paid>>

addTotalSent(value) == checkedAdd(connectionSent, value)

\* _executeHold for the streams of the packet; isCounted is whether the connection's
\* totals take the amount in (addTotalDelivered, addTotalSent) or throw.
ExecuteHolds(isCounted) ==
  LET amount(s) == IF request.money[s] > 0 THEN HeldFor(s) ELSE 0
  IN  /\ held' = [s \in Streams |-> held[s] - amount(s)]
      /\ totalSent' = [s \in Streams |-> totalSent[s] + amount(s)]
      /\ holds' = [s \in Streams |-> [holds[s] EXCEPT ![request.seq] =
                                        IF request.money[s] > 0 THEN 0 ELSE @]]
      /\ connectionSent' = IF isCounted THEN addTotalSent(request.amount).sum
                           ELSE connectionSent
      /\ paid' = [s \in Streams |-> paid[s] + request.money[s]]

\* handleControlFrames: the limits are taken in, and whether the loop is to go on.
TakeLimits(limits) ==
  LET of(s) == s \in DOMAIN limits /\ recorded(s)
  IN  /\ remoteReceived' = [s \in Streams |->
           IF of(s) THEN maxLong(remoteReceived[s], limits[s].totalReceived) ELSE remoteReceived[s]]
      /\ remoteReceiveMax' = [s \in Streams |->
           IF ~of(s) THEN remoteReceiveMax[s]
           ELSE IF remoteReceiveMax[s] = MaxLong THEN limits[s].receiveMax
           ELSE maxLong(remoteReceiveMax[s], limits[s].receiveMax)]

\* h is what the streams have held when the frames are handled.
Wakes(limits, h) ==
  \E s \in DOMAIN limits :
    /\ isOpen(s) /\ remoteReceiveMax'[s] > remoteReceived'[s]
    /\ Available(sendMax[s], totalSent[s], h[s]) > 0

\* handleStreamClose; the ConnectionMaxStreamId frame it queues is not modelled, that
\* it starts the loop is.
PeerCloses(closes) == {s \in closes : isOpen(s) /\ ~sentEnd[s]}

\* 'outgoing_total_sent' is emitted.
AllSent(s) == totalSent'[s] # totalSent[s] /\ sendMax[s] <= totalSent'[s]

\* After an answer the streams the peer closed are closed, and those that are ending
\* are once all their money is sent or the loop is over.  A stream that is ending
\* already goes on waiting if the peer closed it without an error (waits).
LifeAfter(closes, goesOn) ==
  \E waits \in SUBSET {s \in PeerCloses(closes) : life[s] = "ending"} :
    LET ends(s) == \/ s \in PeerCloses(closes) \ waits
                   \/ life[s] = "ending" /\ (~goesOn \/ AllSent(s))
    IN  /\ life' = [s \in Streams |-> IF ends(s) THEN "closed" ELSE life[s]]
        /\ sentEnd' = [s \in Streams |-> sentEnd[s] \/ s \in PeerCloses(closes)]

\* Whether the total delivered still fits in a Long is up to the peer's numbers, which
\* are not modelled, the total sent fits or not by connectionSent.
Fulfilled(limits, closes) ==
  LET goesOn == sending \/ PeerCloses(closes) # {} \/ Wakes(limits, held)
  IN  /\ ~addTotalSent(request.amount).overflow
      /\ ExecuteHolds(TRUE)
      /\ TakeLimits(limits)
      /\ Continue(goesOn) /\ LifeAfter(closes, goesOn)
      /\ UNCHANGED <<connected, destroyed, remoteGone, nextSequence, request, queuedCloses>>

TotalOverflows(limits, closes) ==
  /\ ExecuteHolds(FALSE)
  /\ TakeLimits(limits)
  /\ loop' = "idle" /\ destroyed' = TRUE
  /\ life' = [s \in Streams |-> IF isOpen(s) THEN "closed" ELSE life[s]]
  /\ sentEnd' = [s \in Streams |-> sentEnd[s] \/ s \in PeerCloses(closes)]
  /\ sending' = (sending \/ PeerCloses(closes) # {} \/ Wakes(limits, held))
  /\ UNCHANGED <<connected, remoteGone, nextSequence, request, queuedCloses>>

\* A final application error of the peer: rejected, with frames.
Rejected(limits, closes) ==
  LET goesOn == sending \/ PeerCloses(closes) # {} \/ Wakes(limits, held')
  IN  /\ CancelHolds
      /\ TakeLimits(limits)
      /\ Continue(goesOn) /\ LifeAfter(closes, goesOn)
      /\ queuedCloses' = queuedCloses \cup request.closes
      /\ UNCHANGED <<connected, destroyed, remoteGone, nextSequence, request>>

\* Rejected without frames: an F99 without data, or an F08 that leaves a packet limit.
RejectedBare ==
  /\ CancelHolds
  /\ Continue(sending) /\ LifeAfter({}, sending)
  /\ queuedCloses' = queuedCloses \cup request.closes
  /\ UNCHANGED <<connected, destroyed, remoteGone, nextSequence, request, remoteVars>>

RejectedTemporarily ==
  /\ CancelHolds
  /\ loop' = "backoff"
  /\ queuedCloses' = queuedCloses \cup request.closes
  /\ UNCHANGED <<sending, connected, destroyed, remoteGone, nextSequence, request, streamVars, remoteVars>>

\* Any other code, or an F08 that leaves nothing.
RejectedFinally ==
  /\ CancelHolds
  /\ Destroy(queuedCloses \cup request.closes)
  /\ UNCHANGED remoteVars

\* A fulfillment without data: nothing is undone and nothing is counted.
FulfilledBare ==
  /\ paid' = [s \in Streams |-> paid[s] + request.money[s]]
  /\ UNCHANGED <<connected, destroyed, remoteGone, nextSequence, request, queuedCloses,
                 totalSent, held, holds, connectionSent, remoteVars>>
  /\ Continue(sending) /\ LifeAfter({}, sending)

\* sendPacket throws: the plugin failed or the fulfillment is wrong, or a fulfilled
\* packet came back with a response that cannot be read (isPaid).
Broken(isPaid) ==
  /\ paid' = IF isPaid THEN [s \in Streams |-> paid[s] + request.money[s]] ELSE paid
  /\ Destroy(queuedCloses)
  /\ UNCHANGED <<totalSent, held, holds, connectionSent, remoteVars>>

\* loadAndSendPacket once plugin.sendData has resolved.
Respond(r) ==
  /\ loop = "waiting"
  /\ CASE r.code = "fulfill" -> Fulfilled(r.limits, r.closes) \/ TotalOverflows(r.limits, r.closes)
       [] r.code = "F99"     -> Rejected(r.limits, r.closes)
       [] r.code = "bare"    -> RejectedBare
       [] r.code = "T"       -> RejectedTemporarily
       [] r.code = "F00"     -> RejectedFinally
       [] r.code = "noData"  -> FulfilledBare
       [] r.code = "broken"  -> Broken(r.paid)
  /\ UNCHANGED <<sendMax, peak>>

BackoffOver ==
  /\ loop = "backoff"
  /\ UNCHANGED <<connected, destroyed, remoteGone, nextSequence, request, queuedCloses,
                 sendMax, moneyVars, remoteVars, peak>>
  /\ Continue(sending) /\ LifeAfter({}, sending)
-----------------------------------------------------------------------------
(* The application, the peer's own packets and the rest of the connection.  *)

setSendMax(s, limit) ==
  /\ isOpen(s) /\ totalSent[s] <= limit
  /\ sendMax' = [sendMax EXCEPT ![s] = limit]
  /\ peak' = [peak EXCEPT ![s] = maxLong(@, limit)]
  /\ startSendLoop
  /\ UNCHANGED <<queuedCloses, streamVars, moneyVars, remoteVars>>

\* stream.end(): _final waits while there is money left to send.
end(s) ==
  /\ life[s] = "open"
  /\ life' = [life EXCEPT ![s] = IF sendMax[s] <= totalSent[s] THEN "closed" ELSE "ending"]
  /\ UNCHANGED <<loopVars, sentEnd, sendMax, moneyVars, remoteVars, peak>>

\* stream.destroy().
destroy(s) ==
  /\ isOpen(s)
  /\ life' = [life EXCEPT ![s] = "closed"]
  /\ UNCHANGED <<loopVars, sentEnd, sendMax, moneyVars, remoteVars, peak>>

removeStreamRecord(s) ==
  /\ life[s] = "closed"
  /\ life' = [life EXCEPT ![s] = "removed"]
  /\ IF sentEnd[s]
     THEN UNCHANGED <<loopVars, sentEnd>>
     ELSE /\ sentEnd' = [sentEnd EXCEPT ![s] = TRUE]
          /\ queuedCloses' = queuedCloses \cup {s}
          /\ startSendLoop
  /\ UNCHANGED <<sendMax, moneyVars, remoteVars, peak>>

\* '_maybe_start_send_loop' for another reason: data, or setReceiveMax.
WakeUp ==
  /\ startSendLoop
  /\ UNCHANGED <<queuedCloses, streamVars, sendMax, moneyVars, remoteVars, peak>>

\* The application or the idle timer destroys the connection; the loop goes on.
destroyConnection ==
  /\ ~destroyed
  /\ destroyed' = TRUE
  /\ life' = [s \in Streams |-> IF isOpen(s) THEN "closed" ELSE life[s]]
  /\ UNCHANGED <<loop, sending, connected, remoteGone, nextSequence, request, queuedCloses,
                 sentEnd, sendMax, moneyVars, remoteVars, peak>>

\* The StreamMaxMoney frames in a packet the peer sends.
PeerAnnounces(limits) ==
  /\ TakeLimits(limits)
  /\ IF Wakes(limits, held) THEN startSendLoop /\ UNCHANGED queuedCloses
     ELSE UNCHANGED loopVars
  /\ UNCHANGED <<streamVars, sendMax, moneyVars, peak>>

\* sendConnectionClose is answered.  That it takes a sequence number is not modelled,
\* nor that getNextPacketSequence counts on past MaxSequence.
ConnectionGone ==
  /\ destroyed /\ ~remoteGone
  /\ remoteGone' = TRUE
  /\ UNCHANGED <<loop, sending, connected, destroyed, nextSequence, request, queuedCloses,
                 streamVars, sendMax, moneyVars, remoteVars, peak>>

LoopStep ==
  \/ setupExchangeRate \/ TooManyPackets \/ BackoffOver
  \/ \E limit \in PacketLimits, other \in BOOLEAN : loadAndSendPacket(limit, other)

Application ==
  \E s \in Streams : \/ \E limit \in SendLimits : setSendMax(s, limit)
                     \/ end(s) \/ destroy(s) \/ removeStreamRecord(s)

RestOfConnection == WakeUp \/ destroyConnection \/ ConnectionGone

Next ==
  \/ LoopStep
  \/ \E r \in Answers : Respond(r)
  \/ \E limits \in PeerLimits : PeerAnnounces(limits)
  \/ Application
  \/ RestOfConnection

Spec == Init /\ [][Next]_vars
-----------------------------------------------------------------------------
(* Properties.                                                              *)

LoopType ==
  /\ loop \in {"idle", "connecting", "tick", "waiting", "backoff"}
  /\ sending \in BOOLEAN /\ connected \in BOOLEAN /\ destroyed \in BOOLEAN /\ remoteGone \in BOOLEAN
  /\ nextSequence \in 1 .. MaxSequence
  /\ request \in [seq : 0 .. MaxSequence, money : [Streams -> Long], amount : Long,
                 closes : SUBSET Streams]
  /\ queuedCloses \in SUBSET Streams

StreamType ==
  /\ life \in [Streams -> {"open", "ending", "closed", "removed"}]
  /\ sentEnd \in [Streams -> BOOLEAN]

MoneyType ==
  /\ totalSent \in [Streams -> Long] /\ held \in [Streams -> Long]
  /\ holds \in [Streams -> [0 .. MaxSequence -> Long]]
  /\ connectionSent \in Long /\ paid \in [Streams -> Nat]

RemoteType == remoteReceived \in [Streams -> Long] /\ remoteReceiveMax \in [Streams -> Long]

OwnLimitType == sendMax \in [Streams -> Long] /\ peak \in [Streams -> Long]

\* Every variable holds a value of the kind the code gives it; the amounts are Longs.
TypeOK == LoopType /\ StreamType /\ MoneyType /\ RemoteType /\ OwnLimitType

\* Whatever the answers are, a stream never pays more than the largest sendMax it was
\* given: what the path was paid is at most what is counted as sent or still held, that
\* is within the limit, and nothing is counted as sent that was not paid.
PaidWithinLimit ==
  \A s \in Streams : /\ totalSent[s] <= paid[s]
                     /\ paid[s] <= totalSent[s] + held[s]
                     /\ totalSent[s] + held[s] <= peak[s]

Sendable(s) ==
  /\ ~sentEnd[s] /\ remoteReceiveMax[s] > remoteReceived[s]
  /\ Available(sendMax[s], totalSent[s], held[s]) > 0

\* No lost wake-up: the loop does not rest while an open stream has money that the
\* peer, as far as this side knows, would take.
NoLostWakeUp ==
  loop = "idle" /\ connected /\ ~destroyed
  => \A s \in Streams : isOpen(s) => ~Sendable(s)

\* A stream that was ended is closed by the end of the loop only when its money is
\* sent, or the peer would take no more of it.
EndSendsFirst ==
  [][\A s \in Streams :
       life[s] = "ending" /\ life'[s] = "closed" /\ loop # "idle" /\ loop' = "idle" /\ ~destroyed'
       => ~Sendable(s)']_vars

\* When the loop rests, all that is held of an open stream is money that was paid and not
\* counted: a hold is executed or cancelled once its packet is answered, unless it was
\* fulfilled without data.
NoStrandedHold ==
  loop = "idle" => \A s \in Streams : isOpen(s) => held[s] = paid[s] - totalSent[s]
=============================================================================
