------------------------------ MODULE Receiver ------------------------------
(***************************************************************************)
(* The receiving half of a Connection: handlePrepare in connection.ts and  *)
(* the stream state it reads and writes.                                   *)
(*                                                                         *)
(* A call of handlePrepare runs in three pieces, separated by awaits, and  *)
(* the calls for different prepares interleave at those awaits:            *)
(*   ControlFrames  frames are parsed and new streams opened, up to the    *)
(*                  awaits that generate and hash the fulfillment;         *)
(*   Decide         the money is split over the streams, limits are        *)
(*                  checked and the amount is held, up to the await of the *)
(*                  application's shouldFulfill;                           *)
(*   Accept/Decline the money is credited and the fulfillment returned, or *)
(*                  the hold is dropped and the prepare rejected.          *)
(* Without a shouldFulfill callback Decide and Accept are one piece.       *)
(***************************************************************************)
EXTENDS LongArith, FiniteSets, Functions

CONSTANTS
  Streams,        \* ids of the streams of the peer
  Prepares,       \* names of the calls of handlePrepare
  Packets,        \* contents of a prepare, see PacketType
  ReceiveLimits,  \* arguments of setReceiveMax
  ShouldFulfill   \* whether the application gave a shouldFulfill callback

\* amount: what the ILP prepare carries; minimum: the least the sender accepts to
\* be delivered; shares: the StreamMoney frames (0 for a stream without one); others:
\* the streams of StreamMaxMoney and StreamMaxData frames, which open a stream too;
\* fulfillable: whether the condition is the hash of the fulfillment, which is
\* false of test packets.
PacketType == [amount: Long, minimum: Long, shares: [Streams -> Long],
               others: SUBSET Streams, fulfillable: BOOLEAN]

ASSUME ReceiverAssumption ==
  /\ Streams \subseteq Nat /\ IsFiniteSet(Streams)
  /\ Packets \subseteq PacketType
  /\ ReceiveLimits \subseteq Long
  /\ ShouldFulfill \in BOOLEAN

VARIABLES
  stage,          \* how far each call of handlePrepare is
  packet,         \* what it is about, once it has arrived
  response,       \* what it returned
  status,         \* "new", or in this.streams "open" or "closed", or in this.closedStreams "removed"
  receiveMax,     \* stream._receiveMax
  received,       \* stream._totalReceived
  remoteClosed,   \* stream._remoteClosed
  totalReceived,  \* connection._totalReceived
  incomingHold,   \* connection._incomingHold
  closed,         \* connection.closed, or remoteState is Closed
  destroyed       \* destroy() has been called by addIncomingHold

vars == <<stage, packet, response, status, receiveMax, received, remoteClosed,
          totalReceived, incomingHold, closed, destroyed>>

streamVars == <<status, receiveMax, received, remoteClosed>>
moneyVars  == <<totalReceived, incomingHold, destroyed>>

None == [code |-> "none"]

Init ==
  /\ stage = [p \in Prepares |-> "idle"]
  /\ packet = [p \in Prepares |-> None]
  /\ response = [p \in Prepares |-> None]
  /\ status = [s \in Streams |-> "new"]
  /\ receiveMax = [s \in Streams |-> 0]
  /\ received = [s \in Streams |-> 0]
  /\ remoteClosed = [s \in Streams |-> FALSE]
  /\ totalReceived = 0
  /\ incomingHold = 0
  /\ closed = FALSE
  /\ destroyed = FALSE
-----------------------------------------------------------------------------
(* What a response packet tells the peer: the StreamMaxMoney frames, as a   *)
(* function from the streams they are for, and the streams of the           *)
(* StreamClose frames.                                                      *)

\* Mutants: the two fields are swapped, or the total is that from before the packet.
MaxMoneySwapped(S, received_) ==
  [s \in S |-> [receiveMax |-> received_[s], totalReceived |-> receiveMax[s]]]
MaxMoneyBefore(S, received_) ==
  [s \in S |-> [receiveMax |-> receiveMax[s], totalReceived |-> received[s]]]

MaxMoney(S, received_) ==
  [s \in S |-> [receiveMax |-> receiveMax[s], totalReceived |-> received_[s]]]

Final(S, C) == [code |-> "F99", limits |-> MaxMoney(S, received), closes |-> C]
Unexpected  == [code |-> "F00"]

\* Frames of a packet are visited in the order of their streams.
First(S) == CHOOSE s \in S : \A t \in S : s <= t

MoneyStreams(k) == {s \in Streams : k.shares[s] > 0}

Answer(p, r, how) ==
  /\ stage' = [stage EXCEPT ![p] = how]
  /\ response' = [response EXCEPT ![p] = r]

ControlFrames(p, k) ==
  /\ stage[p] = "idle"
  /\ packet' = [packet EXCEPT ![p] = k]
  /\ LET gone == {s \in MoneyStreams(k) : status[s] = "removed"}
     IN  /\ status' = [s \in Streams |-> IF s \in MoneyStreams(k) \cup k.others
                                            /\ status[s] = "new"
                                         THEN "open" ELSE status[s]]
         /\ \/ gone # {} /\ Answer(p, Final({}, {First(gone)}), "rejected")
            \/ gone = {} /\ k.minimum > k.amount /\ Answer(p, Final({}, {}), "rejected")
            \/ /\ gone = {} /\ k.minimum <= k.amount
               /\ stage' = [stage EXCEPT ![p] = "generating"]
               /\ UNCHANGED response
  /\ UNCHANGED <<receiveMax, received, remoteClosed, moneyVars, closed>>
-----------------------------------------------------------------------------
TotalShares(k) == SumFunction(k.shares)

\* handlePrepare throws, before it has changed anything more, when the shares of a
\* packet do not add up to a Long (checkedAdd) or add up to 0 (the division): the
\* prepares of the model are the others.
ASSUME SharesAssumption ==
  \A k \in Packets : MoneyStreams(k) # {} => TotalShares(k) \in Long \ {0}

\* Mutant: shares are rounded up.
StreamAmountCeil(k, s) ==
  IF k.shares[s] = 0 THEN 0 ELSE Ceil(k.amount, k.shares[s], TotalShares(k))

StreamAmount(k, s) ==
  IF k.shares[s] = 0 THEN 0 ELSE Floor(k.amount, k.shares[s], TotalShares(k))

\* allowableReceiveExtra is 1.01.
AllowableReceive(n) == minLong(Ceil(n, 101, 100), MaxLong)

_getAmountStreamCanReceive(s) ==
  IF receiveMax[s] < received[s] THEN 0
  ELSE checkedSubtract(receiveMax[s], received[s]).difference

\* Mutant: the packet is compared with the whole limit, not with what is left of it.
TooMuchAtOnce(k, s) == AllowableReceive(receiveMax[s]) < StreamAmount(k, s)

TooMuch(k, s) == AllowableReceive(_getAmountStreamCanReceive(s)) < StreamAmount(k, s)

\* Mutants: the hold forgets what is received, or the prepares that are held already.
IncomingHoldOnly(value)     == checkedAdd(incomingHold, value)
IncomingHoldReceived(value) == checkedAdd(totalReceived, value)

\* addIncomingHold, which is destroy() and an error when it overflows.
IncomingHold(value) ==
  checkedAdd(checkedAdd(totalReceived, incomingHold).sum, value)

\* removeIncomingHold.
WithoutHold(hold, value) == checkedSubtract(hold, value).difference

\* Mutant: the amount is added to the wrong total.
addTotalReceivedToHold(value) == checkedAdd(incomingHold, value).sum

addTotalReceived(value) == checkedAdd(totalReceived, value).sum

Credited(k) ==
  [s \in Streams |-> checkedAdd(received[s], StreamAmount(k, s)).sum]

\* The last piece of handlePrepare, given the hold it starts from.
Fulfill(p, hold) ==
  LET k     == packet[p]
      known == {s \in Streams : status[s] \in {"open", "closed"}}
      tell  == {s \in known : status[s] = "closed" /\ ~remoteClosed[s]}
      after == Credited(k)
  IN  /\ received' = after
      /\ incomingHold' = WithoutHold(hold, k.amount)
      /\ totalReceived' = addTotalReceived(k.amount)
      /\ IF closed
         THEN /\ Answer(p, [code |-> "fulfill", limits |-> MaxMoney({}, after), closes |-> {}], "fulfilled")
              /\ UNCHANGED remoteClosed
         ELSE /\ Answer(p, [code |-> "fulfill", limits |-> MaxMoney(known \ tell, after),
                            closes |-> tell], "fulfilled")
              /\ remoteClosed' = [s \in Streams |-> remoteClosed[s] \/ s \in tell]
      /\ UNCHANGED <<packet, status, receiveMax, closed, destroyed>>

\* Mutant: whether the streams are open is not checked.
StoppingByLimit(k) == {s \in MoneyStreams(k) : TooMuch(k, s)}

\* The frame that stops the packet, if one does: a stream whose record is gone
\* is read as undefined and throws, which ends the call with an F00.
Stopping(k) == {s \in MoneyStreams(k) : status[s] # "open" \/ TooMuch(k, s)}

Refuse(p) ==
  LET k == packet[p]
      s == First(Stopping(k))
  IN  /\ stage[p] = "generating"
      /\ \/ ~k.fulfillable /\ Answer(p, Final({}, {}), "rejected")
         \/ /\ k.fulfillable /\ Stopping(k) # {}
            /\ Answer(p, IF status[s] = "removed" THEN Unexpected
                         ELSE IF TooMuch(k, s) THEN Final({s}, {})
                         ELSE Final({}, {s}), "rejected")
      /\ UNCHANGED <<packet, streamVars, moneyVars, closed>>

Receivable(p) == /\ stage[p] = "generating" /\ packet[p].fulfillable
                 /\ Stopping(packet[p]) = {}

Overflow(p) ==
  /\ Receivable(p)
  /\ IncomingHold(packet[p].amount).overflow
  /\ destroyed' = TRUE
  /\ status' = [s \in Streams |-> IF status[s] = "open" THEN "closed" ELSE status[s]]
  /\ Answer(p, Unexpected, "rejected")
  /\ UNCHANGED <<packet, receiveMax, received, remoteClosed, totalReceived, incomingHold, closed>>

Asks(k) == ShouldFulfill /\ k.amount > 0

Hold(p) ==
  /\ Receivable(p) /\ Asks(packet[p])
  /\ ~IncomingHold(packet[p].amount).overflow
  /\ incomingHold' = IncomingHold(packet[p].amount).sum
  /\ stage' = [stage EXCEPT ![p] = "deciding"]
  /\ UNCHANGED <<packet, response, streamVars, totalReceived, destroyed, closed>>

FulfillAtOnce(p) ==
  /\ Receivable(p) /\ ~Asks(packet[p])
  /\ ~IncomingHold(packet[p].amount).overflow
  /\ Fulfill(p, IncomingHold(packet[p].amount).sum)

Decide(p) == Refuse(p) \/ Overflow(p) \/ Hold(p) \/ FulfillAtOnce(p)

Accept(p) == stage[p] = "deciding" /\ Fulfill(p, incomingHold)

Decline(p) ==
  /\ stage[p] = "deciding"
  /\ incomingHold' = WithoutHold(incomingHold, packet[p].amount)
  /\ Answer(p, Final({}, {}), "rejected")
  /\ UNCHANGED <<packet, streamVars, totalReceived, destroyed, closed>>
-----------------------------------------------------------------------------
(* The application and the rest of the connection.                          *)

SetReceiveMax(s, limit) ==
  /\ status[s] = "open"
  /\ received[s] <= limit /\ receiveMax[s] <= limit
  /\ receiveMax' = [receiveMax EXCEPT ![s] = limit]
  /\ UNCHANGED <<stage, packet, response, status, received, remoteClosed, moneyVars, closed>>

\* stream.destroy(), or stream.end() once _final is done.
CloseStream(s) ==
  /\ status[s] = "open"
  /\ status' = [status EXCEPT ![s] = "closed"]
  /\ UNCHANGED <<stage, packet, response, receiveMax, received, remoteClosed, moneyVars, closed>>

\* The stream's 'close' event, emitted in a later turn of the event loop.
removeStreamRecord(s) ==
  /\ status[s] = "closed"
  /\ status' = [status EXCEPT ![s] = "removed"]
  /\ UNCHANGED <<stage, packet, response, receiveMax, received, remoteClosed, moneyVars, closed>>

CloseConnection ==
  /\ ~closed
  /\ closed' = TRUE
  /\ UNCHANGED <<stage, packet, response, streamVars, moneyVars>>

Handle(p) == \/ \E k \in Packets : ControlFrames(p, k)
             \/ Decide(p) \/ Accept(p) \/ Decline(p)

Next ==
  \/ \E p \in Prepares : Handle(p)
  \/ \E s \in Streams : \/ \E limit \in ReceiveLimits : SetReceiveMax(s, limit)
                        \/ CloseStream(s) \/ removeStreamRecord(s)
  \/ CloseConnection

Spec == Init /\ [][Next]_vars
-----------------------------------------------------------------------------
(* Properties.                                                              *)

Response ==
  [code : {"none", "F00"}]
  \cup [code : {"F99", "fulfill"},
        limits : UNION {[S -> [receiveMax : Long, totalReceived : Long]] : S \in SUBSET Streams},
        closes : SUBSET Streams]

\* Every variable holds a value of the kind the code gives it.
TypeOK ==
  /\ stage \in [Prepares -> {"idle", "generating", "deciding", "fulfilled", "rejected"}]
  /\ packet \in [Prepares -> Packets \cup {None}]
  /\ \A p \in Prepares : stage[p] # "idle" => packet[p] \in Packets
  /\ response \in [Prepares -> Response]
  /\ status \in [Streams -> {"new", "open", "closed", "removed"}]
  /\ receiveMax \in [Streams -> Long]
  /\ received \in [Streams -> Long]
  /\ remoteClosed \in [Streams -> BOOLEAN]
  /\ totalReceived \in Long
  /\ incomingHold \in Long
  /\ closed \in BOOLEAN
  /\ destroyed \in BOOLEAN

Fulfilled == {p \in Prepares : stage[p] = "fulfilled"}
Deciding  == {p \in Prepares : stage[p] = "deciding"}

AmountOf(P) == SumFunction([p \in P |-> packet[p].amount])

\* A stream never receives more than its receiveMax, but for the one percent that
\* allowableReceiveExtra grants, whatever packets are handled at the same time
\* (the check in handlePrepare, connection.ts:658).
ReceiveLimit == \A s \in Streams : received[s] <= AllowableReceive(receiveMax[s])

\* The connection counts a prepare as received exactly when it returns its
\* fulfillment, once, and a rejected one never.
CountedOnce == totalReceived = AmountOf(Fulfilled)

\* What the connection counts as received, together with every prepare the
\* application is still deciding about, fits in a Long: the reason why
\* addTotalReceived need not look at the overflow.
NoTotalOverflow == totalReceived + AmountOf(Deciding) <= MaxLong

\* The hold covers the prepares being decided about: the reason why
\* removeIncomingHold need not look at the underflow.
HoldCovers == AmountOf(Deciding) <= incomingHold

\* Splitting the packets over their streams creates no money: the streams together
\* have at most what the connection has, and all of it but the fractions that
\* rounding down loses when the money of a packet has a stream to go to.
SplitConserves ==
  LET inStreams == SumFunction(received)
      rounds    == Cardinality(Fulfilled) * Cardinality(Streams)
  IN  /\ inStreams <= totalReceived
      /\ (\A p \in Fulfilled : MoneyStreams(packet[p]) # {})
         => totalReceived <= inStreams + rounds

\* Money is credited to a stream only while it is open ("Reject the packet if any
\* of the streams is already closed", connection.ts:670).
OnlyOpenStreamsReceive ==
  [][\A s \in Streams : received'[s] # received[s] => status[s] = "open"]_vars

\* The connection is destroyed for "Total received exceeded MaxUint64" only if
\* the total, with the prepares under way, does exceed it (connection.ts:1700).
OverflowIsReal ==
  [][destroyed' # destroyed
     => \E p \in Prepares : /\ stage[p] = "generating" /\ stage'[p] = "rejected"
                            /\ totalReceived + AmountOf(Deciding) + packet[p].amount > MaxLong]_vars
=============================================================================
