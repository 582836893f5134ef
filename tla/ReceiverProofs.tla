--------------------------- MODULE ReceiverProofs ---------------------------
(***************************************************************************)
(* Receiver, for every set of streams, prepares, packets and limits and    *)
(* every width of Long: its type invariant, what holds of its totals and   *)
(* holds at any time, and what a connection without a shouldFulfill        *)
(* callback keeps to.                                                      *)
(***************************************************************************)
EXTENDS Receiver, LongArithProofs

\* The share of a stream in a packet is an amount.
LEMMA StreamAmountNat ==
  ASSUME NEW k \in Packets, NEW s \in Streams
  PROVE  StreamAmount(k, s) \in Nat
<1> DEFINE x == k.amount * k.shares[s]
           c == TotalShares(k)
<1>1. k.amount \in Nat /\ k.shares[s] \in Nat
  BY ReceiverAssumption, MaxLongAssumption DEF PacketType, Long
<1>2. x \in Nat
  BY <1>1
<1>3. CASE k.shares[s] # 0
  <2>1. MoneyStreams(k) # {}
    BY <1>1, <1>3 DEF MoneyStreams
  <2>2. c \in Nat \ {0}
    BY <2>1, SharesAssumption, MaxLongAssumption DEF Long
  <2>3. x \div c \in Nat
    <3> HIDE DEF x, c
    <3> QED BY <1>2, <2>2, QuotientNat
  <2> QED BY <2>3, <1>3 DEF StreamAmount, Floor
<1>4. CASE k.shares[s] = 0
  BY <1>4 DEF StreamAmount
<1> QED BY <1>3, <1>4

\* What may be received is an amount, and is no less when the limit is raised.
LEMMA AllowableMonotone ==
  ASSUME NEW m \in Long, NEW n \in Long, m <= n
  PROVE  /\ AllowableReceive(m) \in Long
         /\ AllowableReceive(m) <= AllowableReceive(n)
BY MaxLongAssumption DEF AllowableReceive, Ceil, minLong, Long

\* Receiving what the rest of the limit allows keeps the total within what the
\* whole limit allows.
LEMMA AllowableOfRest ==
  ASSUME NEW limit \in Long, NEW t \in Long, t <= limit,
         NEW a \in Nat, a <= AllowableReceive(limit - t)
  PROVE  t + a <= (limit * 101 + 99) \div 100
BY MaxLongAssumption DEF AllowableReceive, Ceil, minLong, Long

-----------------------------------------------------------------------------
(* Type correctness.                                                        *)

Limit == [receiveMax : Long, totalReceived : Long]

LEMMA MaxMoneyType ==
  ASSUME TypeOK, NEW S \in SUBSET Streams, NEW r \in [Streams -> Long]
  PROVE  MaxMoney(S, r) \in [S -> Limit]
BY DEF MaxMoney, TypeOK, Limit

LEMMA ResponseType ==
  /\ None \in Response /\ Unexpected \in Response
  /\ \A S \in SUBSET Streams : \A C \in SUBSET Streams : \A m \in [S -> Limit] :
       \A c \in {"F99", "fulfill"} : [code |-> c, limits |-> m, closes |-> C] \in Response
BY DEF None, Unexpected, Response, Limit

LEMMA FinalType ==
  ASSUME TypeOK, NEW S \in SUBSET Streams, NEW C \in SUBSET Streams
  PROVE  Final(S, C) \in Response
<1>1. received \in [Streams -> Long]
  BY DEF TypeOK
<1>2. MaxMoney(S, received) \in [S -> Limit]
  BY <1>1, MaxMoneyType
<1> QED BY <1>2, ResponseType DEF Final

\* Crediting a packet leaves every total a Long.
LEMMA CreditedType ==
  ASSUME TypeOK, NEW k \in Packets
  PROVE  Credited(k) \in [Streams -> Long]
<1>1. ASSUME NEW a \in Long, NEW b \in Nat
      PROVE  checkedAdd(a, b).sum \in Long
  BY MaxLongAssumption DEF checkedAdd, add, Long
<1> QED
  BY <1>1, StreamAmountNat DEF Credited, TypeOK

\* The frames and the rest of the state after the last piece of handlePrepare.
LEMMA FulfillType ==
  ASSUME TypeOK, NEW p \in Prepares, stage[p] # "idle", NEW hold \in Long, Fulfill(p, hold)
  PROVE  TypeOK'
<1> DEFINE k == packet[p]
           known == {s \in Streams : status[s] \in {"open", "closed"}}
           tell == {s \in known : status[s] = "closed" /\ ~remoteClosed[s]}
<1>1. k \in Packets /\ k.amount \in Long
  BY ReceiverAssumption DEF TypeOK, PacketType
<1>2. received' \in [Streams -> Long] /\ received' = Credited(k)
  BY <1>1, CreditedType DEF Fulfill
<1>3. incomingHold' \in Long /\ totalReceived' \in Long
  BY <1>1, CheckedSubtractExact, CheckedAddSaturates DEF Fulfill, WithoutHold, addTotalReceived, TypeOK
<1>4. response' \in [Prepares -> Response] /\ remoteClosed' \in [Streams -> BOOLEAN]
      /\ stage' = [stage EXCEPT ![p] = "fulfilled"]
  <2>1. /\ MaxMoney({}, Credited(k)) \in [{} -> Limit]
        /\ MaxMoney(known \ tell, Credited(k)) \in [known \ tell -> Limit]
    BY <1>2, MaxMoneyType
  <2>2. /\ [code |-> "fulfill", limits |-> MaxMoney({}, Credited(k)), closes |-> {}] \in Response
        /\ [code |-> "fulfill", limits |-> MaxMoney(known \ tell, Credited(k)),
            closes |-> tell] \in Response
    <3>1. {} \in SUBSET Streams /\ known \ tell \in SUBSET Streams /\ tell \in SUBSET Streams
      OBVIOUS
    <3> HIDE DEF known, tell
    <3> QED BY <2>1, <3>1, ResponseType
  <2> QED BY <2>2 DEF Fulfill, Answer, TypeOK
<1> QED
  BY <1>2, <1>3, <1>4 DEF Fulfill, TypeOK

LEMMA TypeInit == Init => TypeOK
<1> SUFFICES ASSUME Init PROVE TypeOK
  OBVIOUS
<1>1. 0 \in Long
  BY MaxLongAssumption DEF Long
<1>2. packet \in [Prepares -> Packets \cup {None}]
  BY DEF Init
<1>3. response \in [Prepares -> Response]
  <2> HIDE DEF Response, None
  <2> QED BY ResponseType DEF Init
<1> QED BY <1>1, <1>2, <1>3 DEF Init, TypeOK

\* The first stream of a nonempty set of streams is one of them.
LEMMA FirstType ==
  ASSUME NEW S \in SUBSET Streams, S # {}
  PROVE  First(S) \in S
<1>1. S \in SUBSET Nat
  BY ReceiverAssumption
<1> QED BY <1>1, SmallestNumber DEF First

LEMMA AnswerType ==
  ASSUME TypeOK, NEW p \in Prepares, NEW r \in Response,
         NEW how \in {"fulfilled", "rejected"}, Answer(p, r, how)
  PROVE  /\ stage' \in [Prepares -> {"idle", "generating", "deciding", "fulfilled", "rejected"}]
         /\ \A q \in Prepares : stage'[q] # "idle" => q = p \/ stage[q] # "idle"
         /\ response' \in [Prepares -> Response]
BY DEF Answer, TypeOK

LEMMA ControlFramesType ==
  ASSUME TypeOK, NEW p \in Prepares, NEW k \in Packets, ControlFrames(p, k)
  PROVE  TypeOK'
<1> DEFINE gone == {s \in MoneyStreams(k) : status[s] = "removed"}
<1>1. /\ stage' \in [Prepares -> {"idle", "generating", "deciding", "fulfilled", "rejected"}]
      /\ \A q \in Prepares : stage'[q] # "idle" => q = p \/ stage[q] # "idle"
      /\ response' \in [Prepares -> Response]
  <2>1. gone \in SUBSET Streams
    BY DEF MoneyStreams
  <2>2. CASE gone # {} /\ Answer(p, Final({}, {First(gone)}), "rejected")
    <3>1. {First(gone)} \in SUBSET Streams /\ {} \in SUBSET Streams
      BY <2>1, <2>2, FirstType
    <3>2. Final({}, {First(gone)}) \in Response
      BY <3>1, FinalType
    <3> QED BY <2>2, <3>2, AnswerType
  <2>3. CASE Answer(p, Final({}, {}), "rejected")
    <3>1. Final({}, {}) \in Response
      BY FinalType
    <3> QED BY <2>3, <3>1, AnswerType
  <2>4. CASE stage' = [stage EXCEPT ![p] = "generating"] /\ UNCHANGED response
    BY <2>4 DEF TypeOK
  <2> QED BY <2>2, <2>3, <2>4 DEF ControlFrames
<1> QED BY <1>1 DEF ControlFrames, TypeOK, moneyVars

LEMMA RefuseType ==
  ASSUME TypeOK, NEW p \in Prepares, Refuse(p)
  PROVE  TypeOK'
<1> DEFINE S == Stopping(packet[p])
<1>1. S \in SUBSET Streams /\ {} \in SUBSET Streams
  BY DEF Stopping, MoneyStreams
<1>2. CASE Answer(p, Final({}, {}), "rejected")
  <2>1. Final({}, {}) \in Response
    BY <1>1, FinalType
  <2> QED BY <1>2, <2>1, AnswerType DEF Refuse, TypeOK, streamVars, moneyVars
<1>3. CASE S # {} /\ Answer(p, IF status[First(S)] = "removed" THEN Unexpected
                               ELSE IF TooMuch(packet[p], First(S)) THEN Final({First(S)}, {})
                               ELSE Final({}, {First(S)}), "rejected")
  <2>1. {First(S)} \in SUBSET Streams
    BY <1>1, <1>3, FirstType
  <2>2. /\ Final({First(S)}, {}) \in Response /\ Final({}, {First(S)}) \in Response
        /\ Unexpected \in Response
    <3> HIDE DEF S
    <3> QED BY <1>1, <2>1, FinalType, ResponseType
  <2> QED BY <1>3, <2>2, AnswerType DEF Refuse, TypeOK, streamVars, moneyVars
<1> QED BY <1>2, <1>3 DEF Refuse

\* The hold for a packet, while it does not overflow, is a Long.
LEMMA IncomingHoldType ==
  ASSUME TypeOK, NEW p \in Prepares, stage[p] = "generating"
  PROVE  IncomingHold(packet[p].amount).sum \in Long
<1>1. packet[p].amount \in Long
  BY ReceiverAssumption DEF TypeOK, PacketType
<1>2. checkedAdd(totalReceived, incomingHold).sum \in Long
  BY CheckedAddSaturates DEF TypeOK
<1> QED BY <1>1, <1>2, CheckedAddSaturates DEF IncomingHold

LEMMA DecideType ==
  ASSUME TypeOK, NEW p \in Prepares, Decide(p)
  PROVE  TypeOK'
<1>1. CASE Refuse(p)
  BY <1>1, RefuseType
<1>2. CASE Overflow(p)
  BY <1>2, AnswerType, ResponseType DEF Overflow, Receivable, TypeOK
<1>3. CASE Hold(p)
  <2>1. incomingHold' \in Long
    BY <1>3, IncomingHoldType DEF Hold, Receivable
  <2> QED BY <1>3, <2>1 DEF Hold, Receivable, TypeOK, streamVars
<1>4. CASE FulfillAtOnce(p)
  <2>1. IncomingHold(packet[p].amount).sum \in Long /\ stage[p] # "idle"
    BY <1>4, IncomingHoldType DEF FulfillAtOnce, Receivable
  <2> QED BY <1>4, <2>1, FulfillType DEF FulfillAtOnce
<1> QED BY <1>1, <1>2, <1>3, <1>4 DEF Decide

LEMMA DeclineType ==
  ASSUME TypeOK, NEW p \in Prepares, Decline(p)
  PROVE  TypeOK'
<1>1. Final({}, {}) \in Response
  BY FinalType
<1>2. packet[p].amount \in Long
  BY ReceiverAssumption DEF Decline, TypeOK, PacketType
<1>3. incomingHold' \in Long
  BY <1>2, CheckedSubtractExact DEF Decline, WithoutHold, TypeOK
<1> QED BY <1>1, <1>3, AnswerType DEF Decline, TypeOK, streamVars

LEMMA TypeStep == TypeOK /\ [Next]_vars => TypeOK'
<1> SUFFICES ASSUME TypeOK, [Next]_vars PROVE TypeOK'
  OBVIOUS
<1>1. ASSUME NEW p \in Prepares, Handle(p) PROVE TypeOK'
  <2>1. ASSUME NEW k \in Packets, ControlFrames(p, k) PROVE TypeOK'
    BY <2>1, ControlFramesType
  <2>2. CASE Decide(p)
    BY <2>2, DecideType
  <2>3. CASE Accept(p)
    BY <2>3, FulfillType DEF Accept, TypeOK
  <2>4. CASE Decline(p)
    BY <2>4, DeclineType
  <2> QED BY <1>1, <2>1, <2>2, <2>3, <2>4 DEF Handle
<1>2. ASSUME NEW s \in Streams, NEW limit \in ReceiveLimits, SetReceiveMax(s, limit)
      PROVE  TypeOK'
  BY <1>2, ReceiverAssumption DEF SetReceiveMax, TypeOK, moneyVars
<1>3. ASSUME NEW s \in Streams, CloseStream(s) \/ removeStreamRecord(s)
      PROVE  TypeOK'
  BY <1>3 DEF CloseStream, removeStreamRecord, TypeOK, moneyVars
<1>4. CASE CloseConnection
  BY <1>4 DEF CloseConnection, TypeOK, streamVars, moneyVars
<1>5. CASE UNCHANGED vars
  BY <1>5 DEF vars, TypeOK
<1> QED BY <1>1, <1>2, <1>3, <1>4, <1>5 DEF Next

\* Every variable of the receiver keeps its type, for every width of Long and any
\* number of prepares handled at the same time.
THEOREM ReceiverTypes == Spec => []TypeOK
<1>1. Init => TypeOK
  BY TypeInit
<1>2. TypeOK /\ [Next]_vars => TypeOK'
  BY TypeStep
<1> QED BY <1>1, <1>2, PTL DEF Spec

-----------------------------------------------------------------------------
(* The receive limit.                                                       *)

\* A packet that handlePrepare does not refuse leaves every stream within its limit,
\* if it is credited in the same piece of code that checked it.
LEMMA CreditWithinLimit ==
  ASSUME TypeOK, ReceiveLimit, NEW p \in Prepares, Receivable(p),
         NEW hold \in Long, Fulfill(p, hold)
  PROVE  ReceiveLimit'
<1> DEFINE k == packet[p]
<1>1. k \in Packets
  BY DEF TypeOK, Receivable
<1> SUFFICES ASSUME NEW s \in Streams
             PROVE  Credited(k)[s] <= AllowableReceive(receiveMax[s])
  BY DEF ReceiveLimit, Fulfill, AllowableReceive
<1> DEFINE a == StreamAmount(k, s)
           t == received[s]
           limit == receiveMax[s]
<1>2. t \in Long /\ limit \in Long /\ a \in Nat /\ t <= AllowableReceive(limit)
  BY <1>1, StreamAmountNat DEF TypeOK, ReceiveLimit
<1>3. Credited(k)[s] = checkedAdd(t, a).sum
  BY DEF Credited
<1>4. CASE k.shares[s] = 0
  <2>1. a = 0
    BY <1>4 DEF StreamAmount
  <2>2. 0 \in Long /\ SaturatingSum(t, 0) = t
    BY <1>2, MaxLongAssumption DEF Long, SaturatingSum, minLong
  <2> QED BY <1>2, <1>3, <2>1, <2>2, CheckedAddSaturates
<1>5. CASE k.shares[s] # 0
  <2>1. s \in MoneyStreams(k)
    BY <1>1, <1>5, ReceiverAssumption, MaxLongAssumption DEF MoneyStreams, PacketType, Long
  <2>2. ~ TooMuch(k, s)
    BY <2>1 DEF Receivable, Stopping
  <2> DEFINE rest == _getAmountStreamCanReceive(s)
  <2>3. rest \in Long /\ rest = IF limit < t THEN 0 ELSE limit - t
    BY <1>2, CheckedSubtractExact, MaxLongAssumption DEF _getAmountStreamCanReceive, Long
  <2>4. a <= AllowableReceive(rest) /\ AllowableReceive(rest) \in Long
    <3>1. AllowableReceive(rest) \in Long
      BY <2>3, AllowableMonotone DEF Long
    <3> QED BY <1>2, <2>2, <3>1 DEF TooMuch, Long
  <2>5. a \in Long
    <3>1. \A m \in Nat : \A n \in Long : m <= n => m \in Long
      BY MaxLongAssumption DEF Long
    <3> HIDE DEF a, rest
    <3> QED BY <1>2, <2>4, <3>1
  <2>6. Credited(k)[s] = SaturatingSum(t, a)
    BY <1>2, <1>3, <2>5, CheckedAddSaturates
  <2>7. CASE limit < t
    <3>1. AllowableReceive(0) = 0
      BY MaxLongAssumption DEF AllowableReceive, Ceil, minLong
    <3>2. a = 0
      BY <1>2, <2>3, <2>4, <2>7, <3>1
    <3> QED BY <1>2, <2>6, <3>2, MaxLongAssumption DEF SaturatingSum, minLong, Long
  <2>8. CASE ~ (limit < t)
    <3>1. t <= limit /\ a <= AllowableReceive(limit - t)
      BY <1>2, <2>3, <2>4, <2>8 DEF Long
    <3>2. t + a <= (limit * 101 + 99) \div 100
      BY <1>2, <3>1, AllowableOfRest
    <3> QED
      BY <1>2, <2>6, <3>2, MaxLongAssumption
      DEF SaturatingSum, AllowableReceive, Ceil, minLong, Long
  <2> QED BY <2>7, <2>8
<1> QED BY <1>4, <1>5

\* The inductive invariant: without the callback no call of handlePrepare is ever
\* parked between its checks and the credit.
LimitInv == TypeOK /\ ReceiveLimit /\ \A p \in Prepares : stage[p] # "deciding"

LEMMA LimitInit == Init => LimitInv
<1> SUFFICES ASSUME Init PROVE LimitInv
  OBVIOUS
<1>1. 0 <= AllowableReceive(0)
  BY MaxLongAssumption DEF AllowableReceive, Ceil, minLong
<1> QED BY <1>1, TypeInit DEF LimitInv, Init, ReceiveLimit

LEMMA LimitStep == ~ShouldFulfill /\ LimitInv /\ [Next]_vars => LimitInv'
<1> SUFFICES ASSUME ~ShouldFulfill, LimitInv, [Next]_vars PROVE LimitInv'
  OBVIOUS
<1>1. TypeOK'
  BY TypeStep DEF LimitInv
<1>2. ASSUME UNCHANGED <<receiveMax, received>> PROVE ReceiveLimit'
  BY <1>2 DEF LimitInv, ReceiveLimit, AllowableReceive
<1>3. ASSUME NEW p \in Prepares, Handle(p)
      PROVE  ReceiveLimit' /\ \A q \in Prepares : stage'[q] # "deciding"
  <2>1. ASSUME NEW k \in Packets, ControlFrames(p, k)
        PROVE  ReceiveLimit' /\ \A q \in Prepares : stage'[q] # "deciding"
    BY <1>2, <2>1 DEF ControlFrames, Answer, LimitInv, TypeOK
  <2>2. CASE Refuse(p) \/ Overflow(p)
    BY <1>2, <2>2 DEF Refuse, Overflow, Answer, LimitInv, TypeOK, streamVars
  <2>3. CASE Hold(p)
    BY <2>3 DEF Hold, Asks
  <2>4. CASE FulfillAtOnce(p)
    <3>1. IncomingHold(packet[p].amount).sum \in Long
      BY <2>4, IncomingHoldType DEF FulfillAtOnce, Receivable, LimitInv
    <3>2. ReceiveLimit'
      BY <2>4, <3>1, CreditWithinLimit DEF FulfillAtOnce, LimitInv
    <3> QED BY <2>4, <3>2 DEF FulfillAtOnce, Fulfill, Answer, LimitInv, TypeOK
  <2>5. CASE Accept(p) \/ Decline(p)
    BY <2>5 DEF Accept, Decline, LimitInv
  <2> QED BY <1>3, <2>1, <2>2, <2>3, <2>4, <2>5 DEF Handle, Decide
<1>4. ASSUME NEW s \in Streams, NEW limit \in ReceiveLimits, SetReceiveMax(s, limit)
      PROVE  ReceiveLimit' /\ \A q \in Prepares : stage'[q] # "deciding"
  <2>1. limit \in Long /\ receiveMax[s] \in Long /\ receiveMax[s] <= limit
    BY <1>4, ReceiverAssumption DEF SetReceiveMax, LimitInv, TypeOK
  <2>2. AllowableReceive(receiveMax[s]) <= AllowableReceive(limit)
        /\ AllowableReceive(receiveMax[s]) \in Long /\ AllowableReceive(limit) \in Long
    BY <2>1, AllowableMonotone DEF Long
  <2>3. received[s] <= AllowableReceive(limit)
    BY <2>2 DEF LimitInv, ReceiveLimit, TypeOK, Long
  <2> QED BY <1>4, <2>3 DEF SetReceiveMax, LimitInv, ReceiveLimit, TypeOK, AllowableReceive
<1>5. ASSUME NEW s \in Streams, CloseStream(s) \/ removeStreamRecord(s)
      PROVE  ReceiveLimit' /\ \A q \in Prepares : stage'[q] # "deciding"
  BY <1>2, <1>5 DEF CloseStream, removeStreamRecord, LimitInv
<1>6. CASE CloseConnection
  BY <1>1, <1>2, <1>6 DEF CloseConnection, LimitInv, streamVars
<1>7. CASE UNCHANGED vars
  BY <1>1, <1>2, <1>7 DEF vars, LimitInv
<1> QED BY <1>1, <1>3, <1>4, <1>5, <1>6, <1>7 DEF Next, LimitInv

\* A connection without a shouldFulfill callback never lets a stream receive more
\* than its receiveMax allows, however many prepares are handled at the same time.
THEOREM ReceiveLimitHolds == ASSUME ~ShouldFulfill PROVE Spec => []ReceiveLimit
<1>1. Init => LimitInv
  BY LimitInit
<1>2. LimitInv /\ [Next]_vars => LimitInv'
  BY LimitStep
<1>3. LimitInv => ReceiveLimit
  BY DEF LimitInv
<1> QED BY <1>1, <1>2, <1>3, PTL DEF Spec
-----------------------------------------------------------------------------
(* Streams that are closed.                                                 *)

\* Nothing is credited to a stream of which the packet has no share.
LEMMA NoShareNoCredit ==
  ASSUME TypeOK, NEW k \in Packets, NEW s \in Streams, k.shares[s] = 0
  PROVE  Credited(k)[s] = received[s]
<1>1. received[s] \in Long /\ 0 \in Long
  BY MaxLongAssumption DEF TypeOK, Long
<1>2. checkedAdd(received[s], 0).sum = received[s]
  BY <1>1, CheckedAddSaturates, MaxLongAssumption DEF SaturatingSum, minLong, Long
<1> QED BY <1>2 DEF Credited, StreamAmount

\* Without the callback the streams are credited in the piece that has found them open.
LEMMA OpenStep ==
  ASSUME ~ShouldFulfill, LimitInv, Next
  PROVE  \A s \in Streams : received'[s] # received[s] => status[s] = "open"
<1>1. CASE UNCHANGED received
  BY <1>1
<1>2. ASSUME NEW p \in Prepares, FulfillAtOnce(p)
      PROVE  \A s \in Streams : received'[s] # received[s] => status[s] = "open"
  <2>1. SUFFICES ASSUME NEW s \in Streams, received'[s] # received[s]
                 PROVE  status[s] = "open"
    OBVIOUS
  <2>2. packet[p] \in Packets /\ received' = Credited(packet[p])
    BY <1>2 DEF FulfillAtOnce, Receivable, Fulfill, LimitInv, TypeOK
  <2>3. packet[p].shares[s] # 0 /\ packet[p].shares[s] \in Nat
    BY <2>1, <2>2, NoShareNoCredit, ReceiverAssumption, MaxLongAssumption
       DEF LimitInv, PacketType, Long
  <2>4. s \in MoneyStreams(packet[p])
    BY <2>3 DEF MoneyStreams
  <2> QED BY <1>2, <2>4 DEF FulfillAtOnce, Receivable, Stopping
<1>3. ASSUME NEW p \in Prepares, Accept(p)
      PROVE  FALSE
  BY <1>3 DEF Accept, LimitInv
<1>4. \/ UNCHANGED received
      \/ \E p \in Prepares : FulfillAtOnce(p) \/ Accept(p)
  BY DEF Next, Handle, ControlFrames, Decide, Refuse, Overflow, Hold, Decline, SetReceiveMax,
         CloseStream, removeStreamRecord, CloseConnection, streamVars
<1> QED BY <1>1, <1>2, <1>3, <1>4

\* A connection without a shouldFulfill callback credits money only to streams that are open,
\* whatever streams are closed or removed while prepares are handled.
THEOREM ClosedStreamsGetNothing == ASSUME ~ShouldFulfill PROVE Spec => OnlyOpenStreamsReceive
<1>1. Init => LimitInv
  BY LimitInit
<1>2. LimitInv /\ [Next]_vars => LimitInv'
  BY LimitStep
<1>3. LimitInv /\ [Next]_vars
      => [\A s \in Streams : received'[s] # received[s] => status[s] = "open"]_vars
  BY OpenStep
<1> QED BY <1>1, <1>2, <1>3, PTL DEF Spec, OnlyOpenStreamsReceive

-----------------------------------------------------------------------------
(* The money of the connection: the totals, the holds and the split.        *)

\* The calls of handlePrepare that have a packet.
Begun == {p \in Prepares : stage[p] # "idle"}

\* What their packets carry.
LEMMA BegunAmounts ==
  ASSUME TypeOK, NEW p \in Begun
  PROVE  packet[p] \in Packets /\ packet[p].amount \in Long /\ packet[p].amount \in Nat
BY ReceiverAssumption, MaxLongAssumption DEF Begun, TypeOK, PacketType, Long

\* What a set of calls is about is an amount.
LEMMA AmountOfNat ==
  ASSUME TypeOK, NEW P \in SUBSET Begun, IsFiniteSet(P)
  PROVE  AmountOf(P) \in Nat
<1> DEFINE f == [p \in P |-> packet[p].amount]
<1>1. \A p \in P : f[p] \in Nat
  BY BegunAmounts
<1>2. SumFunctionOnSet(f, P) \in Nat
  BY <1>1, SumIsNat
<1> QED BY <1>2 DEF AmountOf, SumFunction

\* It grows by the amount of each call that is added.
LEMMA AmountOfOneMore ==
  ASSUME TypeOK, NEW P \in SUBSET Begun, IsFiniteSet(P), NEW p \in Begun, p \notin P
  PROVE  AmountOf(P \cup {p}) = AmountOf(P) + packet[p].amount
<1> DEFINE f == [q \in P |-> packet[q].amount]
           g == [q \in P \cup {p} |-> packet[q].amount]
<1>1. \A q \in P \cup {p} : g[q] \in Int
  BY BegunAmounts
<1>2. \A q \in P : f[q] \in Int /\ f[q] = g[q]
  BY BegunAmounts
<1>3. SumFunctionOnSet(g, P \cup {p}) = g[p] + SumFunctionOnSet(g, P)
  BY <1>1, SumWith
<1>4. SumFunctionOnSet(f, P) = SumFunctionOnSet(g, P) /\ SumFunctionOnSet(f, P) \in Int
  BY <1>2, SumSame, SumIsInt
<1>5. AmountOf(P) = SumFunctionOnSet(f, P) /\ AmountOf(P \cup {p}) = SumFunctionOnSet(g, P \cup {p})
  BY DEF AmountOf, SumFunction
<1>6. g[p] = packet[p].amount /\ g[p] \in Int
  BY BegunAmounts
<1> HIDE DEF f, g
<1> QED BY <1>3, <1>4, <1>5, <1>6

\* A packet that has arrived is not changed.
LEMMA AmountOfSame ==
  ASSUME NEW P, \A p \in P : packet'[p] = packet[p]
  PROVE  SumFunction([p \in P |-> packet'[p].amount]) = AmountOf(P)
<1>1. [p \in P |-> packet'[p].amount] = [p \in P |-> packet[p].amount]
  OBVIOUS
<1> QED BY <1>1 DEF AmountOf

\* What the streams of a packet get of it.
SplitOf(k) == SumFunction([s \in Streams |-> StreamAmount(k, s)])

\* A share that is rounded down is at most the share, and less than 1 below it.
LEMMA StreamAmountBounds ==
  ASSUME NEW k \in Packets, MoneyStreams(k) # {}, NEW s \in Streams
  PROVE  /\ StreamAmount(k, s) * TotalShares(k) <= k.amount * k.shares[s]
         /\ k.amount * k.shares[s] <= (StreamAmount(k, s) + 1) * TotalShares(k)
<1> DEFINE x == k.amount * k.shares[s]
           c == TotalShares(k)
           q == StreamAmount(k, s)
<1> SUFFICES q * c <= x /\ x <= (q + 1) * c
  OBVIOUS
<1>1. k.amount \in Nat /\ k.shares[s] \in Nat
  BY ReceiverAssumption, MaxLongAssumption DEF PacketType, Long
<1>2. c \in Nat \ {0} /\ x \in Nat
  BY <1>1, SharesAssumption, MaxLongAssumption DEF Long
<1>3. CASE k.shares[s] = 0
  <2>1. q = 0 /\ x = 0
    BY <1>1, <1>3 DEF StreamAmount
  <2>2. q * c = 0 /\ (q + 1) * c = c
    <3> HIDE DEF q, c
    <3> QED BY <1>2, <2>1
  <2> HIDE DEF q, c, x
  <2> QED BY <1>2, <2>1, <2>2
<1>4. CASE k.shares[s] # 0
  <2>1. q = x \div c
    BY <1>4 DEF StreamAmount, Floor
  <2> HIDE DEF q, c, x
  <2>2. q \in Nat /\ x % c \in Nat /\ x % c < c /\ x = q * c + (x % c)
    BY <1>2, <2>1, Division
  <2>3. (q + 1) * c = q * c + c /\ q * c \in Nat
    BY <1>2, <2>2
  <2> QED BY <1>2, <2>2, <2>3
<1> QED BY <1>3, <1>4

\* The streams get no more than the packet has, and lose less than 1 each by rounding.
LEMMA SplitBounds ==
  ASSUME NEW k \in Packets
  PROVE  /\ SplitOf(k) \in Nat /\ SplitOf(k) <= k.amount
         /\ MoneyStreams(k) # {} => k.amount <= SplitOf(k) + Cardinality(Streams)
<1> DEFINE q == [s \in Streams |-> StreamAmount(k, s)]
           c == TotalShares(k)
           N == Cardinality(Streams)
<1>1. /\ IsFiniteSet(Streams) /\ k.amount \in Nat /\ N \in Nat
      /\ k.shares \in [Streams -> Nat] /\ \A s \in Streams : q[s] \in Nat
  BY ReceiverAssumption, MaxLongAssumption, StreamAmountNat, FS_CardinalityType DEF PacketType, Long
<1>2. SplitOf(k) = SumFunctionOnSet(q, Streams) /\ SplitOf(k) \in Nat
  BY <1>1, SumIsNat DEF SplitOf, SumFunction
<1>3. CASE MoneyStreams(k) = {}
  <2>1. \A s \in Streams : q[s] \in {0}
    BY <1>1, <1>3 DEF MoneyStreams, StreamAmount
  <2>2. 0 \in {0} /\ \A x, y \in {0} : x + y \in {0}
    OBVIOUS
  <2>3. SumFunctionOnSet(q, Streams) \in {0}
    BY <1>1, <2>1, <2>2, SumInSet
  <2> QED BY <1>1, <1>2, <1>3, <2>3
<1>4. CASE MoneyStreams(k) # {}
  <2> DEFINE qc   == [s \in Streams |-> c * q[s]]
             part == [s \in Streams |-> k.amount * k.shares[s]]
             ones == [s \in Streams |-> 1]
             more == [s \in Streams |-> q[s] + 1]
             cm   == [s \in Streams |-> c * more[s]]
  <2>1. c \in Nat \ {0} /\ c = SumFunctionOnSet(k.shares, Streams)
    BY <1>1, <1>4, SharesAssumption, MaxLongAssumption DEF Long, TotalShares, SumFunction
  <2>2. ASSUME NEW s \in Streams
        PROVE  /\ qc[s] \in Int /\ part[s] \in Int /\ cm[s] \in Int /\ more[s] \in Int
               /\ ones[s] = 1 /\ more[s] = q[s] + ones[s]
               /\ qc[s] <= part[s] /\ part[s] <= cm[s]
    <3>1. q[s] * c <= k.amount * k.shares[s] /\ k.amount * k.shares[s] <= (q[s] + 1) * c
      BY <1>4, StreamAmountBounds
    <3>2. q[s] \in Nat /\ k.shares[s] \in Nat
      BY <1>1
    <3> HIDE DEF q, c
    <3>3. q[s] * c = c * q[s] /\ (q[s] + 1) * c = c * (q[s] + 1)
      BY <2>1, <3>2
    <3> QED BY <1>1, <2>1, <3>1, <3>2, <3>3
  <2>3. SumFunctionOnSet(qc, Streams) = c * SumFunctionOnSet(q, Streams)
    <3>1. \A s \in Streams : q[s] \in Int /\ qc[s] = c * q[s]
      BY <1>1
    <3> HIDE DEF q, qc, c
    <3> QED BY <1>1, <2>1, <3>1, SumTimes
  <2>4. SumFunctionOnSet(part, Streams) = k.amount * c
    <3>1. \A s \in Streams : k.shares[s] \in Int /\ part[s] = k.amount * k.shares[s]
      BY <1>1
    <3> HIDE DEF part, c
    <3> QED BY <1>1, <2>1, <3>1, SumTimes
  <2>5. SumFunctionOnSet(cm, Streams) = c * SumFunctionOnSet(more, Streams)
    <3>1. \A s \in Streams : more[s] \in Int /\ cm[s] = c * more[s]
      BY <2>2
    <3> HIDE DEF more, cm, c
    <3> QED BY <1>1, <2>1, <3>1, SumTimes
  <2>6. SumFunctionOnSet(more, Streams) = SumFunctionOnSet(q, Streams) + N
    <3>1. \A s \in Streams : q[s] \in Int /\ ones[s] \in Int /\ more[s] = q[s] + ones[s]
      BY <1>1
    <3>2. SumFunctionOnSet(ones, Streams) = N
      BY <1>1, SumOfOnes
    <3> HIDE DEF more, ones, q
    <3> QED BY <1>1, <3>1, <3>2, SumPlus
  <2>7. /\ SumFunctionOnSet(qc, Streams) <= SumFunctionOnSet(part, Streams)
        /\ SumFunctionOnSet(part, Streams) <= SumFunctionOnSet(cm, Streams)
    <3> HIDE DEF qc, part, cm
    <3> QED BY <1>1, <2>2, SumAtMost
  <2> DEFINE Q == SumFunctionOnSet(q, Streams)
  <2>8. c * Q <= k.amount * c /\ k.amount * c <= c * (Q + N)
    <3> HIDE DEF qc, part, cm, more, c, q
    <3> QED BY <2>3, <2>4, <2>5, <2>6, <2>7
  <2>9. Q \in Nat
    BY <1>2
  <2> HIDE DEF c, Q, N
  <2>10. c * Q = Q * c /\ c * (Q + N) = (Q + N) * c
    BY <1>1, <2>1, <2>9
  <2>11. Q <= k.amount
    BY <1>1, <2>1, <2>8, <2>9, <2>10, CancelFactor
  <2>12. k.amount <= Q + N
    <3>1. Q + N \in Nat
      BY <1>1, <2>9
    <3> QED BY <1>1, <2>1, <2>8, <2>10, <3>1, CancelFactor
  <2> QED BY <1>2, <2>11, <2>12 DEF Q, N
<1> QED BY <1>3, <1>4

\* Crediting a packet gives the streams just that, if the totals of all streams leave room.
LEMMA CreditedSum ==
  ASSUME TypeOK, NEW k \in Packets, SumFunction(received) + k.amount <= MaxLong
  PROVE  SumFunction(Credited(k)) = SumFunction(received) + SplitOf(k)
<1> DEFINE q == [s \in Streams |-> StreamAmount(k, s)]
<1>1. /\ IsFiniteSet(Streams) /\ DOMAIN received = Streams /\ k.amount \in Nat
      /\ \A s \in Streams : received[s] \in Nat /\ received[s] \in Long /\ q[s] \in Nat
  BY ReceiverAssumption, MaxLongAssumption, StreamAmountNat DEF TypeOK, PacketType, Long
<1>2. /\ SumFunction(received) = SumFunctionOnSet(received, Streams)
      /\ SplitOf(k) = SumFunctionOnSet(q, Streams)
  BY <1>1 DEF SumFunction, SplitOf
<1>3. SumFunction(received) \in Nat /\ SplitOf(k) \in Nat
  BY <1>1, <1>2, SumIsNat
<1>4. ASSUME NEW s \in Streams
      PROVE  Credited(k)[s] = received[s] + q[s]
  <2>1. received[s] <= SumFunction(received) /\ q[s] <= SplitOf(k)
    BY <1>1, <1>2, SumBoundsPart
  <2>2. SplitOf(k) <= k.amount
    BY SplitBounds
  <2>3. received[s] + q[s] <= MaxLong /\ q[s] \in Long
    <3> HIDE DEF q
    <3> QED BY <1>1, <1>3, <2>1, <2>2, MaxLongAssumption DEF Long
  <2>4. checkedAdd(received[s], q[s]).sum = received[s] + q[s]
    <3> HIDE DEF q
    <3> QED BY <1>1, <2>3, CheckedAddSaturates, MaxLongAssumption DEF SaturatingSum, minLong
  <2> QED BY <2>4 DEF Credited
<1>5. SumFunctionOnSet(Credited(k), Streams)
        = SumFunctionOnSet(received, Streams) + SumFunctionOnSet(q, Streams)
  <2>1. \A s \in Streams : /\ received[s] \in Int /\ q[s] \in Int
                           /\ Credited(k)[s] = received[s] + q[s]
    BY <1>1, <1>4
  <2> HIDE DEF q
  <2> QED BY <1>1, <2>1, SumPlus
<1>6. SumFunction(Credited(k)) = SumFunctionOnSet(Credited(k), Streams)
  BY DEF SumFunction, Credited
<1> QED BY <1>2, <1>5, <1>6

\* The inductive invariant: at any time finitely many calls have begun, and the totals are
\* those of the calls.  Each of its parts needs the others: the hold bounds the prepares
\* being decided about, they bound the total, and the total bounds what a stream has.
MoneyInv ==
  /\ TypeOK /\ IsFiniteSet(Begun)
  /\ CountedOnce /\ NoTotalOverflow /\ HoldCovers /\ SplitConserves

LEMMA MoneyInit == Init => MoneyInv
<1> SUFFICES ASSUME Init PROVE MoneyInv
  OBVIOUS
<1>1. TypeOK
  BY TypeInit
<1>2. Begun = {} /\ Fulfilled = {} /\ Deciding = {} /\ IsFiniteSet({}) /\ Cardinality({}) = 0
  BY FS_EmptySet DEF Init, Begun, Fulfilled, Deciding
<1>3. AmountOf({}) = 0
  <2>1. DOMAIN [p \in {} |-> packet[p].amount] = {}
    OBVIOUS
  <2> QED BY <2>1, SumOfNone DEF AmountOf, SumFunction
<1>4. SumFunction(received) = 0
  <2>1. DOMAIN received = Streams /\ \A s \in Streams : received[s] \in {0}
    BY DEF Init
  <2>2. 0 \in {0} /\ \A x, y \in {0} : x + y \in {0}
    OBVIOUS
  <2>3. SumFunctionOnSet(received, Streams) \in {0}
    BY <2>1, <2>2, SumInSet, ReceiverAssumption
  <2> QED BY <2>1, <2>3 DEF SumFunction
<1>5. totalReceived = 0 /\ incomingHold = 0
  BY DEF Init
<1>6. Cardinality(Streams) \in Nat /\ 0 * Cardinality(Streams) = 0
  BY ReceiverAssumption, FS_CardinalityType
<1>7. SplitConserves
  BY <1>2, <1>4, <1>5, <1>6 DEF SplitConserves
<1> QED BY <1>1, <1>2, <1>3, <1>5, <1>7, MaxLongAssumption
        DEF MoneyInv, CountedOnce, NoTotalOverflow, HoldCovers

\* The numbers that the invariant relates.
LEMMA MoneyNumbers ==
  ASSUME MoneyInv
  PROVE  /\ totalReceived \in Nat /\ incomingHold \in Nat
         /\ totalReceived \in Long /\ incomingHold \in Long
         /\ AmountOf(Deciding) \in Nat /\ SumFunction(received) \in Nat
         /\ IsFiniteSet(Fulfilled) /\ Fulfilled \in SUBSET Begun
         /\ IsFiniteSet(Deciding) /\ Deciding \in SUBSET Begun
         /\ Cardinality(Fulfilled) \in Nat /\ Cardinality(Streams) \in Nat
<1>1. Fulfilled \in SUBSET Begun /\ Deciding \in SUBSET Begun
  BY DEF Fulfilled, Deciding, Begun
<1>2. IsFiniteSet(Fulfilled) /\ IsFiniteSet(Deciding)
  BY <1>1, FS_Subset DEF MoneyInv
<1>3. DOMAIN received = Streams /\ \A s \in Streams : received[s] \in Nat
  BY MaxLongAssumption DEF MoneyInv, TypeOK, Long
<1>4. SumFunction(received) \in Nat
  BY <1>3, SumIsNat, ReceiverAssumption DEF SumFunction
<1> QED BY <1>1, <1>2, <1>4, AmountOfNat, FS_CardinalityType, ReceiverAssumption, MaxLongAssumption
        DEF MoneyInv, TypeOK, Long

\* A call changes its own packet only, and that only when it arrives.
LEMMA PacketsStay ==
  ASSUME TypeOK, [Next]_vars
  PROVE  /\ \A p \in Begun : packet'[p] = packet[p]
         /\ Begun' = Begun \/ \E p \in Prepares : Begun' = Begun \cup {p}
<1>1. ASSUME NEW p \in Prepares, NEW k \in Packets, ControlFrames(p, k)
      PROVE  /\ \A q \in Begun : packet'[q] = packet[q]
             /\ Begun' = Begun \cup {p}
  <2>1. p \notin Begun /\ \A q \in Prepares : stage'[q] # "idle" <=> (q = p \/ stage[q] # "idle")
    BY <1>1 DEF ControlFrames, Answer, TypeOK, Begun
  <2>2. packet' = [packet EXCEPT ![p] = k]
    BY <1>1 DEF ControlFrames
  <2> QED BY <2>1, <2>2 DEF Begun, TypeOK
<1>2. ASSUME NEW p \in Prepares, Decide(p) \/ Accept(p) \/ Decline(p)
      PROVE  packet' = packet /\ Begun' = Begun
  <2>1. /\ packet' = packet /\ stage[p] # "idle"
        /\ \E how \in {"fulfilled", "rejected", "deciding"} : stage' = [stage EXCEPT ![p] = how]
    BY <1>2 DEF Decide, Refuse, Overflow, Hold, FulfillAtOnce, Receivable, Accept, Decline, Fulfill, Answer
  <2> QED BY <2>1 DEF Begun, TypeOK
<1>3. CASE UNCHANGED <<stage, packet>>
  BY <1>3 DEF Begun
<1>4. \/ UNCHANGED <<stage, packet>>
      \/ \E p \in Prepares : \/ \E k \in Packets : ControlFrames(p, k)
                             \/ Decide(p) \/ Accept(p) \/ Decline(p)
  BY DEF Next, Handle, SetReceiveMax, CloseStream, removeStreamRecord, CloseConnection, vars
<1> QED BY <1>1, <1>2, <1>3, <1>4

\* A step that moves no money.
LEMMA MoneyRests ==
  ASSUME MoneyInv, TypeOK', IsFiniteSet(Begun'), \A p \in Begun : packet'[p] = packet[p],
         Fulfilled' = Fulfilled, Deciding' = Deciding,
         UNCHANGED <<received, totalReceived, incomingHold>>
  PROVE  MoneyInv'
<1>1. \A p \in Fulfilled \cup Deciding : packet'[p] = packet[p]
  BY DEF Fulfilled, Deciding, Begun
<1>2. AmountOf(Fulfilled)' = AmountOf(Fulfilled) /\ AmountOf(Deciding)' = AmountOf(Deciding)
  BY <1>1, AmountOfSame DEF AmountOf
<1>3. (\A p \in Fulfilled : MoneyStreams(packet[p]) # {})
      <=> \A p \in Fulfilled' : MoneyStreams(packet[p])' # {}
  BY <1>1 DEF MoneyStreams
<1> QED BY <1>2, <1>3 DEF MoneyInv, CountedOnce, NoTotalOverflow, HoldCovers, SplitConserves

\* The last piece of handlePrepare, if the hold and the total have room for the packet.
LEMMA MoneyCredited ==
  ASSUME MoneyInv, TypeOK', IsFiniteSet(Begun'), NEW p \in Begun, p \notin Fulfilled,
         NEW hold \in Long, Fulfill(p, hold),
         totalReceived + packet[p].amount + AmountOf(Deciding \ {p}) <= MaxLong,
         packet[p].amount + AmountOf(Deciding \ {p}) <= hold
  PROVE  MoneyInv'
<1> DEFINE k == packet[p]
           D == Deciding \ {p}
           N == Cardinality(Streams)
           F == Cardinality(Fulfilled)
<1>1. k \in Packets /\ k.amount \in Long /\ k.amount \in Nat /\ TypeOK
  BY BegunAmounts DEF MoneyInv
<1>2. /\ totalReceived \in Long /\ totalReceived \in Nat /\ SumFunction(received) \in Nat
      /\ F \in Nat /\ N \in Nat /\ IsFiniteSet(Fulfilled) /\ Fulfilled \in SUBSET Begun
      /\ IsFiniteSet(Deciding) /\ Deciding \in SUBSET Begun
  BY MoneyNumbers
<1>3. IsFiniteSet(D) /\ D \in SUBSET Begun /\ AmountOf(D) \in Nat
  BY <1>1, <1>2, FS_RemoveElement, AmountOfNat
<1>4. /\ packet' = packet /\ received' = Credited(k)
      /\ incomingHold' = WithoutHold(hold, k.amount) /\ totalReceived' = addTotalReceived(k.amount)
      /\ Fulfilled' = Fulfilled \cup {p} /\ Deciding' = D
  <2>1. stage' = [stage EXCEPT ![p] = "fulfilled"]
    BY DEF Fulfill, Answer
  <2> QED BY <1>1, <2>1 DEF Fulfill, Fulfilled, Deciding, Begun, TypeOK
<1>5. totalReceived' = totalReceived + k.amount
  <2>1. totalReceived + k.amount <= MaxLong
    BY <1>1, <1>2, <1>3, MaxLongAssumption
  <2> DEFINE x == k.amount
  <2>2. checkedAdd(totalReceived, x).sum = SaturatingSum(totalReceived, x)
    <3>1. totalReceived \in Long /\ x \in Long
      BY <1>1, <1>2
    <3> HIDE DEF x
    <3> QED BY ONLY <3>1, CheckedAddSaturates
  <2>3. SaturatingSum(totalReceived, x) = totalReceived + x
    <3>1. totalReceived \in Nat /\ x \in Nat /\ totalReceived + x <= MaxLong
      BY <1>1, <1>2, <2>1
    <3> HIDE DEF x
    <3> QED BY ONLY <3>1, MaxLongAssumption DEF SaturatingSum, minLong
  <2> QED BY <1>4, <2>2, <2>3 DEF addTotalReceived
<1>6. incomingHold' = hold - k.amount
  <2>1. k.amount <= hold
    BY <1>1, <1>3, MaxLongAssumption DEF Long
  <2> QED BY <1>1, <1>4, <2>1, CheckedSubtractExact DEF WithoutHold
<1>7. AmountOf(Deciding)' = AmountOf(D)
  BY <1>4, AmountOfSame DEF AmountOf
<1>8. AmountOf(Fulfilled)' = AmountOf(Fulfilled) + k.amount
  <2>1. AmountOf(Fulfilled)' = AmountOf(Fulfilled \cup {p})
    BY <1>4, AmountOfSame DEF AmountOf
  <2>2. AmountOf(Fulfilled \cup {p}) = AmountOf(Fulfilled) + k.amount
    BY <1>1, <1>2, AmountOfOneMore
  <2> QED BY <2>1, <2>2
<1>9. CountedOnce'
  BY <1>5, <1>8 DEF MoneyInv, CountedOnce
<1>10. NoTotalOverflow'
  BY <1>5, <1>7 DEF NoTotalOverflow
<1>11. HoldCovers'
  <2>1. hold \in Nat
    BY MaxLongAssumption DEF Long
  <2> QED BY <1>1, <1>3, <1>6, <1>7, <2>1 DEF HoldCovers
<1>12. SplitConserves'
  <2>1. SumFunction(received) <= totalReceived
    BY DEF MoneyInv, SplitConserves
  <2>2. SumFunction(received) + k.amount <= MaxLong
    BY <1>1, <1>2, <1>3, <2>1, MaxLongAssumption
  <2>3. SumFunction(received)' = SumFunction(received) + SplitOf(k)
    BY <1>1, <1>4, <2>2, CreditedSum
  <2>4. /\ SplitOf(k) \in Nat /\ SplitOf(k) <= k.amount
        /\ MoneyStreams(k) # {} => k.amount <= SplitOf(k) + N
    BY <1>1, SplitBounds
  <2>5. SumFunction(received)' <= totalReceived'
    BY <1>1, <1>2, <1>5, <2>1, <2>3, <2>4
  <2>6. ASSUME \A q \in Fulfilled' : MoneyStreams(packet[q])' # {}
        PROVE  totalReceived' <= SumFunction(received)' + Cardinality(Fulfilled') * N
    <3>1. \A q \in Fulfilled \cup {p} : MoneyStreams(packet[q]) # {}
      BY <1>4, <2>6 DEF MoneyStreams
    <3>2. totalReceived <= SumFunction(received) + F * N
      BY <3>1 DEF MoneyInv, SplitConserves
    <3>3. Cardinality(Fulfilled') = F + 1
      BY <1>2, <1>4, FS_AddElement
    <3>4. k.amount <= SplitOf(k) + N
      BY <2>4, <3>1
    <3>5. (F + 1) * N = F * N + N /\ F * N \in Nat
      BY <1>2
    <3> HIDE DEF F, N
    <3> QED BY <1>1, <1>2, <1>5, <2>3, <2>4, <3>2, <3>3, <3>4, <3>5
  <2> QED BY <2>5, <2>6 DEF SplitConserves
<1> QED BY <1>9, <1>10, <1>11, <1>12 DEF MoneyInv

\* What is held for a packet on top of the total and the other holds.
LEMMA HoldAdds ==
  ASSUME MoneyInv, NEW v \in Long, ~IncomingHold(v).overflow
  PROVE  /\ IncomingHold(v).sum \in Long
         /\ IncomingHold(v).sum = minLong(totalReceived + incomingHold, MaxLong) + v
         /\ totalReceived + AmountOf(Deciding) + v <= MaxLong
         /\ AmountOf(Deciding) + v <= IncomingHold(v).sum
<1> DEFINE m == checkedAdd(totalReceived, incomingHold).sum
<1>1. /\ totalReceived \in Long /\ incomingHold \in Long /\ totalReceived \in Nat
      /\ incomingHold \in Nat /\ AmountOf(Deciding) \in Nat /\ v \in Nat
  BY MoneyNumbers, MaxLongAssumption DEF Long
<1>2. m \in Long /\ m = minLong(totalReceived + incomingHold, MaxLong)
  BY <1>1, CheckedAddSaturates DEF SaturatingSum
<1>3. /\ IncomingHold(v).overflow = (m + v > MaxLong)
      /\ IncomingHold(v).sum = SaturatingSum(m, v) /\ SaturatingSum(m, v) \in Long
  <2> HIDE DEF m
  <2>1. IncomingHold(v) = checkedAdd(m, v)
    BY DEF IncomingHold, m
  <2> QED BY <1>2, <2>1, CheckedAddSaturates
<1>4. m + v <= MaxLong /\ IncomingHold(v).sum = m + v
  <2> HIDE DEF m
  <2>1. ~(m + v > MaxLong)
    BY <1>3
  <2>2. m + v <= MaxLong
    BY <1>1, <1>2, <2>1, MaxLongAssumption DEF Long
  <2> QED BY <1>1, <1>2, <1>3, <2>2, MaxLongAssumption DEF SaturatingSum, minLong, Long
<1>5. AmountOf(Deciding) <= incomingHold /\ totalReceived + AmountOf(Deciding) <= MaxLong
  BY DEF MoneyInv, HoldCovers, NoTotalOverflow
<1>6. totalReceived + AmountOf(Deciding) <= m
  <2> HIDE DEF m
  <2> QED BY <1>1, <1>2, <1>5, MaxLongAssumption DEF minLong
<1> HIDE DEF m
<1> QED BY <1>1, <1>2, <1>3, <1>4, <1>6, MaxLongAssumption

LEMMA MoneyHold ==
  ASSUME MoneyInv, TypeOK', IsFiniteSet(Begun'), NEW p \in Prepares, Hold(p)
  PROVE  MoneyInv'
<1> DEFINE v == packet[p].amount
<1>1. p \in Begun /\ p \notin Deciding /\ p \notin Fulfilled /\ v \in Nat /\ v \in Long /\ TypeOK
  BY BegunAmounts DEF Hold, Receivable, Begun, Deciding, Fulfilled, MoneyInv
<1>2. Deciding \in SUBSET Begun /\ IsFiniteSet(Deciding) /\ AmountOf(Deciding) \in Nat
      /\ totalReceived \in Nat
  BY MoneyNumbers
<1>3. /\ totalReceived + AmountOf(Deciding) + v <= MaxLong
      /\ AmountOf(Deciding) + v <= IncomingHold(v).sum
  BY <1>1, HoldAdds DEF Hold
<1>4. /\ packet' = packet /\ received' = received /\ totalReceived' = totalReceived
      /\ incomingHold' = IncomingHold(v).sum
      /\ Fulfilled' = Fulfilled /\ Deciding' = Deciding \cup {p}
  BY <1>1 DEF Hold, Receivable, Fulfilled, Deciding, TypeOK, streamVars
<1>5. AmountOf(Fulfilled)' = AmountOf(Fulfilled)
  BY <1>4, AmountOfSame DEF AmountOf
<1>6. AmountOf(Deciding)' = AmountOf(Deciding) + v
  <2>1. AmountOf(Deciding)' = AmountOf(Deciding \cup {p})
    BY <1>4, AmountOfSame DEF AmountOf
  <2> QED BY <1>1, <1>2, <2>1, AmountOfOneMore
<1>7. SplitConserves'
  BY <1>4 DEF MoneyInv, SplitConserves, MoneyStreams
<1>8. CountedOnce' /\ HoldCovers'
  BY <1>3, <1>4, <1>5, <1>6 DEF MoneyInv, CountedOnce, HoldCovers
<1>9. NoTotalOverflow'
  <2> HIDE DEF v
  <2> QED BY <1>1, <1>2, <1>3, <1>4, <1>6 DEF NoTotalOverflow
<1> QED BY <1>7, <1>8, <1>9 DEF MoneyInv

\* Without one of the prepares the hold covers the others.
LEMMA DecidingWithout ==
  ASSUME MoneyInv, NEW p \in Deciding
  PROVE  /\ AmountOf(Deciding) = AmountOf(Deciding \ {p}) + packet[p].amount
         /\ AmountOf(Deciding \ {p}) \in Nat
<1>1. /\ Deciding \ {p} \in SUBSET Begun /\ IsFiniteSet(Deciding \ {p}) /\ p \in Begun
      /\ (Deciding \ {p}) \cup {p} = Deciding /\ TypeOK
  BY MoneyNumbers, FS_RemoveElement DEF MoneyInv
<1> QED BY <1>1, AmountOfOneMore, AmountOfNat

LEMMA MoneyDecline ==
  ASSUME MoneyInv, TypeOK', IsFiniteSet(Begun'), NEW p \in Prepares, Decline(p)
  PROVE  MoneyInv'
<1> DEFINE v == packet[p].amount
           D == Deciding \ {p}
<1>1. p \in Begun /\ p \in Deciding /\ p \notin Fulfilled /\ v \in Nat /\ v \in Long /\ TypeOK
  BY BegunAmounts DEF Decline, Begun, Deciding, Fulfilled, MoneyInv
<1>2. AmountOf(Deciding) = AmountOf(D) + v /\ AmountOf(D) \in Nat
  BY <1>1, DecidingWithout
<1>3. totalReceived \in Nat /\ incomingHold \in Nat /\ incomingHold \in Long
  BY MoneyNumbers
<1>4. AmountOf(D) + v <= incomingHold /\ totalReceived + (AmountOf(D) + v) <= MaxLong
  BY <1>2 DEF MoneyInv, HoldCovers, NoTotalOverflow
<1>5. /\ packet' = packet /\ received' = received /\ totalReceived' = totalReceived
      /\ incomingHold' = WithoutHold(incomingHold, v)
      /\ Fulfilled' = Fulfilled /\ Deciding' = D
  BY <1>1 DEF Decline, Answer, Fulfilled, Deciding, TypeOK, streamVars
<1>6. AmountOf(Fulfilled)' = AmountOf(Fulfilled) /\ AmountOf(Deciding)' = AmountOf(D)
  BY <1>5, AmountOfSame DEF AmountOf
<1> HIDE DEF v, D
<1>7. incomingHold' = incomingHold - v
  <2>1. v <= incomingHold
    BY <1>1, <1>2, <1>3, <1>4
  <2> QED BY <1>1, <1>3, <1>5, <2>1, CheckedSubtractExact DEF WithoutHold
<1>8. SplitConserves'
  BY <1>5 DEF MoneyInv, SplitConserves, MoneyStreams
<1>9. CountedOnce' /\ HoldCovers' /\ NoTotalOverflow'
  <2>1. AmountOf(D) <= incomingHold - v /\ totalReceived + AmountOf(D) <= MaxLong
    BY <1>1, <1>2, <1>3, <1>4, MaxLongAssumption
  <2> QED BY <1>5, <1>6, <1>7, <2>1 DEF MoneyInv, CountedOnce, HoldCovers, NoTotalOverflow
<1> QED BY <1>8, <1>9 DEF MoneyInv

LEMMA MoneyAtOnce ==
  ASSUME MoneyInv, TypeOK', IsFiniteSet(Begun'), NEW p \in Prepares, FulfillAtOnce(p)
  PROVE  MoneyInv'
<1>1. p \in Begun /\ p \notin Deciding /\ p \notin Fulfilled /\ Deciding \ {p} = Deciding
  BY DEF FulfillAtOnce, Receivable, Begun, Deciding, Fulfilled
<1>2. packet[p].amount \in Nat /\ packet[p].amount \in Long
  BY <1>1, BegunAmounts DEF MoneyInv
<1>3. totalReceived \in Nat /\ AmountOf(Deciding) \in Nat
  BY MoneyNumbers
<1>4. /\ IncomingHold(packet[p].amount).sum \in Long
      /\ totalReceived + AmountOf(Deciding) + packet[p].amount <= MaxLong
      /\ AmountOf(Deciding) + packet[p].amount <= IncomingHold(packet[p].amount).sum
  BY <1>2, HoldAdds DEF FulfillAtOnce
<1>5. /\ totalReceived + packet[p].amount + AmountOf(Deciding \ {p}) <= MaxLong
      /\ packet[p].amount + AmountOf(Deciding \ {p}) <= IncomingHold(packet[p].amount).sum
  <2>1. AmountOf(Deciding \ {p}) = AmountOf(Deciding)
    BY <1>1
  <2> QED BY <1>2, <1>3, <1>4, <2>1
<1> QED BY <1>1, <1>4, <1>5, MoneyCredited DEF FulfillAtOnce

LEMMA MoneyAccept ==
  ASSUME MoneyInv, TypeOK', IsFiniteSet(Begun'), NEW p \in Prepares, Accept(p)
  PROVE  MoneyInv'
<1>1. p \in Begun /\ p \in Deciding /\ p \notin Fulfilled
  BY DEF Accept, Begun, Deciding, Fulfilled
<1>2. packet[p].amount \in Nat
  BY <1>1, BegunAmounts DEF MoneyInv
<1>3. totalReceived \in Nat /\ incomingHold \in Long /\ incomingHold \in Nat
  BY MoneyNumbers
<1>4. AmountOf(Deciding) = AmountOf(Deciding \ {p}) + packet[p].amount
      /\ AmountOf(Deciding \ {p}) \in Nat
  BY <1>1, DecidingWithout
<1>5. /\ totalReceived + packet[p].amount + AmountOf(Deciding \ {p}) <= MaxLong
      /\ packet[p].amount + AmountOf(Deciding \ {p}) <= incomingHold
  BY <1>2, <1>3, <1>4 DEF MoneyInv, NoTotalOverflow, HoldCovers
<1> QED BY <1>1, <1>3, <1>5, MoneyCredited DEF Accept

LEMMA MoneyStep == MoneyInv /\ [Next]_vars => MoneyInv'
<1> SUFFICES ASSUME MoneyInv, [Next]_vars PROVE MoneyInv'
  OBVIOUS
<1>1. TypeOK /\ TypeOK'
  BY TypeStep DEF MoneyInv
<1>2. \A p \in Begun : packet'[p] = packet[p]
  BY <1>1, PacketsStay
<1>3. IsFiniteSet(Begun')
  <2>1. Begun' = Begun \/ \E p \in Prepares : Begun' = Begun \cup {p}
    BY <1>1, PacketsStay
  <2> QED BY <2>1, FS_AddElement DEF MoneyInv
<1>4. CASE UNCHANGED <<received, totalReceived, incomingHold>>
           /\ Fulfilled' = Fulfilled /\ Deciding' = Deciding
  BY <1>1, <1>2, <1>3, <1>4, MoneyRests
<1>5. ASSUME NEW p \in Prepares, Handle(p) PROVE MoneyInv'
  <2>1. ASSUME NEW k \in Packets, ControlFrames(p, k) PROVE MoneyInv'
    BY <1>1, <1>4, <2>1 DEF ControlFrames, Answer, Fulfilled, Deciding, TypeOK, moneyVars
  <2>2. CASE Refuse(p) \/ Overflow(p)
    BY <1>1, <1>4, <2>2 DEF Refuse, Overflow, Receivable, Answer, Fulfilled, Deciding, TypeOK,
                            streamVars, moneyVars
  <2>3. CASE Hold(p)
    BY <1>1, <1>3, <2>3, MoneyHold
  <2>4. CASE FulfillAtOnce(p)
    BY <1>1, <1>3, <2>4, MoneyAtOnce
  <2>5. CASE Accept(p)
    BY <1>1, <1>3, <2>5, MoneyAccept
  <2>6. CASE Decline(p)
    BY <1>1, <1>3, <2>6, MoneyDecline
  <2> QED BY <1>5, <2>1, <2>2, <2>3, <2>4, <2>5, <2>6 DEF Handle, Decide
<1>6. CASE UNCHANGED <<stage, packet, received, moneyVars>>
  BY <1>4, <1>6 DEF Fulfilled, Deciding, moneyVars
<1> QED BY <1>5, <1>6 DEF Next, SetReceiveMax, CloseStream, removeStreamRecord, CloseConnection,
                          vars, moneyVars, streamVars

LEMMA AlwaysMoney == Spec => []MoneyInv
BY MoneyInit, MoneyStep, PTL DEF Spec

\* The connection counts exactly the prepares it has fulfilled, whatever number of them is
\* handled at the same time, with and without the shouldFulfill callback.
THEOREM CountedOnceHolds == Spec => []CountedOnce
<1>1. MoneyInv => CountedOnce
  BY DEF MoneyInv
<1> QED BY <1>1, AlwaysMoney, PTL

\* What is received and what is being decided about fits in a Long at any time.
THEOREM NoTotalOverflowHolds == Spec => []NoTotalOverflow
<1>1. MoneyInv => NoTotalOverflow
  BY DEF MoneyInv
<1> QED BY <1>1, AlwaysMoney, PTL

\* The hold covers the prepares being decided about, so that it is never short when they are
\* accepted or declined.
THEOREM HoldCoversHolds == Spec => []HoldCovers
<1>1. MoneyInv => HoldCovers
  BY DEF MoneyInv
<1> QED BY <1>1, AlwaysMoney, PTL

\* Splitting packets over streams creates no money and loses only what rounding down does:
\* with any streams, shares and number of packets.
THEOREM SplitConservesHolds == Spec => []SplitConserves
<1>1. MoneyInv => SplitConserves
  BY DEF MoneyInv
<1> QED BY <1>1, AlwaysMoney, PTL
=============================================================================
