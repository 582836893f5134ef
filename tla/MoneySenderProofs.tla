-------------------------- MODULE MoneySenderProofs --------------------------
(***************************************************************************)
(* For any streams, limits, answers and exchange rate, the variables of    *)
(* MoneySender keep their types, no stream pays more than the largest      *)
(* sendMax it was given, and no hold is left; and where packets can carry  *)
(* money the loop does not rest, or end a stream, before it is sent.       *)
(***************************************************************************)
EXTENDS MoneySender, LongArithProofs

-----------------------------------------------------------------------------
\* What an answer that is still to come may add to what a stream has paid.
Pending(s) == IF loop = "waiting" THEN request.money[s] ELSE 0

\* The invariant that is inductive: the packet that is under way is covered by a hold,
\* the limits stay where checkedSubtract is exact, and later packets have no hold yet.
PaidInv ==
  \A s \in Streams :
    /\ totalSent[s] <= paid[s]
    /\ paid[s] + Pending(s) <= totalSent[s] + held[s]
    /\ totalSent[s] + held[s] <= peak[s]
    /\ sendMax[s] <= peak[s] /\ 2 * peak[s] <= MaxLong
    /\ loop = "waiting" => holds[s][request.seq] = request.money[s]
    /\ \A n \in nextSequence .. MaxSequence : holds[s][n] = 0

Inv == TypeOK /\ PaidInv

\* What is available on a stream is what its limit leaves, or nothing.
LEMMA AvailableIsLeft ==
  ASSUME Inv, NEW s \in Streams
  PROVE  /\ _getAmountAvailableToSend(s) \in Nat
         /\ _getAmountAvailableToSend(s) > 0 =>
              totalSent[s] + held[s] + _getAmountAvailableToSend(s) <= sendMax[s]
<1>1. /\ sendMax[s] \in Long /\ totalSent[s] \in Long /\ held[s] \in Long
      /\ 2 * sendMax[s] <= MaxLong /\ 2 * totalSent[s] <= MaxLong /\ 2 * held[s] <= MaxLong
  BY MaxLongAssumption DEF Inv, TypeOK, LoopType, MoneyType, RemoteType, OwnLimitType, PaidInv, Long
<1> DEFINE left == checkedSubtract(sendMax[s], totalSent[s]).difference
<1>2. left = IF totalSent[s] <= sendMax[s] THEN sendMax[s] - totalSent[s] ELSE 0
  BY <1>1, SubtractBelowHalf
<1>3. left \in Long /\ 2 * left <= MaxLong
  BY <1>1, <1>2, MaxLongAssumption DEF Long
<1>4. checkedSubtract(left, held[s]).difference = IF held[s] <= left THEN left - held[s] ELSE 0
  <2> HIDE DEF left
  <2> QED BY <1>1, <1>3, SubtractBelowHalf
<1>5. Available(sendMax[s], totalSent[s], held[s]) = checkedSubtract(left, held[s]).difference
  BY DEF Available
<1> HIDE DEF left
<1>6. /\ Available(sendMax[s], totalSent[s], held[s]) \in Nat
      /\ Available(sendMax[s], totalSent[s], held[s]) > 0 =>
           totalSent[s] + held[s] + Available(sendMax[s], totalSent[s], held[s]) <= sendMax[s]
  BY <1>1, <1>2, <1>3, <1>4, <1>5, MaxLongAssumption DEF Long
<1> QED BY <1>6 DEF _getAmountAvailableToSend

\* The money of a packet is a natural number, and leaves each stream within its limit.
LEMMA FramesFit ==
  ASSUME Inv, NEW limit, NEW m \in MoneyFrames(limit), NEW s \in Streams
  PROVE  m[s] \in Nat /\ (m[s] > 0 => totalSent[s] + held[s] + m[s] <= sendMax[s])
<1> DEFINE avail == _getAmountAvailableToSend(s)
           src   == MaxSourceAmount(s)
           rest  == limit - SumFunctionOnSet(m, {t \in Streams : t < s})
<1>1. m[s] \in Nat /\ m[s] = IF sentEnd[s] \/ ~recorded(s) THEN 0
                             ELSE minLong(minLong(avail, src), rest)
  BY DEF MoneyFrames
<1>2. avail \in Nat /\ (avail > 0 => totalSent[s] + held[s] + avail <= sendMax[s])
  BY AvailableIsLeft
<1>3. src \in Int
  <2> DEFINE gap == checkedSubtract(remoteReceiveMax[s], remoteReceived[s]).difference
  <2>1. gap \in Nat
    <3>1. remoteReceiveMax[s] \in Long /\ remoteReceived[s] \in Long
      BY DEF Inv, TypeOK, RemoteType
    <3> QED BY <3>1, SubtractIsLong, MaxLongAssumption DEF Long
  <2>2. Ceil(gap, RateDen, RateNum) \in Int
    <3> HIDE DEF gap
    <3> QED BY <2>1, CeilIsInt, SenderAssumption
  <2>3. src = minLong(Ceil(gap, RateDen, RateNum), MaxLong)
    BY DEF MaxSourceAmount
  <2> HIDE DEF gap
  <2> QED BY <2>2, <2>3, MaxLongAssumption DEF minLong
<1>4. totalSent[s] \in Nat /\ held[s] \in Nat /\ sendMax[s] \in Nat
  BY MaxLongAssumption DEF Inv, TypeOK, LoopType, MoneyType, RemoteType, OwnLimitType, Long
<1> HIDE DEF avail, src, rest
<1>5. m[s] > 0 => m[s] <= avail
  BY <1>1, <1>2, <1>3 DEF minLong
<1> QED BY <1>1, <1>2, <1>4, <1>5

-----------------------------------------------------------------------------
\* A step that leaves the money alone and starts no packet keeps PaidInv.
LEMMA MoneyUntouched ==
  ASSUME Inv, UNCHANGED <<moneyVars, sendMax, peak, request, nextSequence>>, loop' = "waiting" => loop = "waiting"
  PROVE  PaidInv'
<1> SUFFICES ASSUME NEW s \in Streams
             PROVE  /\ totalSent'[s] <= paid'[s]
                    /\ paid'[s] + Pending(s)' <= totalSent'[s] + held'[s]
                    /\ totalSent'[s] + held'[s] <= peak'[s]
                    /\ sendMax'[s] <= peak'[s] /\ 2 * peak'[s] <= MaxLong
                    /\ loop' = "waiting" => holds'[s][request'.seq] = request'.money[s]
                    /\ \A n \in nextSequence' .. MaxSequence : holds'[s][n] = 0
  BY DEF PaidInv
<1>1. /\ totalSent[s] \in Nat /\ held[s] \in Nat /\ paid[s] \in Nat
      /\ request.money[s] \in Nat /\ Pending(s) \in Nat
  BY MaxLongAssumption DEF Inv, TypeOK, LoopType, MoneyType, RemoteType, OwnLimitType, Long, Pending
<1>2. Pending(s)' <= Pending(s)
  BY <1>1 DEF Pending
<1>3. Pending(s)' \in Nat
  BY <1>1 DEF Pending
<1> QED BY <1>1, <1>2, <1>3 DEF Inv, PaidInv, moneyVars

LEMMA StartSendLoopKeeps ==
  ASSUME LoopType, startSendLoop, queuedCloses' \in SUBSET Streams
  PROVE  LoopType' /\ (loop' = "waiting" => loop = "waiting") /\ UNCHANGED request
BY DEF LoopType, startSendLoop

LEMMA DestroyKeeps ==
  ASSUME LoopType, StreamType, NEW closes \in SUBSET Streams, Destroy(closes)
  PROVE  LoopType' /\ StreamType' /\ loop' # "waiting" /\ UNCHANGED request
BY DEF LoopType, StreamType, Destroy

LEMMA LifeAfterKeeps ==
  ASSUME StreamType, NEW closes, NEW goesOn, LifeAfter(closes, goesOn)
  PROVE  StreamType'
<1>1. PICK ended \in SUBSET Streams :
        /\ life' = [s \in Streams |-> IF s \in ended THEN "closed" ELSE life[s]]
        /\ sentEnd' = [s \in Streams |-> sentEnd[s] \/ s \in PeerCloses(closes)]
  <2>1. PICK waits : LET ends(s) == \/ s \in PeerCloses(closes) \ waits
                                    \/ life[s] = "ending" /\ (~goesOn \/ AllSent(s))
                     IN  /\ life' = [s \in Streams |-> IF ends(s) THEN "closed" ELSE life[s]]
                         /\ sentEnd' = [s \in Streams |-> sentEnd[s] \/ s \in PeerCloses(closes)]
    BY DEF LifeAfter
  <2> DEFINE ended == {s \in Streams : \/ s \in PeerCloses(closes) \ waits
                                       \/ life[s] = "ending" /\ (~goesOn \/ AllSent(s))}
  <2>2. /\ ended \in SUBSET Streams
        /\ life' = [s \in Streams |-> IF s \in ended THEN "closed" ELSE life[s]]
    BY <2>1
  <2> QED BY <2>1, <2>2
<1>2. \A s \in Streams : (sentEnd[s] \/ s \in PeerCloses(closes)) \in BOOLEAN
  OBVIOUS
<1> QED BY <1>1, <1>2 DEF StreamType

LEMMA TakeLimitsKeeps ==
  ASSUME RemoteType, NEW limits, IsLimits(limits), TakeLimits(limits)
  PROVE  RemoteType'
BY DEF RemoteType, TakeLimits, IsLimits, LimitType, maxLong

-----------------------------------------------------------------------------
(* The steps that move money.                                               *)

\* Loading a packet holds what it carries.
LEMMA LoadKeeps ==
  ASSUME Inv, NEW limit, NEW other \in BOOLEAN, loadAndSendPacket(limit, other)
  PROVE  Inv'
<1>1. /\ LoopType /\ StreamType /\ MoneyType /\ RemoteType /\ OwnLimitType
  BY DEF Inv, TypeOK
<1>2. PICK m \in MoneyFrames(LimitFor(limit)), amount \in Long :
        _holdOutgoing(m) /\ SendUnlessEmpty(m, amount, other)
  BY DEF loadAndSendPacket
<1>3. /\ nextSequence \in 1 .. MaxSequence - 1 /\ nextSequence' = nextSequence + 1
      /\ queuedCloses' = {} /\ nextSequence \in 0 .. MaxSequence
      /\ UNCHANGED <<connected, destroyed, remoteGone>> /\ UNCHANGED streamVars
      /\ UNCHANGED <<sendMax, totalSent, connectionSent, paid, peak>> /\ UNCHANGED remoteVars
  BY <1>1, SenderAssumption DEF loadAndSendPacket, LoopType
<1>4. ASSUME NEW s \in Streams
      PROVE  /\ m[s] \in Long /\ held'[s] \in Long
             /\ totalSent[s] + held'[s] <= peak[s]
  <2>1. m[s] \in Nat /\ (m[s] > 0 => totalSent[s] + held[s] + m[s] <= sendMax[s])
    BY FramesFit
  <2>2. held'[s] = held[s] + m[s]
    BY <1>2 DEF _holdOutgoing
  <2>3. /\ totalSent[s] \in Nat /\ held[s] \in Nat /\ sendMax[s] \in Nat /\ peak[s] \in Long
        /\ totalSent[s] + held[s] <= peak[s] /\ sendMax[s] <= peak[s]
    BY MaxLongAssumption DEF Inv, TypeOK, LoopType, MoneyType, RemoteType, OwnLimitType, PaidInv, Long
  <2> QED BY <2>1, <2>2, <2>3, MaxLongAssumption DEF Long
<1>5. m \in [Streams -> Long]
  BY <1>4 DEF MoneyFrames
<1>6. MoneyType'
  <2>1. held' \in [Streams -> Long]
    BY <1>2, <1>4 DEF _holdOutgoing
  <2>2. holds' \in [Streams -> [0 .. MaxSequence -> Long]]
    <3> SUFFICES ASSUME NEW s \in Streams
                 PROVE  holds'[s] \in [0 .. MaxSequence -> Long]
      BY <1>2 DEF _holdOutgoing
    <3>1. holds[s] \in [0 .. MaxSequence -> Long] /\ m[s] \in Long
      BY <1>1, <1>4 DEF MoneyType
    <3>2. holds'[s] = IF m[s] > 0 THEN [holds[s] EXCEPT ![nextSequence] = m[s]] ELSE holds[s]
      BY <1>2 DEF _holdOutgoing
    <3> QED BY <3>1, <3>2
  <2> QED BY <1>1, <1>3, <2>1, <2>2 DEF MoneyType
<1>7. LoopType'
  <2>1. /\ sending' \in BOOLEAN /\ loop' \in {"idle", "connecting", "tick", "waiting", "backoff"}
    BY <1>1, <1>2 DEF LoopType, SendUnlessEmpty, Continue
  <2>2. request' \in [seq : 0 .. MaxSequence, money : [Streams -> Long], amount : Long,
                     closes : SUBSET Streams]
    <3>1. \/ request' = request
          \/ request' = [seq |-> nextSequence, money |-> m, amount |-> amount,
                          closes |-> queuedCloses]
      BY <1>2 DEF SendUnlessEmpty
    <3>2. queuedCloses \in SUBSET Streams
      BY <1>1 DEF LoopType
    <3> QED BY <1>1, <1>3, <1>5, <3>1, <3>2 DEF LoopType
  <2> QED BY <1>1, <1>3, <2>1, <2>2, SenderAssumption DEF LoopType
<1>8. StreamType' /\ RemoteType' /\ OwnLimitType'
  BY <1>1, <1>3 DEF StreamType, RemoteType, OwnLimitType, streamVars, remoteVars
<1>9. PaidInv'
  <2> SUFFICES ASSUME NEW s \in Streams
               PROVE  /\ paid'[s] + Pending(s)' <= totalSent'[s] + held'[s]
                      /\ loop' = "waiting" => holds'[s][request'.seq] = request'.money[s]
                      /\ \A n \in nextSequence' .. MaxSequence : holds'[s][n] = 0
    BY <1>3, <1>4 DEF PaidInv, Inv
  <2>1. loop # "waiting" /\ Pending(s) = 0
    BY DEF loadAndSendPacket, Pending
  <2>2. /\ totalSent[s] \in Nat /\ held[s] \in Nat /\ paid[s] \in Nat /\ m[s] \in Nat
        /\ paid[s] <= totalSent[s] + held[s]
    BY <1>1, <1>4, <2>1, MaxLongAssumption DEF MoneyType, Inv, PaidInv, Long
  <2>3. held'[s] = held[s] + m[s]
    BY <1>2 DEF _holdOutgoing
  <2>6. \A n \in nextSequence' .. MaxSequence : holds'[s][n] = 0
    <3> SUFFICES ASSUME NEW n \in nextSequence + 1 .. MaxSequence
                 PROVE  holds'[s][n] = 0
      BY <1>3
    <3>1. holds[s][n] = 0 /\ n # nextSequence
      BY <1>3, SenderAssumption DEF Inv, PaidInv
    <3>2. holds[s] \in [0 .. MaxSequence -> Long] /\ n \in 0 .. MaxSequence
      BY <1>1, <1>3, SenderAssumption DEF MoneyType
    <3> QED BY <1>2, <3>1, <3>2 DEF _holdOutgoing
  <2>4. CASE loop' = "waiting"
    <3>1. request' = [seq |-> nextSequence, money |-> m, amount |-> amount, closes |-> queuedCloses]
      BY <1>2, <2>4 DEF SendUnlessEmpty, Continue
    <3>2. Pending(s)' = m[s]
      BY <2>4, <3>1 DEF Pending
    <3>3. holds'[s][nextSequence] = m[s]
      <4>1. holds[s] \in [0 .. MaxSequence -> Long] /\ holds[s][nextSequence] = 0
        BY <1>1, <1>3, SenderAssumption DEF MoneyType, Inv, PaidInv
      <4>2. holds'[s] = IF m[s] > 0 THEN [holds[s] EXCEPT ![nextSequence] = m[s]] ELSE holds[s]
        BY <1>2 DEF _holdOutgoing
      <4>3. CASE m[s] > 0
        BY <1>3, <4>1, <4>2, <4>3
      <4>4. CASE ~(m[s] > 0)
        BY <2>2, <4>1, <4>2, <4>4
      <4> QED BY <4>3, <4>4
    <3> QED BY <1>3, <2>2, <2>3, <2>6, <3>1, <3>2, <3>3
  <2>5. CASE loop' # "waiting"
    BY <1>3, <2>2, <2>3, <2>5, <2>6 DEF Pending
  <2> QED BY <2>4, <2>5
<1> QED BY <1>6, <1>7, <1>8, <1>9 DEF Inv, TypeOK

\* What holds of a stream while its packet is under way.
LEMMA UnderWay ==
  ASSUME Inv, loop = "waiting", NEW s \in Streams
  PROVE  /\ totalSent[s] \in Nat /\ held[s] \in Nat /\ paid[s] \in Nat
         /\ request.money[s] \in Nat /\ request.seq \in 0 .. MaxSequence
         /\ holds[s] \in [0 .. MaxSequence -> Long] /\ holds[s][request.seq] = request.money[s]
         /\ totalSent[s] <= paid[s] /\ paid[s] + request.money[s] <= totalSent[s] + held[s]
         /\ totalSent[s] + held[s] <= peak[s] /\ peak[s] \in 0 .. MaxLong /\ request.money[s] \in Long
         /\ sendMax[s] <= peak[s] /\ 2 * peak[s] <= MaxLong
         /\ \A n \in nextSequence .. MaxSequence : holds[s][n] = 0
<1>1. LoopType /\ MoneyType /\ OwnLimitType /\ PaidInv
  BY DEF Inv, TypeOK
<1>2. Pending(s) = request.money[s]
  BY DEF Pending
<1>3. request.money[s] \in Long /\ request.seq \in 0 .. MaxSequence
  BY <1>1 DEF LoopType
<1>4. /\ totalSent[s] \in Long /\ held[s] \in Long /\ paid[s] \in Nat /\ peak[s] \in Long
      /\ holds[s] \in [0 .. MaxSequence -> Long]
  BY <1>1 DEF MoneyType, OwnLimitType
<1> QED BY <1>1, <1>2, <1>3, <1>4, MaxLongAssumption DEF PaidInv, Long

\* A rejected packet gives back what it held, of the streams that are still recorded.
LEMMA CancelKeeps ==
  ASSUME Inv, loop = "waiting", CancelHolds, UNCHANGED <<sendMax, peak, nextSequence>>,
         loop' # "waiting"
  PROVE  MoneyType' /\ PaidInv'
<1> DEFINE back(s) == IF recorded(s) /\ holds[s][request.seq] # 0 THEN holds[s][request.seq] ELSE 0
<1>1. ASSUME NEW s \in Streams
      PROVE  /\ held'[s] = held[s] - back(s) /\ back(s) \in 0 .. request.money[s]
             /\ holds'[s] = IF back(s) # 0 THEN [holds[s] EXCEPT ![request.seq] = 0] ELSE holds[s]
  <2>1. held[s] \in Nat /\ holds[s][request.seq] = request.money[s] /\ request.money[s] \in Nat
    BY UnderWay
  <2>2. held'[s] = held[s] - back(s)
    BY <2>1 DEF CancelHolds, HeldFor
  <2>3. holds'[s] = IF back(s) # 0 THEN [holds[s] EXCEPT ![request.seq] = 0] ELSE holds[s]
    BY <2>1 DEF CancelHolds, HeldFor
  <2> QED BY <2>1, <2>2, <2>3
<1>2. UNCHANGED <<totalSent, connectionSent, paid>>
  BY DEF CancelHolds
<1>3. ASSUME NEW s \in Streams
      PROVE  /\ held'[s] \in Long /\ holds'[s] \in [0 .. MaxSequence -> Long]
             /\ totalSent[s] <= paid[s] /\ paid[s] <= totalSent[s] + held'[s]
             /\ totalSent[s] + held'[s] <= peak[s]
             /\ \A n \in nextSequence .. MaxSequence : holds'[s][n] = 0
  <2>1. /\ totalSent[s] \in Nat /\ held[s] \in Nat /\ paid[s] \in Nat /\ request.money[s] \in Nat
        /\ totalSent[s] <= paid[s] /\ paid[s] + request.money[s] <= totalSent[s] + held[s]
        /\ totalSent[s] + held[s] <= peak[s] /\ peak[s] \in 0 .. MaxLong
    BY UnderWay
  <2>2. held'[s] = held[s] - back(s) /\ back(s) \in 0 .. request.money[s]
    BY <1>1
  <2>3. held'[s] \in Long /\ paid[s] <= totalSent[s] + held'[s] /\ totalSent[s] + held'[s] <= peak[s]
    <3> HIDE DEF back
    <3> QED BY <2>1, <2>2, MaxLongAssumption DEF Long
  <2>4. /\ holds[s] \in [0 .. MaxSequence -> Long] /\ request.seq \in 0 .. MaxSequence
        /\ \A n \in nextSequence .. MaxSequence : holds[s][n] = 0
    BY UnderWay
  <2>5. nextSequence \in 1 .. MaxSequence /\ 0 \in Long
    BY MaxLongAssumption DEF Inv, TypeOK, LoopType, Long
  <2>6. /\ holds'[s] \in [0 .. MaxSequence -> Long]
        /\ \A n \in nextSequence .. MaxSequence : holds'[s][n] = 0
    <3>1. holds'[s] = holds[s] \/ holds'[s] = [holds[s] EXCEPT ![request.seq] = 0]
      <4> HIDE DEF back
      <4> QED BY <1>1
    <3>2. \A n \in nextSequence .. MaxSequence : n \in 0 .. MaxSequence
      BY <2>5, SenderAssumption
    <3>3. CASE holds'[s] = [holds[s] EXCEPT ![request.seq] = 0]
      <4> DEFINE h == holds[s]
      <4>1. holds'[s] = [h EXCEPT ![request.seq] = 0]
        BY <3>3
      <4> HIDE DEF h
      <4>2. h \in [0 .. MaxSequence -> Long] /\ \A n \in nextSequence .. MaxSequence : h[n] = 0
        BY <2>4 DEF h
      <4> QED BY <2>4, <2>5, <3>2, <4>1, <4>2
    <3> QED BY <2>4, <3>1, <3>3
  <2> QED BY <2>1, <2>3, <2>6
<1>4. MoneyType'
  <2>1. held' \in [Streams -> Long] /\ holds' \in [Streams -> [0 .. MaxSequence -> Long]]
    BY <1>3 DEF CancelHolds
  <2> QED BY <1>2, <2>1 DEF MoneyType, Inv, TypeOK
<1>5. PaidInv'
  <2> SUFFICES ASSUME NEW s \in Streams
               PROVE  /\ paid'[s] + Pending(s)' <= totalSent'[s] + held'[s]
                      /\ totalSent'[s] + held'[s] <= peak'[s]
                      /\ \A n \in nextSequence' .. MaxSequence : holds'[s][n] = 0
    BY <1>2 DEF PaidInv, Inv
  <2>1. Pending(s)' = 0
    BY DEF Pending
  <2>2. paid[s] \in Nat
    BY UnderWay
  <2> QED BY <1>2, <1>3, <2>1, <2>2
<1> QED BY <1>4, <1>5

\* A fulfilled packet turns what it held into what is sent.
LEMMA ExecuteKeeps ==
  ASSUME Inv, loop = "waiting", NEW isCounted \in BOOLEAN, ExecuteHolds(isCounted),
         UNCHANGED <<sendMax, peak, nextSequence>>,
         loop' # "waiting"
  PROVE  MoneyType' /\ PaidInv'
<1>1. ASSUME NEW s \in Streams
      PROVE  /\ held'[s] = held[s] - request.money[s]
             /\ totalSent'[s] = totalSent[s] + request.money[s]
             /\ paid'[s] = paid[s] + request.money[s]
             /\ holds'[s] = [holds[s] EXCEPT ![request.seq] = 0]
  <2>1. /\ held[s] \in Nat /\ totalSent[s] \in Nat /\ request.money[s] \in Nat
        /\ holds[s][request.seq] = request.money[s]
        /\ holds[s] \in [0 .. MaxSequence -> Long] /\ request.seq \in 0 .. MaxSequence
    BY UnderWay
  <2>2. /\ held'[s] = held[s] - (IF request.money[s] > 0 THEN holds[s][request.seq] ELSE 0)
        /\ totalSent'[s] = totalSent[s] + (IF request.money[s] > 0 THEN holds[s][request.seq] ELSE 0)
        /\ paid'[s] = paid[s] + request.money[s]
    BY DEF ExecuteHolds, HeldFor
  <2>3. holds'[s] = [holds[s] EXCEPT ![request.seq] = IF request.money[s] > 0 THEN 0
                                                      ELSE holds[s][request.seq]]
    BY DEF ExecuteHolds
  <2>4. (IF request.money[s] > 0 THEN 0 ELSE holds[s][request.seq]) = 0
    BY <2>1
  <2>5. (IF request.money[s] > 0 THEN holds[s][request.seq] ELSE 0) = request.money[s]
    BY <2>1
  <2> QED BY <2>2, <2>3, <2>4, <2>5
<1>2. ASSUME NEW s \in Streams
      PROVE  /\ held'[s] \in Long /\ totalSent'[s] \in Long /\ paid'[s] \in Nat
             /\ totalSent'[s] <= paid'[s] /\ paid'[s] <= totalSent'[s] + held'[s]
             /\ totalSent'[s] + held'[s] <= peak[s]
  <2>1. /\ totalSent[s] \in Nat /\ held[s] \in Nat /\ paid[s] \in Nat /\ request.money[s] \in Nat
        /\ totalSent[s] <= paid[s] /\ paid[s] + request.money[s] <= totalSent[s] + held[s]
        /\ totalSent[s] + held[s] <= peak[s] /\ peak[s] \in 0 .. MaxLong
    BY UnderWay
  <2>2. /\ held'[s] = held[s] - request.money[s]
        /\ totalSent'[s] = totalSent[s] + request.money[s]
        /\ paid'[s] = paid[s] + request.money[s]
    BY <1>1
  <2> QED BY <2>1, <2>2, MaxLongAssumption DEF Long
<1>3. ASSUME NEW s \in Streams
      PROVE  /\ holds'[s] \in [0 .. MaxSequence -> Long]
             /\ \A n \in nextSequence .. MaxSequence : holds'[s][n] = 0
  <2> DEFINE h == holds[s]
  <2>1. holds'[s] = [h EXCEPT ![request.seq] = 0]
    BY <1>1
  <2>2. nextSequence \in 1 .. MaxSequence /\ 0 \in Long
    BY MaxLongAssumption DEF Inv, TypeOK, LoopType, Long
  <2>3. /\ h \in [0 .. MaxSequence -> Long] /\ \A n \in nextSequence .. MaxSequence : h[n] = 0
        /\ request.seq \in 0 .. MaxSequence
    BY UnderWay DEF h
  <2> HIDE DEF h
  <2>4. \A n \in nextSequence .. MaxSequence : n \in 0 .. MaxSequence
    BY <2>2, SenderAssumption
  <2> QED BY <2>1, <2>2, <2>3, <2>4
<1>4. connectionSent' \in Long
  <2>1. connectionSent \in Long /\ request.amount \in Long
    BY DEF Inv, TypeOK, MoneyType, LoopType
  <2>2. checkedAdd(connectionSent, request.amount).sum = SaturatingSum(connectionSent, request.amount)
    BY <2>1, CheckedAddSaturates
  <2> QED BY <2>1, <2>2, CheckedAddSaturates DEF ExecuteHolds, addTotalSent
<1>5. MoneyType'
  <2>1. /\ held' \in [Streams -> Long] /\ totalSent' \in [Streams -> Long]
        /\ paid' \in [Streams -> Nat] /\ holds' \in [Streams -> [0 .. MaxSequence -> Long]]
    BY <1>2, <1>3 DEF ExecuteHolds
  <2> QED BY <1>4, <2>1 DEF MoneyType
<1>6. PaidInv'
  <2> SUFFICES ASSUME NEW s \in Streams
               PROVE  /\ totalSent'[s] <= paid'[s]
                      /\ paid'[s] + Pending(s)' <= totalSent'[s] + held'[s]
                      /\ totalSent'[s] + held'[s] <= peak'[s]
                      /\ \A n \in nextSequence' .. MaxSequence : holds'[s][n] = 0
    BY DEF PaidInv, Inv
  <2>1. Pending(s)' = 0
    BY DEF Pending
  <2> QED BY <1>2, <1>3, <2>1
<1> QED BY <1>5, <1>6

\* Where nothing is undone, what was paid stays held.
LEMMA KeepKeeps ==
  ASSUME Inv, loop = "waiting", UNCHANGED <<totalSent, held, holds, connectionSent>>,
         \/ paid' = paid
         \/ paid' = [s \in Streams |-> paid[s] + request.money[s]],
         UNCHANGED <<sendMax, peak, nextSequence>>, loop' # "waiting"
  PROVE  MoneyType' /\ PaidInv'
<1>1. ASSUME NEW s \in Streams
      PROVE  /\ paid'[s] \in Nat /\ totalSent[s] <= paid'[s] /\ paid'[s] <= totalSent[s] + held[s]
  <2>1. /\ totalSent[s] \in Nat /\ held[s] \in Nat /\ paid[s] \in Nat /\ request.money[s] \in Nat
        /\ totalSent[s] <= paid[s] /\ paid[s] + request.money[s] <= totalSent[s] + held[s]
    BY UnderWay
  <2>2. paid'[s] = paid[s] \/ paid'[s] = paid[s] + request.money[s]
    OBVIOUS
  <2> QED BY <2>1, <2>2
<1>2. MoneyType'
  <2>1. paid' \in [Streams -> Nat]
    BY <1>1 DEF Inv, TypeOK, MoneyType
  <2> QED BY <2>1 DEF Inv, TypeOK, MoneyType
<1>3. PaidInv'
  <2> SUFFICES ASSUME NEW s \in Streams
               PROVE  totalSent[s] <= paid'[s] /\ paid'[s] + Pending(s)' <= totalSent[s] + held[s]
    BY DEF PaidInv, Inv
  <2>1. Pending(s)' = 0
    BY DEF Pending
  <2> QED BY <1>1, <2>1
<1> QED BY <1>2, <1>3

-----------------------------------------------------------------------------
\* Every answer keeps the invariant.
LEMMA RespondKeeps ==
  ASSUME Inv, NEW r \in Answers, Respond(r)
  PROVE  Inv'
<1>1. LoopType /\ StreamType /\ MoneyType /\ RemoteType /\ OwnLimitType /\ PaidInv
  BY DEF Inv, TypeOK
<1>2. loop = "waiting" /\ IsAnswer(r) /\ sendMax' = sendMax /\ peak' = peak
  BY SenderAssumption DEF Respond
<1>3. request.closes \in SUBSET Streams
  BY <1>1 DEF LoopType
<1>4. OwnLimitType'
  BY <1>1, <1>2 DEF OwnLimitType
<1>5. CASE r.code = "fulfill"
  <2>a. Fulfilled(r.limits, r.closes) \/ TotalOverflows(r.limits, r.closes)
    BY <1>5 DEF Respond
  <2>b. CASE TotalOverflows(r.limits, r.closes)
    <3>1. LoopType' /\ loop' # "waiting" /\ UNCHANGED nextSequence
      BY <1>1, <2>b DEF LoopType, TotalOverflows
    <3>2. StreamType'
      BY <1>1, <2>b DEF StreamType, TotalOverflows
    <3>3. RemoteType'
      BY <1>1, <1>2, <1>5, <2>b, TakeLimitsKeeps DEF TotalOverflows, IsAnswer
    <3>4. MoneyType' /\ PaidInv'
      BY <1>2, <2>b, <3>1, ExecuteKeeps DEF TotalOverflows
    <3> QED BY <1>4, <3>1, <3>2, <3>3, <3>4 DEF Inv, TypeOK
  <2>c. CASE Fulfilled(r.limits, r.closes)
    <3>2. IsLimits(r.limits)
      BY <1>2, <1>5 DEF IsAnswer
    <3>3. LoopType' /\ loop' # "waiting" /\ UNCHANGED nextSequence
      <4> DEFINE goesOn == sending \/ PeerCloses(r.closes) # {} \/ Wakes(r.limits, held)
      <4>1. goesOn \in BOOLEAN
        BY <1>1 DEF LoopType
      <4>2. Continue(goesOn)
        BY <2>c DEF Fulfilled
      <4> HIDE DEF goesOn
      <4> QED BY <1>1, <1>3, <2>c, <4>1, <4>2 DEF LoopType, Fulfilled, Continue
    <3>4. StreamType'
      BY <1>1, <2>c, LifeAfterKeeps DEF Fulfilled
    <3>5. RemoteType'
      BY <1>1, <2>c, <3>2, TakeLimitsKeeps DEF Fulfilled
    <3>6. MoneyType' /\ PaidInv'
      BY <1>2, <2>c, <3>3, ExecuteKeeps DEF Fulfilled
    <3> QED BY <1>4, <3>3, <3>4, <3>5, <3>6 DEF Inv, TypeOK
  <2> QED BY <2>a, <2>b, <2>c
<1>6. CASE r.code = "F99"
  <2>1. Rejected(r.limits, r.closes)
    BY <1>6 DEF Respond
  <2>2. IsLimits(r.limits)
    BY <1>2, <1>6 DEF IsAnswer
  <2>3. LoopType' /\ loop' # "waiting" /\ UNCHANGED nextSequence
    <3> DEFINE goesOn == sending \/ PeerCloses(r.closes) # {} \/ Wakes(r.limits, held')
    <3>1. goesOn \in BOOLEAN
      BY <1>1 DEF LoopType
    <3>2. Continue(goesOn)
      BY <2>1 DEF Rejected
    <3> HIDE DEF goesOn
    <3> QED BY <1>1, <1>3, <2>1, <3>1, <3>2 DEF LoopType, Rejected, Continue
  <2>4. StreamType'
    BY <1>1, <2>1, LifeAfterKeeps DEF Rejected
  <2>5. RemoteType'
    BY <1>1, <2>1, <2>2, TakeLimitsKeeps DEF Rejected
  <2>6. MoneyType' /\ PaidInv'
    BY <1>2, <2>1, <2>3, CancelKeeps DEF Rejected
  <2> QED BY <1>4, <2>3, <2>4, <2>5, <2>6 DEF Inv, TypeOK
<1>7. CASE r.code = "bare"
  <2>1. RejectedBare
    BY <1>7 DEF Respond
  <2>2. LoopType' /\ loop' # "waiting" /\ UNCHANGED nextSequence
    BY <1>1, <1>3, <2>1 DEF LoopType, RejectedBare, Continue
  <2>3. StreamType'
    BY <1>1, <2>1, LifeAfterKeeps DEF RejectedBare
  <2>4. MoneyType' /\ PaidInv'
    BY <1>2, <2>1, <2>2, CancelKeeps DEF RejectedBare
  <2>5. RemoteType'
    BY <1>1, <2>1 DEF RemoteType, RejectedBare, remoteVars
  <2> QED BY <1>4, <2>2, <2>3, <2>4, <2>5 DEF Inv, TypeOK
<1>8. CASE r.code = "T"
  <2>1. RejectedTemporarily
    BY <1>8 DEF Respond
  <2>2. LoopType' /\ loop' # "waiting" /\ UNCHANGED nextSequence
    BY <1>1, <1>3, <2>1 DEF LoopType, RejectedTemporarily
  <2>3. StreamType' /\ RemoteType'
    BY <1>1, <2>1 DEF StreamType, RemoteType, RejectedTemporarily, remoteVars, streamVars
  <2>4. MoneyType' /\ PaidInv'
    BY <1>2, <2>1, <2>2, CancelKeeps DEF RejectedTemporarily
  <2> QED BY <1>4, <2>2, <2>3, <2>4 DEF Inv, TypeOK
<1>9. CASE r.code = "F00"
  <2>1. RejectedFinally
    BY <1>9 DEF Respond
  <2>2. queuedCloses \cup request.closes \in SUBSET Streams
    BY <1>1, <1>3 DEF LoopType
  <2>3. LoopType' /\ StreamType' /\ loop' # "waiting"
    BY <1>1, <2>1, <2>2, DestroyKeeps DEF RejectedFinally
  <2>4. UNCHANGED nextSequence
    BY <2>1 DEF RejectedFinally, Destroy
  <2>5. MoneyType' /\ PaidInv'
    BY <1>2, <2>1, <2>3, <2>4, CancelKeeps DEF RejectedFinally
  <2>6. RemoteType'
    BY <1>1, <2>1 DEF RemoteType, RejectedFinally, remoteVars
  <2> QED BY <1>4, <2>3, <2>5, <2>6 DEF Inv, TypeOK
<1>10. CASE r.code = "noData"
  <2>1. FulfilledBare
    BY <1>10 DEF Respond
  <2>2. LoopType' /\ loop' # "waiting" /\ UNCHANGED nextSequence
    BY <1>1, <2>1 DEF LoopType, FulfilledBare, Continue
  <2>3. StreamType'
    BY <1>1, <2>1, LifeAfterKeeps DEF FulfilledBare
  <2>4. MoneyType' /\ PaidInv'
    BY <1>2, <2>1, <2>2, KeepKeeps DEF FulfilledBare
  <2>5. RemoteType'
    BY <1>1, <2>1 DEF RemoteType, FulfilledBare, remoteVars
  <2> QED BY <1>4, <2>2, <2>3, <2>4, <2>5 DEF Inv, TypeOK
<1>11. CASE r.code = "broken"
  <2>1. Broken(r.paid)
    BY <1>11 DEF Respond
  <2>2. queuedCloses \in SUBSET Streams
    BY <1>1 DEF LoopType
  <2>3. LoopType' /\ StreamType' /\ loop' # "waiting"
    BY <1>1, <2>1, <2>2, DestroyKeeps DEF Broken
  <2>4. UNCHANGED nextSequence
    BY <2>1 DEF Broken, Destroy
  <2>5. MoneyType' /\ PaidInv'
    BY <1>2, <2>1, <2>3, <2>4, KeepKeeps DEF Broken
  <2>6. RemoteType'
    BY <1>1, <2>1 DEF RemoteType, Broken, remoteVars
  <2> QED BY <1>4, <2>3, <2>5, <2>6 DEF Inv, TypeOK
<1> QED BY <1>2, <1>5, <1>6, <1>7, <1>8, <1>9, <1>10, <1>11 DEF IsAnswer

\* Every step keeps the invariant.
LEMMA NextKeeps ==
  ASSUME Inv, [Next]_vars
  PROVE  Inv'
<1>1. LoopType /\ StreamType /\ MoneyType /\ RemoteType /\ OwnLimitType /\ PaidInv
  BY DEF Inv, TypeOK
<1>2. ASSUME LoopType', StreamType', RemoteType', loop' = "waiting" => loop = "waiting",
             UNCHANGED moneyVars, UNCHANGED <<sendMax, peak, request, nextSequence>>
      PROVE  Inv'
  BY <1>1, <1>2, MoneyUntouched DEF Inv, TypeOK, MoneyType, OwnLimitType, moneyVars
<1>3. CASE setupExchangeRate
  <2>1. LoopType' /\ StreamType' /\ loop' # "waiting" /\ UNCHANGED <<request, nextSequence>>
    <3>1. queuedCloses \in SUBSET Streams
      BY <1>1 DEF LoopType
    <3>2. CASE Destroy(queuedCloses)
      BY <1>1, <3>1, <3>2, DestroyKeeps DEF Destroy
    <3>3. CASE ~Destroy(queuedCloses)
      BY <1>1, <1>3, <3>3
      DEF setupExchangeRate, LoopType, StreamType, Continue, LoopFinished
    <3> QED BY <3>2, <3>3
  <2> QED BY <1>1, <1>2, <1>3, <2>1 DEF setupExchangeRate, RemoteType, remoteVars
<1>4. CASE TooManyPackets
  <2>1. queuedCloses \in SUBSET Streams /\ Destroy(queuedCloses)
    BY <1>1, <1>4 DEF LoopType, TooManyPackets
  <2>2. LoopType' /\ StreamType' /\ loop' # "waiting" /\ UNCHANGED <<request, nextSequence>>
    BY <1>1, <2>1, DestroyKeeps DEF Destroy
  <2> QED BY <1>1, <1>2, <1>4, <2>2 DEF TooManyPackets, RemoteType, remoteVars
<1>5. CASE BackoffOver
  <2>1. StreamType'
    BY <1>1, <1>5, LifeAfterKeeps DEF BackoffOver
  <2>2. LoopType' /\ loop' # "waiting"
    BY <1>1, <1>5 DEF BackoffOver, LoopType, Continue
  <2> QED BY <1>1, <1>2, <1>5, <2>1, <2>2 DEF BackoffOver, RemoteType, remoteVars
<1>6. ASSUME NEW limit \in PacketLimits, NEW other \in BOOLEAN, loadAndSendPacket(limit, other)
      PROVE  Inv'
  BY <1>6, LoadKeeps
<1>7. ASSUME NEW r \in Answers, Respond(r)
      PROVE  Inv'
  BY <1>7, RespondKeeps
<1>8. ASSUME NEW limits \in PeerLimits, PeerAnnounces(limits)
      PROVE  Inv'
  <2>1. IsLimits(limits) /\ TakeLimits(limits)
    BY <1>8, SenderAssumption DEF PeerAnnounces
  <2>2. RemoteType'
    BY <1>1, <2>1, TakeLimitsKeeps
  <2>3. /\ LoopType' /\ (loop' = "waiting" => loop = "waiting")
        /\ UNCHANGED <<request, nextSequence>>
    <3>1. \/ startSendLoop /\ UNCHANGED queuedCloses
          \/ UNCHANGED loopVars
      BY <1>8 DEF PeerAnnounces
    <3>2. queuedCloses \in SUBSET Streams
      BY <1>1 DEF LoopType
    <3>3. CASE startSendLoop /\ UNCHANGED queuedCloses
      BY <1>1, <3>2, <3>3, StartSendLoopKeeps DEF startSendLoop
    <3>4. CASE UNCHANGED loopVars
      BY <1>1, <3>4 DEF loopVars, LoopType
    <3> QED BY <3>1, <3>3, <3>4
  <2> QED BY <1>1, <1>2, <1>8, <2>2, <2>3 DEF PeerAnnounces, StreamType, streamVars
<1>9. ASSUME NEW s \in Streams, NEW limit \in SendLimits, setSendMax(s, limit)
      PROVE  Inv'
  <2>1. /\ isOpen(s) /\ totalSent[s] <= limit /\ limit \in Long /\ 2 * limit <= MaxLong
        /\ sendMax' = [sendMax EXCEPT ![s] = limit]
        /\ peak' = [peak EXCEPT ![s] = maxLong(peak[s], limit)]
        /\ queuedCloses' = queuedCloses /\ startSendLoop
        /\ UNCHANGED streamVars /\ UNCHANGED moneyVars /\ UNCHANGED remoteVars
    BY <1>9, SenderAssumption DEF setSendMax
  <2>2. LoopType' /\ (loop' = "waiting" => loop = "waiting") /\ UNCHANGED <<request, nextSequence>>
    <3>1. queuedCloses' \in SUBSET Streams
      BY <1>1, <2>1 DEF LoopType
    <3> QED BY <1>1, <2>1, <3>1, StartSendLoopKeeps DEF startSendLoop
  <2>3. ASSUME NEW t \in Streams
        PROVE  /\ sendMax'[t] \in Long /\ peak'[t] \in Long
               /\ sendMax'[t] <= peak'[t] /\ 2 * peak'[t] <= MaxLong /\ peak[t] <= peak'[t]
    <3>1. /\ sendMax[t] \in Long /\ peak[t] \in Long
          /\ sendMax[t] <= peak[t] /\ 2 * peak[t] <= MaxLong
      BY <1>1 DEF OwnLimitType, PaidInv
    <3>2. CASE t = s
      <4>1. sendMax'[t] = limit /\ peak'[t] = maxLong(peak[t], limit)
        BY <1>1, <2>1, <3>2 DEF OwnLimitType
      <4> QED BY <2>1, <3>1, <4>1, MaxLongAssumption DEF maxLong, Long
    <3>3. CASE t # s
      BY <1>1, <2>1, <3>1, <3>3, MaxLongAssumption DEF OwnLimitType, Long
    <3> QED BY <3>2, <3>3
  <2>4. OwnLimitType'
    BY <1>1, <2>1, <2>3 DEF OwnLimitType
  <2>5. PaidInv'
    <3> SUFFICES ASSUME NEW t \in Streams
                 PROVE  /\ paid'[t] + Pending(t)' <= totalSent'[t] + held'[t]
                        /\ totalSent'[t] + held'[t] <= peak'[t]
      BY <1>1, <2>1, <2>2, <2>3 DEF PaidInv, moneyVars
    <3>1. /\ paid[t] \in Nat /\ totalSent[t] \in Nat /\ held[t] \in Nat /\ peak[t] \in Nat
          /\ request.money[t] \in Nat
          /\ paid[t] + Pending(t) <= totalSent[t] + held[t] /\ totalSent[t] + held[t] <= peak[t]
      BY <1>1, MaxLongAssumption DEF MoneyType, OwnLimitType, LoopType, PaidInv, Long
    <3>2. Pending(t) \in Nat /\ Pending(t)' \in Nat /\ Pending(t)' <= Pending(t)
      BY <2>2, <3>1 DEF Pending
    <3>3. paid'[t] = paid[t] /\ totalSent'[t] = totalSent[t] /\ held'[t] = held[t]
      BY <2>1 DEF moneyVars
    <3>4. peak'[t] \in Nat /\ peak[t] <= peak'[t]
      BY <2>3, MaxLongAssumption DEF Long
    <3> QED BY <3>1, <3>2, <3>3, <3>4
  <2>6. StreamType' /\ MoneyType' /\ RemoteType'
    BY <1>1, <2>1 DEF StreamType, MoneyType, RemoteType, streamVars, moneyVars, remoteVars
  <2> QED BY <2>2, <2>4, <2>5, <2>6 DEF Inv, TypeOK
<1>10. ASSUME NEW s \in Streams, end(s) \/ destroy(s)
       PROVE  Inv'
  <2>1. StreamType' /\ UNCHANGED loopVars
    BY <1>1, <1>10 DEF end, destroy, StreamType
  <2>2. LoopType' /\ UNCHANGED <<loop, request, nextSequence>>
    BY <1>1, <2>1 DEF LoopType, loopVars
  <2> QED BY <1>1, <1>2, <1>10, <2>1, <2>2 DEF end, destroy, RemoteType, remoteVars
<1>11. ASSUME NEW s \in Streams, removeStreamRecord(s)
       PROVE  Inv'
  <2>1. StreamType'
    BY <1>1, <1>11 DEF removeStreamRecord, StreamType
  <2>2. /\ LoopType' /\ (loop' = "waiting" => loop = "waiting")
        /\ UNCHANGED <<request, nextSequence>>
    <3>1. CASE sentEnd[s]
      BY <1>1, <1>11, <3>1 DEF removeStreamRecord, LoopType, loopVars
    <3>2. CASE ~sentEnd[s]
      <4>1. queuedCloses' \in SUBSET Streams /\ startSendLoop
        BY <1>1, <1>11, <3>2 DEF removeStreamRecord, LoopType
      <4> QED BY <1>1, <4>1, StartSendLoopKeeps DEF startSendLoop
    <3> QED BY <3>1, <3>2
  <2> QED BY <1>1, <1>2, <1>11, <2>1, <2>2 DEF removeStreamRecord, RemoteType, remoteVars
<1>14. CASE WakeUp
  <2>1. /\ LoopType' /\ (loop' = "waiting" => loop = "waiting")
        /\ UNCHANGED <<request, nextSequence>>
    <3>1. queuedCloses' \in SUBSET Streams /\ startSendLoop
      BY <1>1, <1>14 DEF WakeUp, LoopType
    <3> QED BY <1>1, <3>1, StartSendLoopKeeps DEF startSendLoop
  <2> QED BY <1>1, <1>2, <1>14, <2>1 DEF WakeUp, StreamType, RemoteType, streamVars, remoteVars
<1>15. CASE destroyConnection
  <2>1. LoopType' /\ StreamType' /\ UNCHANGED <<loop, request, nextSequence>>
    BY <1>1, <1>15 DEF destroyConnection, LoopType, StreamType
  <2> QED BY <1>1, <1>2, <1>15, <2>1 DEF destroyConnection, RemoteType, remoteVars
<1>12. CASE ConnectionGone
  <2>1. LoopType' /\ StreamType' /\ UNCHANGED <<loop, request, nextSequence>>
    BY <1>1, <1>12 DEF ConnectionGone, LoopType, StreamType, streamVars
  <2> QED BY <1>1, <1>2, <1>12, <2>1 DEF ConnectionGone, RemoteType, remoteVars
<1>13. CASE UNCHANGED vars
  <2>1. LoopType' /\ StreamType' /\ RemoteType' /\ UNCHANGED <<loop, request, nextSequence>>
    BY <1>1, <1>13 DEF vars, loopVars, streamVars, remoteVars, LoopType, StreamType, RemoteType
  <2> QED BY <1>1, <1>2, <1>13, <2>1 DEF vars
<1> QED
  BY <1>3, <1>4, <1>5, <1>6, <1>7, <1>8, <1>9, <1>10, <1>11, <1>12, <1>13, <1>14, <1>15
  DEF Next, LoopStep, Application, RestOfConnection

LEMMA InitHolds == Init => Inv
<1> SUFFICES ASSUME Init
             PROVE  Inv
  OBVIOUS
<1>1. 0 \in Long /\ MaxLong \in Long
  BY MaxLongAssumption DEF Long
<1>2. NoMoney \in [Streams -> Long] /\ NoMoney \in [Streams -> Nat]
  BY <1>1 DEF NoMoney
<1>3. LoopType
  <2>1. 1 \in 1 .. MaxSequence /\ 0 \in 0 .. MaxSequence /\ {} \in SUBSET Streams
    BY SenderAssumption
  <2>2. [seq |-> 0, money |-> NoMoney, amount |-> 0, closes |-> {}]
          \in [seq : 0 .. MaxSequence, money : [Streams -> Long], amount : Long, closes : SUBSET Streams]
    BY <1>1, <1>2, <2>1
  <2> QED BY <2>1, <2>2 DEF Init, LoopType
<1>4. StreamType /\ RemoteType /\ OwnLimitType
  BY <1>1, <1>2 DEF Init, StreamType, RemoteType, OwnLimitType
<1>5. MoneyType
  BY <1>1, <1>2 DEF Init, MoneyType
<1>6. PaidInv
  BY <1>1, MaxLongAssumption, SenderAssumption DEF Init, NoMoney, PaidInv, Pending
<1> QED BY <1>3, <1>4, <1>5, <1>6 DEF Inv, TypeOK

\* For any streams, limits, exchange rate and answers, every amount is a Long and
\* every variable of the send loop keeps its type.
THEOREM SenderTypes == Spec => []TypeOK
<1>1. Inv => TypeOK
  BY DEF Inv
<1> QED BY InitHolds, NextKeeps, <1>1, PTL DEF Spec

\* For any number of packets and any answers, lost ones and fulfillments without data
\* included, no stream pays more than the largest sendMax it was given, and nothing
\* counts as sent that was not paid.
THEOREM PaidWithinLimitHolds == Spec => []PaidWithinLimit
<1>1. Inv => PaidWithinLimit
  <2> SUFFICES ASSUME Inv, NEW s \in Streams
               PROVE  /\ totalSent[s] <= paid[s] /\ paid[s] <= totalSent[s] + held[s]
                      /\ totalSent[s] + held[s] <= peak[s]
    BY DEF PaidWithinLimit
  <2>1. /\ totalSent[s] <= paid[s] /\ totalSent[s] + held[s] <= peak[s]
        /\ paid[s] + Pending(s) <= totalSent[s] + held[s]
    BY DEF Inv, PaidInv
  <2>2. paid[s] \in Nat /\ totalSent[s] \in Nat /\ held[s] \in Nat /\ Pending(s) \in Nat
    BY MaxLongAssumption DEF Inv, TypeOK, LoopType, MoneyType, Long, Pending
  <2> QED BY <2>1, <2>2
<1> QED BY InitHolds, NextKeeps, <1>1, PTL DEF Spec

-----------------------------------------------------------------------------
(* What a stream holds when the loop rests.                                 *)

\* A stream that is open was open before.
LEMMA OpenBefore ==
  ASSUME StreamType, [Next]_vars, NEW s \in Streams, isOpen(s)'
  PROVE  isOpen(s)
<1>1. CASE UNCHANGED life
  BY <1>1 DEF isOpen
<1>2. ASSUME NEW T, life' = [t \in Streams |-> IF t \in T THEN "closed" ELSE life[t]]
      PROVE  isOpen(s)
  BY <1>2 DEF isOpen
<1>3. ASSUME NEW closes, NEW goesOn, LifeAfter(closes, goesOn)
      PROVE  isOpen(s)
  <2>1. \E T : life' = [t \in Streams |-> IF t \in T THEN "closed" ELSE life[t]]
    <3>1. PICK waits : life' = [t \in Streams |->
             IF \/ t \in PeerCloses(closes) \ waits
                \/ life[t] = "ending" /\ (~goesOn \/ AllSent(t)) THEN "closed" ELSE life[t]]
      BY <1>3 DEF LifeAfter
    <3> DEFINE T == {t \in Streams : \/ t \in PeerCloses(closes) \ waits
                                     \/ life[t] = "ending" /\ (~goesOn \/ AllSent(t))}
    <3>2. life' = [t \in Streams |-> IF t \in T THEN "closed" ELSE life[t]]
      BY <3>1
    <3> QED BY <3>2
  <2> QED BY <1>2, <2>1
<1>4. CASE life' = [t \in Streams |-> IF isOpen(t) THEN "closed" ELSE life[t]]
  BY <1>4 DEF isOpen
<1>5. CASE LoopFinished
  BY <1>5 DEF LoopFinished, isOpen
<1>6. ASSUME NEW t \in Streams, end(t) \/ destroy(t) \/ removeStreamRecord(t)
      PROVE  isOpen(s)
  BY <1>6 DEF end, destroy, removeStreamRecord, StreamType, isOpen
<1>7. CASE LoopStep
  BY <1>1, <1>3, <1>4, <1>5, <1>7
  DEF LoopStep, setupExchangeRate, TooManyPackets, BackoffOver, loadAndSendPacket, Destroy, streamVars
<1>8. ASSUME NEW r \in Answers, Respond(r)
      PROVE  isOpen(s)
  <2>1. \/ UNCHANGED life
        \/ life' = [t \in Streams |-> IF isOpen(t) THEN "closed" ELSE life[t]]
        \/ \E closes, goesOn : LifeAfter(closes, goesOn)
    BY <1>8, SenderAssumption
    DEF Respond, IsAnswer, Fulfilled, TotalOverflows, Rejected, RejectedBare, RejectedTemporarily,
        RejectedFinally, FulfilledBare, Broken, Destroy, streamVars
  <2> QED BY <1>1, <1>3, <1>4, <2>1
<1>9. CASE Application
  BY <1>1, <1>6, <1>9 DEF Application, setSendMax, streamVars
<1>10. ASSUME NEW limits \in PeerLimits, PeerAnnounces(limits)
       PROVE  isOpen(s)
  BY <1>1, <1>10 DEF PeerAnnounces, streamVars
<1>11. CASE RestOfConnection
  BY <1>1, <1>4, <1>11 DEF RestOfConnection, WakeUp, destroyConnection, ConnectionGone, streamVars
<1>12. CASE UNCHANGED vars
  BY <1>1, <1>12 DEF vars, streamVars
<1> QED BY <1>7, <1>8, <1>9, <1>10, <1>11, <1>12 DEF Next

\* What a rejected packet gives back.
LEMMA CancelMoves ==
  ASSUME Inv, loop = "waiting", CancelHolds, NEW s \in Streams
  PROVE  /\ held'[s] = IF recorded(s) THEN held[s] - request.money[s] ELSE held[s]
         /\ totalSent'[s] = totalSent[s] /\ paid'[s] = paid[s]
<1>1. held[s] \in Nat /\ holds[s][request.seq] = request.money[s] /\ request.money[s] \in Nat
  BY UnderWay
<1> QED BY <1>1 DEF CancelHolds, HeldFor

\* What a fulfilled one moves from what is held to what is sent.
LEMMA ExecuteMoves ==
  ASSUME Inv, loop = "waiting", NEW isCounted \in BOOLEAN, ExecuteHolds(isCounted), NEW s \in Streams
  PROVE  /\ held'[s] = held[s] - request.money[s]
         /\ totalSent'[s] = totalSent[s] + request.money[s]
         /\ paid'[s] = paid[s] + request.money[s]
<1>1. /\ held[s] \in Nat /\ totalSent[s] \in Nat /\ request.money[s] \in Nat
      /\ holds[s][request.seq] = request.money[s]
  BY UnderWay
<1> QED BY <1>1 DEF ExecuteHolds, HeldFor

\* Of an open stream everything that is held is paid and not counted, or in the packet
\* that is under way.
ExactInv ==
  \A s \in Streams : isOpen(s) => paid[s] + Pending(s) = totalSent[s] + held[s]

\* No stream is open once the loop is left by an error.
LEMMA NoneOpen ==
  ASSUME life' = [t \in Streams |-> IF isOpen(t) THEN "closed" ELSE life[t]], NEW s \in Streams
  PROVE  ~isOpen(s)'
BY DEF isOpen

LEMMA ExactRespond ==
  ASSUME Inv, ExactInv, NEW r \in Answers, Respond(r), NEW s \in Streams, isOpen(s), isOpen(s)'
  PROVE  paid'[s] + Pending(s)' = totalSent'[s] + held'[s]
<1>1. /\ loop = "waiting" /\ recorded(s)
      /\ totalSent[s] \in Nat /\ held[s] \in Nat /\ paid[s] \in Nat /\ request.money[s] \in Nat
      /\ paid[s] + request.money[s] = totalSent[s] + held[s]
  BY UnderWay DEF Respond, isOpen, recorded, ExactInv, Pending
<1>2. CASE life' # [t \in Streams |-> IF isOpen(t) THEN "closed" ELSE life[t]]
  <2>1. \/ r.code = "fulfill" /\ Fulfilled(r.limits, r.closes)
        \/ r.code = "F99" /\ Rejected(r.limits, r.closes)
        \/ r.code = "bare" /\ RejectedBare
        \/ r.code = "T" /\ RejectedTemporarily
        \/ r.code = "noData" /\ FulfilledBare
    BY <1>2, SenderAssumption
    DEF Respond, IsAnswer, TotalOverflows, RejectedFinally, Broken, Destroy
  <2>2. Pending(s)' = 0
    BY <2>1 DEF Fulfilled, Rejected, RejectedBare, RejectedTemporarily, FulfilledBare, Continue, Pending
  <2>3. CASE Fulfilled(r.limits, r.closes)
    <3>1. /\ held'[s] = held[s] - request.money[s]
          /\ totalSent'[s] = totalSent[s] + request.money[s]
          /\ paid'[s] = paid[s] + request.money[s]
      BY <1>1, <2>3, ExecuteMoves DEF Fulfilled
    <3> QED BY <1>1, <2>2, <3>1
  <2>4. CASE CancelHolds
    <3>1. /\ held'[s] = held[s] - request.money[s]
          /\ totalSent'[s] = totalSent[s] /\ paid'[s] = paid[s]
      BY <1>1, <2>4, CancelMoves
    <3> QED BY <1>1, <2>2, <3>1
  <2>5. CASE FulfilledBare
    <3>1. paid'[s] = paid[s] + request.money[s] /\ held'[s] = held[s] /\ totalSent'[s] = totalSent[s]
      BY <2>5 DEF FulfilledBare
    <3> QED BY <1>1, <2>2, <3>1
  <2> QED BY <2>1, <2>3, <2>4, <2>5 DEF Rejected, RejectedBare, RejectedTemporarily
<1> QED BY <1>2, NoneOpen

LEMMA ExactStep ==
  ASSUME Inv, ExactInv, [Next]_vars
  PROVE  ExactInv'
<1> SUFFICES ASSUME NEW s \in Streams, isOpen(s)'
             PROVE  paid'[s] + Pending(s)' = totalSent'[s] + held'[s]
  BY DEF ExactInv
<1>1. /\ StreamType /\ isOpen(s) /\ recorded(s) /\ paid[s] + Pending(s) = totalSent[s] + held[s]
      /\ totalSent[s] \in Nat /\ held[s] \in Nat /\ paid[s] \in Nat /\ request.money[s] \in Nat
  BY OpenBefore, MaxLongAssumption
  DEF Inv, TypeOK, MoneyType, LoopType, ExactInv, isOpen, recorded, Long
<1>2. ASSUME NEW r \in Answers, Respond(r)
      PROVE  paid'[s] + Pending(s)' = totalSent'[s] + held'[s]
  BY <1>1, <1>2, ExactRespond
<1>3. ASSUME NEW limit \in PacketLimits, NEW other \in BOOLEAN, loadAndSendPacket(limit, other)
      PROVE  paid'[s] + Pending(s)' = totalSent'[s] + held'[s]
  <2>1. PICK m \in MoneyFrames(LimitFor(limit)), amount \in Long :
          _holdOutgoing(m) /\ SendUnlessEmpty(m, amount, other)
    BY <1>3 DEF loadAndSendPacket
  <2>2. /\ held'[s] = held[s] + m[s] /\ paid' = paid /\ totalSent' = totalSent /\ Pending(s) = 0
        /\ m[s] \in Nat
    BY <1>3, <2>1 DEF _holdOutgoing, loadAndSendPacket, Pending, MoneyFrames
  <2>3. loop' = "waiting" /\ request'.money = m
    <3>1. ~ \A t \in Streams : ~isOpen(t)
      BY <1>1
    <3>2. /\ loop' = "waiting"
          /\ request' = [seq |-> nextSequence, money |-> m, amount |-> amount,
                         closes |-> queuedCloses]
      BY <2>1, <3>1 DEF SendUnlessEmpty
    <3> QED BY <3>2
  <2> QED BY <1>1, <2>2, <2>3 DEF Pending
<1>4. CASE UNCHANGED <<totalSent, held, paid>> /\ UNCHANGED request
           /\ (loop' = "waiting" <=> loop = "waiting")
  BY <1>1, <1>4 DEF Pending
<1>5. \/ /\ UNCHANGED <<totalSent, held, paid>> /\ UNCHANGED request
         /\ (loop' = "waiting" <=> loop = "waiting")
      \/ \E limit \in PacketLimits, other \in BOOLEAN : loadAndSendPacket(limit, other)
      \/ \E r \in Answers : Respond(r)
      \/ life' = [t \in Streams |-> IF isOpen(t) THEN "closed" ELSE life[t]]
  <2>1. CASE LoopStep
    BY <2>1 DEF LoopStep, setupExchangeRate, TooManyPackets, BackoffOver, Destroy, Continue, moneyVars
  <2>2. CASE Application
    BY <2>2 DEF Application, setSendMax, end, destroy, removeStreamRecord, startSendLoop,
                moneyVars, loopVars
  <2>3. ASSUME NEW limits \in PeerLimits, PeerAnnounces(limits)
        PROVE  UNCHANGED <<totalSent, held, paid>> /\ UNCHANGED request
               /\ (loop' = "waiting" <=> loop = "waiting")
    BY <2>3 DEF PeerAnnounces, startSendLoop, moneyVars, loopVars
  <2>4. CASE RestOfConnection
    BY <2>4 DEF RestOfConnection, WakeUp, destroyConnection, ConnectionGone, startSendLoop, moneyVars
  <2>5. CASE UNCHANGED vars
    BY <2>5 DEF vars, moneyVars, loopVars
  <2> QED BY <2>1, <2>2, <2>3, <2>4, <2>5 DEF Next
<1> QED BY <1>2, <1>3, <1>4, <1>5, NoneOpen

LEMMA ExactInit == Init => ExactInv
<1> SUFFICES ASSUME Init, NEW s \in Streams
             PROVE  paid[s] + Pending(s) = totalSent[s] + held[s]
  BY DEF ExactInv
<1>1. paid[s] = 0 /\ totalSent[s] = 0 /\ held[s] = 0 /\ Pending(s) = 0
  BY DEF Init, NoMoney, Pending
<1> QED BY <1>1

\* Whatever the answers are, the loop never rests on an open stream with a hold that is
\* neither executed nor cancelled, but for fulfillments without data.
THEOREM NoStrandedHoldHolds == Spec => []NoStrandedHold
<1>1. Inv /\ ExactInv => NoStrandedHold
  <2> SUFFICES ASSUME Inv, ExactInv, loop = "idle", NEW s \in Streams, isOpen(s)
               PROVE  held[s] = paid[s] - totalSent[s]
    BY DEF NoStrandedHold
  <2>1. /\ paid[s] \in Nat /\ totalSent[s] \in Nat /\ held[s] \in Nat
        /\ paid[s] + Pending(s) = totalSent[s] + held[s] /\ Pending(s) = 0
    BY MaxLongAssumption DEF Inv, TypeOK, MoneyType, ExactInv, Pending, Long
  <2> QED BY <2>1
<1>2. Inv /\ ExactInv /\ [Next]_vars => (Inv /\ ExactInv)'
  BY NextKeeps, ExactStep
<1>3. Init => Inv /\ ExactInv
  BY InitHolds, ExactInit
<1> QED BY <1>1, <1>2, <1>3, PTL DEF Spec

-----------------------------------------------------------------------------
(* The loop does not rest on money that could be sent.                      *)

\* Packets can carry money: the largest that is tried is not empty, nor what the rate lets
\* through.  An F08 without data that answers a packet of 2 makes the congestion
\* controller try packets of 0, for which nothing below holds.
PathTakesMoney == 0 \notin PacketLimits /\ RateNum <= MaxLong * RateDen

\* There is money left exactly if what is sent and held is below the limit.
LEMMA AvailableIfLeft ==
  ASSUME NEW max \in Nat, NEW sent \in Nat, NEW h \in Nat,
         2 * max <= MaxLong, 2 * sent <= MaxLong, 2 * h <= MaxLong
  PROVE  /\ Available(max, sent, h) \in Int
         /\ Available(max, sent, h) > 0 <=> sent + h < max
<1> DEFINE left == checkedSubtract(max, sent).difference
<1>1. max \in Long /\ sent \in Long /\ h \in Long
  BY MaxLongAssumption DEF Long
<1>2. left = IF sent <= max THEN max - sent ELSE 0
  BY <1>1, SubtractBelowHalf
<1>3. left \in Long /\ 2 * left <= MaxLong
  BY <1>1, <1>2, MaxLongAssumption DEF Long
<1>4. checkedSubtract(left, h).difference = IF h <= left THEN left - h ELSE 0
  <2> HIDE DEF left
  <2> QED BY <1>1, <1>3, SubtractBelowHalf
<1> QED BY <1>2, <1>3, <1>4, MaxLongAssumption DEF Available, Long

\* The limits that PaidInv keeps are those where that is so.
LEMMA MoneyBelowHalf ==
  ASSUME Inv, NEW s \in Streams
  PROVE  /\ sendMax[s] \in Nat /\ totalSent[s] \in Nat /\ held[s] \in Nat
         /\ 2 * sendMax[s] <= MaxLong /\ 2 * totalSent[s] <= MaxLong /\ 2 * held[s] <= MaxLong
         /\ remoteReceiveMax[s] \in Long /\ remoteReceived[s] \in Long
BY MaxLongAssumption DEF Inv, TypeOK, MoneyType, RemoteType, OwnLimitType, PaidInv, Long

SendableIfLeft ==
  \A s \in Streams : Sendable(s) <=> /\ ~sentEnd[s] /\ remoteReceiveMax[s] > remoteReceived[s]
                                     /\ totalSent[s] + held[s] < sendMax[s]

LEMMA Left == Inv => SendableIfLeft
BY MoneyBelowHalf, AvailableIfLeft DEF SendableIfLeft, Sendable

\* If the peer takes any of the money of a stream, a unit of it or more may be sent.
LEMMA SourceAmountPositive ==
  ASSUME Inv, NEW s \in Streams, remoteReceiveMax[s] > remoteReceived[s]
  PROVE  MaxSourceAmount(s) \in Nat \ {0}
<1> DEFINE gap == checkedSubtract(remoteReceiveMax[s], remoteReceived[s]).difference
           x == gap * RateDen
<1>1. remoteReceiveMax[s] \in Long /\ remoteReceived[s] \in Long
  BY MoneyBelowHalf
<1>2. gap \in Nat \ {0}
  <2>1. /\ subtract(remoteReceiveMax[s], remoteReceived[s]) = remoteReceiveMax[s] - remoteReceived[s]
    BY <1>1, SubtractBorrows, MaxLongAssumption DEF Long
  <2> QED BY <1>1, <2>1, MaxLongAssumption DEF checkedSubtract, Long
<1>3. x \in Nat \ {0} /\ RateNum \in Nat \ {0} /\ RateDen \in Nat \ {0}
  <2> HIDE DEF gap
  <2> QED BY <1>2, SenderAssumption
<1>4. (x + RateNum - 1) \div RateNum \in Nat \ {0}
  <2> HIDE DEF x
  <2> DEFINE y == x + RateNum - 1
  <2>1. y \in Nat /\ 1 * RateNum + 0 <= y
    BY <1>3
  <2> HIDE DEF y
  <2>2. 1 <= y \div RateNum
    BY <1>3, <2>1, QuotientBound
  <2> QED BY <1>3, <2>1, <2>2, Division DEF y
<1>5. MaxSourceAmount(s) = minLong((x + RateNum - 1) \div RateNum, MaxLong)
  BY DEF MaxSourceAmount, Ceil
<1> HIDE DEF x
<1> QED BY <1>4, <1>5, MaxLongAssumption DEF minLong

\* The packet has room, whatever it is limited to.
LEMMA RoomInPacket ==
  ASSUME PathTakesMoney, NEW limit \in PacketLimits
  PROVE  LimitFor(limit) \in Nat \ {0}
<1>1. limit \in Nat \ {0}
  BY SenderAssumption, MaxLongAssumption DEF PathTakesMoney, Long
<1> DEFINE x == MaxLong * RateDen
<1>2. x \in Nat /\ RateNum \in Nat \ {0} /\ 1 * RateNum + 0 <= x
  BY SenderAssumption, MaxLongAssumption DEF PathTakesMoney
<1>3. x \div RateNum \in Nat \ {0}
  <2> HIDE DEF x
  <2>1. 1 <= x \div RateNum
    BY <1>2, QuotientBound
  <2> QED BY <1>2, <2>1, Division
<1>4. Floor(MaxLong, RateDen, RateNum) = x \div RateNum
  BY DEF Floor
<1> HIDE DEF x
<1> QED BY <1>1, <1>3, <1>4 DEF LimitFor, minLong

\* A packet that carries nothing leaves nothing that could be sent on an open stream.
LEMMA EmptyPacket ==
  ASSUME Inv, PathTakesMoney, NEW limit \in PacketLimits, NEW m \in MoneyFrames(LimitFor(limit)),
         SumFunction(m) = 0, NEW s \in Streams
  PROVE  m[s] = 0 /\ (isOpen(s) => ~Sendable(s))
<1>1. /\ m \in [Streams -> Nat] /\ DOMAIN m = Streams /\ IsFiniteSet(Streams)
      /\ \A t \in Streams : m[t] \in Nat
  BY SenderAssumption DEF MoneyFrames
<1>2. \A t \in Streams : m[t] = 0
  <2> SUFFICES ASSUME NEW t \in Streams PROVE m[t] = 0
    OBVIOUS
  <2>1. m[t] <= SumFunctionOnSet(m, Streams)
    BY <1>1, SumBoundsPart
  <2> QED BY <1>1, <2>1 DEF SumFunction
<1>3. SUFFICES ASSUME isOpen(s), Sendable(s) PROVE FALSE
  BY <1>2
<1> DEFINE before == {t \in Streams : t < s}
           avail  == _getAmountAvailableToSend(s)
           room   == LimitFor(limit) - SumFunctionOnSet(m, before)
<1>4. SumFunctionOnSet(m, before) = 0
  <2>1. IsFiniteSet(before)
    BY <1>1, FS_Subset
  <2>2. \A t \in Streams : m[t] \in {0}
    BY <1>2
  <2>3. SumFunctionOnSet(m, before) \in {0}
    <3>1. 0 \in {0} /\ \A x, y \in {0} : x + y \in {0}
      OBVIOUS
    <3>2. \A t \in before : m[t] \in {0}
      BY <2>2
    <3> HIDE DEF before
    <3> QED BY <2>1, <3>1, <3>2, SumInSet
  <2> QED BY <2>3
<1>5. room \in Nat \ {0}
  BY <1>4, RoomInPacket
<1>6. MaxSourceAmount(s) \in Nat \ {0} /\ ~sentEnd[s] /\ recorded(s)
  BY <1>3, SourceAmountPositive DEF Sendable, isOpen, recorded
<1>7. avail \in Nat \ {0}
  <2>1. avail = Available(sendMax[s], totalSent[s], held[s])
    BY <1>3 DEF _getAmountAvailableToSend
  <2> QED BY <1>3, <2>1, AvailableIsLeft DEF Sendable
<1>8. m[s] = minLong(minLong(avail, MaxSourceAmount(s)), room)
  BY <1>6 DEF MoneyFrames
<1> HIDE DEF room, avail, before
<1> QED BY <1>2, <1>5, <1>6, <1>7, <1>8 DEF minLong

\* The loop is over or about to be, and can be started.
Resting == (loop = "idle" \/ ~sending) /\ connected /\ ~destroyed

\* The inductive invariant: a loop that has not been told to go on is past its last packet,
\* which carried no money, and no stream has had any since.
RestInv ==
  /\ loop \in {"tick", "waiting", "backoff"} => connected
  /\ loop \in {"connecting", "tick"} => sending
  /\ remoteGone => destroyed
  /\ loop = "waiting" /\ ~sending => \A s \in Streams : request.money[s] = 0
  /\ Resting => \A s \in Streams : isOpen(s) => ~Sendable(s)

\* What a step does: at rest, the streams that were open could not send.
StepRests ==
  /\ loop' \in {"tick", "waiting", "backoff"} => connected'
  /\ loop' \in {"connecting", "tick"} => sending'
  /\ remoteGone' => destroyed'
  /\ loop' = "waiting" /\ ~sending' => \A s \in Streams : request'.money[s] = 0
  /\ Resting' => \A s \in Streams : isOpen(s) => ~Sendable(s)'

\* Where no money comes back and no limit is raised, nothing becomes sendable.
LEMMA StaysUnsendable ==
  ASSUME Inv, Inv', NEW s \in Streams, ~Sendable(s), sentEnd[s] => sentEnd'[s],
         sendMax'[s] = sendMax[s], totalSent'[s] + held'[s] = totalSent[s] + held[s],
         UNCHANGED remoteVars
  PROVE  ~Sendable(s)'
<1>1. SendableIfLeft /\ SendableIfLeft'
  BY Left, PTL
<1> QED BY <1>1 DEF SendableIfLeft, remoteVars

\* New limits of the peer make nothing sendable either, unless they start the loop.
LEMMA NotWoken ==
  ASSUME Inv, Inv', NEW s \in Streams, isOpen(s), ~Sendable(s), sentEnd[s] => sentEnd'[s],
         sendMax'[s] = sendMax[s], totalSent'[s] + held'[s] = totalSent[s] + held[s],
         NEW limits, IsLimits(limits), TakeLimits(limits),
         NEW h, h[s] = held[s], ~Wakes(limits, h)
  PROVE  ~Sendable(s)'
<1>1. SendableIfLeft /\ SendableIfLeft'
  BY Left, PTL
<1>2. CASE s \in DOMAIN limits
  <2>1. \/ ~(remoteReceiveMax'[s] > remoteReceived'[s])
        \/ ~(Available(sendMax[s], totalSent[s], held[s]) > 0)
    BY <1>2 DEF Wakes
  <2>2. Available(sendMax[s], totalSent[s], held[s]) > 0 <=> totalSent[s] + held[s] < sendMax[s]
    BY MoneyBelowHalf, AvailableIfLeft
  <2> QED BY <1>1, <2>1, <2>2 DEF SendableIfLeft
<1>3. CASE s \notin DOMAIN limits
  <2>1. remoteReceived'[s] = remoteReceived[s] /\ remoteReceiveMax'[s] = remoteReceiveMax[s]
    BY <1>3 DEF TakeLimits
  <2> QED BY <1>1, <2>1 DEF SendableIfLeft
<1> QED BY <1>2, <1>3

\* A step that moves no money and takes in no limits: it is enough that the loop does not
\* come to rest by it.
LEMMA QuietRests ==
  ASSUME Inv, Inv', RestInv, UNCHANGED <<sendMax, totalSent, held, request, remoteVars>>,
         \A s \in Streams : sentEnd[s] => sentEnd'[s],
         loop' \in {"tick", "waiting", "backoff"} => connected',
         loop' \in {"connecting", "tick"} => sending', remoteGone' => destroyed',
         loop' = "waiting" /\ ~sending' => loop = "waiting" /\ ~sending,
         Resting' => Resting
  PROVE  StepRests
<1>1. ASSUME Resting', NEW s \in Streams, isOpen(s)
      PROVE  ~Sendable(s)'
  <2>1. ~Sendable(s)
    BY <1>1 DEF RestInv
  <2>2. totalSent'[s] + held'[s] = totalSent[s] + held[s] /\ sendMax'[s] = sendMax[s]
    OBVIOUS
  <2>3. sentEnd[s] => sentEnd'[s]
    OBVIOUS
  <2> QED BY <2>1, <2>2, <2>3, StaysUnsendable
<1> QED BY <1>1 DEF StepRests, RestInv

\* Once the end of a stream was sent or received, it stays so.
LEMMA SentEndGrows ==
  ASSUME StreamType, [Next]_vars, NEW s \in Streams, sentEnd[s]
  PROVE  sentEnd'[s]
<1>1. CASE UNCHANGED sentEnd
  BY <1>1
<1>2. ASSUME NEW closes, sentEnd' = [t \in Streams |-> sentEnd[t] \/ t \in PeerCloses(closes)]
      PROVE  sentEnd'[s]
  BY <1>2
<1>3. ASSUME NEW t \in Streams, sentEnd' = [sentEnd EXCEPT ![t] = TRUE]
      PROVE  sentEnd'[s]
  BY <1>3 DEF StreamType
<1>4. CASE LoopStep
  <2>1. UNCHANGED sentEnd \/ \E closes : sentEnd' = [t \in Streams |-> sentEnd[t] \/ t \in PeerCloses(closes)]
    BY <1>4 DEF LoopStep, setupExchangeRate, TooManyPackets, BackoffOver, LifeAfter, loadAndSendPacket,
                Destroy, streamVars
  <2> QED BY <1>1, <1>2, <2>1
<1>5. ASSUME NEW r \in Answers, Respond(r)
      PROVE  sentEnd'[s]
  <2>1. UNCHANGED sentEnd \/ \E closes : sentEnd' = [t \in Streams |-> sentEnd[t] \/ t \in PeerCloses(closes)]
    BY <1>5, SenderAssumption
    DEF Respond, IsAnswer, Fulfilled, TotalOverflows, Rejected, RejectedBare, RejectedTemporarily,
        RejectedFinally, FulfilledBare, Broken, Destroy, LifeAfter, streamVars
  <2> QED BY <1>1, <1>2, <2>1
<1>6. CASE Application
  <2>1. UNCHANGED sentEnd \/ \E t \in Streams : sentEnd' = [sentEnd EXCEPT ![t] = TRUE]
    BY <1>6 DEF Application, setSendMax, end, destroy, removeStreamRecord, streamVars
  <2> QED BY <1>1, <1>3, <2>1
<1>7. CASE \E limits \in PeerLimits : PeerAnnounces(limits)
  BY <1>1, <1>7 DEF PeerAnnounces, streamVars
<1>8. CASE RestOfConnection
  BY <1>1, <1>8 DEF RestOfConnection, WakeUp, destroyConnection, ConnectionGone, streamVars
<1>9. CASE UNCHANGED vars
  BY <1>1, <1>9 DEF vars, streamVars
<1> QED BY <1>4, <1>5, <1>6, <1>7, <1>8, <1>9 DEF Next

\* Nor does the loop come to rest by being started.
LEMMA StartRests ==
  ASSUME RestInv, startSendLoop
  PROVE  StepRests
BY DEF RestInv, startSendLoop, StepRests, Resting

LEMMA RespondRests ==
  ASSUME Inv, Inv', RestInv, NEW r \in Answers, Respond(r)
  PROVE  StepRests
<1>1. [Next]_vars /\ loop = "waiting" /\ connected /\ (remoteGone => destroyed) /\ StreamType
  BY DEF Next, Respond, RestInv, Inv, TypeOK
<1>2. CASE loop' = "idle" /\ destroyed' /\ remoteGone' = remoteGone
  BY <1>2 DEF StepRests, Resting
<1>3. SUFFICES ASSUME ~(loop' = "idle" /\ destroyed' /\ remoteGone' = remoteGone)
               PROVE  StepRests
  BY <1>2
<1>4. \/ r.code = "fulfill" /\ Fulfilled(r.limits, r.closes)
      \/ r.code = "F99" /\ Rejected(r.limits, r.closes)
      \/ r.code = "bare" /\ RejectedBare
      \/ r.code = "T" /\ RejectedTemporarily
      \/ r.code = "noData" /\ FulfilledBare
  BY <1>3, SenderAssumption
  DEF Respond, IsAnswer, TotalOverflows, RejectedFinally, Broken, Destroy
<1>5. /\ loop' \in {"tick", "idle", "backoff"} /\ connected' = connected
      /\ loop' = "tick" => sending'
      /\ remoteGone' = remoteGone /\ destroyed' = destroyed
      /\ Resting' => ~sending /\ ~destroyed
  <2>1. /\ connected' = connected /\ remoteGone' = remoteGone /\ destroyed' = destroyed
        /\ \/ \E goesOn : (goesOn \/ ~sending) /\ Continue(goesOn)
           \/ loop' = "backoff" /\ sending' = sending
    <3>1. CASE Fulfilled(r.limits, r.closes)
      BY <3>1 DEF Fulfilled
    <3>2. CASE Rejected(r.limits, r.closes)
      BY <3>2 DEF Rejected
    <3>3. CASE RejectedBare \/ RejectedTemporarily \/ FulfilledBare
      BY <3>3 DEF RejectedBare, RejectedTemporarily, FulfilledBare
    <3> QED BY <1>4, <3>1, <3>2, <3>3
  <2> QED BY <2>1 DEF Continue, Resting
<1>6. ASSUME Resting', NEW s \in Streams, isOpen(s)
      PROVE  ~Sendable(s)'
  <2>1. ~Sendable(s) /\ request.money[s] = 0
    BY <1>1, <1>5, <1>6 DEF RestInv, Resting
  <2>2. sentEnd[s] => sentEnd'[s]
    BY <1>1, SentEndGrows
  <2>3. sendMax'[s] = sendMax[s]
    BY DEF Respond
  <2>4. totalSent[s] \in Nat /\ held[s] \in Nat /\ recorded(s)
    BY <1>6, MoneyBelowHalf DEF isOpen, recorded
  <2>5. ASSUME CancelHolds
        PROVE  held'[s] = held[s] /\ totalSent'[s] = totalSent[s]
    BY <1>1, <2>1, <2>4, <2>5, CancelMoves
  <2>6. CASE r.code = "fulfill" /\ Fulfilled(r.limits, r.closes)
    <3>1. held'[s] = held[s] /\ totalSent'[s] = totalSent[s]
      <4>1. ExecuteHolds(TRUE) /\ TRUE \in BOOLEAN
        BY <2>6 DEF Fulfilled
      <4>2. held'[s] = held[s] - request.money[s] /\ totalSent'[s] = totalSent[s] + request.money[s]
        BY <1>1, <4>1, ExecuteMoves
      <4> QED BY <2>1, <2>4, <4>2
    <3>2. ~Wakes(r.limits, held) /\ TakeLimits(r.limits) /\ IsLimits(r.limits)
      BY <1>6, <2>6, SenderAssumption DEF Fulfilled, Continue, Resting, IsAnswer
    <3> QED BY <1>6, <2>1, <2>2, <2>3, <3>1, <3>2, NotWoken
  <2>7. CASE r.code = "F99" /\ Rejected(r.limits, r.closes)
    <3>1. held'[s] = held[s] /\ totalSent'[s] = totalSent[s]
      BY <2>5, <2>7 DEF Rejected
    <3>2. ~Wakes(r.limits, held') /\ TakeLimits(r.limits) /\ IsLimits(r.limits)
      BY <1>6, <2>7, SenderAssumption DEF Rejected, Continue, Resting, IsAnswer
    <3> QED BY <1>6, <2>1, <2>2, <2>3, <3>1, <3>2, NotWoken
  <2>8. CASE CancelHolds /\ UNCHANGED remoteVars
    BY <2>1, <2>2, <2>3, <2>5, <2>8, StaysUnsendable
  <2>9. CASE FulfilledBare
    <3>1. held'[s] = held[s] /\ totalSent'[s] = totalSent[s] /\ UNCHANGED remoteVars
      BY <2>9 DEF FulfilledBare
    <3> QED BY <2>1, <2>2, <2>3, <3>1, StaysUnsendable
  <2> QED BY <1>4, <2>6, <2>7, <2>8, <2>9 DEF RejectedBare, RejectedTemporarily
<1> QED BY <1>1, <1>5, <1>6 DEF StepRests

LEMMA LoadRests ==
  ASSUME PathTakesMoney, Inv, Inv', RestInv, NEW limit \in PacketLimits, NEW other \in BOOLEAN,
         loadAndSendPacket(limit, other)
  PROVE  StepRests
<1>1. /\ [Next]_vars /\ loop = "tick" /\ sending /\ connected /\ (remoteGone => destroyed)
      /\ UNCHANGED <<connected, destroyed, remoteGone, sentEnd, sendMax, totalSent, remoteVars>>
  BY DEF Next, LoopStep, loadAndSendPacket, RestInv, streamVars
<1>2. PICK m \in MoneyFrames(LimitFor(limit)), amount \in Long :
        _holdOutgoing(m) /\ amount = SumFunction(m) /\ SendUnlessEmpty(m, amount, other)
  BY DEF loadAndSendPacket
<1>3. CASE amount = 0 /\ queuedCloses = {} /\ ~other /\ \A s \in Streams : ~isOpen(s)
  BY <1>1, <1>2, <1>3 DEF SendUnlessEmpty, Continue, StepRests
<1>4. CASE ~(amount = 0 /\ queuedCloses = {} /\ ~other /\ \A s \in Streams : ~isOpen(s))
  <2>1. /\ request'.money = m /\ loop' = "waiting"
        /\ sending' = IF amount = 0 /\ queuedCloses = {} THEN FALSE ELSE sending
    <3>1. /\ request' = [seq |-> nextSequence, money |-> m, amount |-> amount, closes |-> queuedCloses]
          /\ loop' = "waiting"
          /\ sending' = IF amount = 0 /\ queuedCloses = {} THEN FALSE ELSE sending
      BY <1>2, <1>4 DEF SendUnlessEmpty
    <3> QED BY <3>1
  <2>2. ASSUME ~sending', NEW s \in Streams
        PROVE  m[s] = 0 /\ (isOpen(s) => ~Sendable(s)')
    <3>1. m[s] = 0 /\ (isOpen(s) => ~Sendable(s))
      BY <1>1, <1>2, <2>1, <2>2, EmptyPacket
    <3>2. held[s] \in Nat /\ totalSent[s] \in Nat
      BY MoneyBelowHalf
    <3>3. held'[s] = held[s]
      BY <1>2, <3>1, <3>2 DEF _holdOutgoing
    <3> QED BY <1>1, <3>1, <3>2, <3>3, StaysUnsendable
  <2> QED BY <1>1, <2>1, <2>2 DEF StepRests, Resting
<1> QED BY <1>3, <1>4

LEMMA AnnounceRests ==
  ASSUME Inv, Inv', RestInv, NEW limits \in PeerLimits, PeerAnnounces(limits)
  PROVE  StepRests
<1>1. CASE startSendLoop
  BY <1>1, StartRests
<1>2. CASE ~Wakes(limits, held) /\ UNCHANGED loopVars
  <2>1. ASSUME Resting', NEW s \in Streams, isOpen(s)
        PROVE  ~Sendable(s)'
    <3>1. ~Sendable(s)
      BY <1>2, <2>1 DEF loopVars, Resting, RestInv
    <3>2. /\ IsLimits(limits) /\ TakeLimits(limits) /\ UNCHANGED <<sentEnd, sendMax, totalSent, held>>
      BY SenderAssumption DEF PeerAnnounces, streamVars, moneyVars
    <3> QED BY <1>2, <2>1, <3>1, <3>2, NotWoken
  <2> QED BY <1>2, <2>1 DEF loopVars, RestInv, StepRests
<1> QED BY <1>1, <1>2 DEF PeerAnnounces

LEMMA RestStep ==
  ASSUME PathTakesMoney, Inv, Inv', RestInv, [Next]_vars
  PROVE  StepRests
<1>1. \A s \in Streams : sentEnd[s] => sentEnd'[s]
  BY SentEndGrows DEF Inv, TypeOK
<1>2. CASE UNCHANGED <<loop, sending, connected, request>> /\ (destroyed => destroyed')
           /\ (remoteGone' => destroyed') /\ UNCHANGED <<sendMax, totalSent, held, remoteVars>>
  <2>1. Resting' => Resting
    BY <1>2 DEF Resting
  <2> QED BY <1>1, <1>2, <2>1, QuietRests DEF RestInv
<1>3. CASE setupExchangeRate \/ TooManyPackets
  BY <1>3 DEF setupExchangeRate, TooManyPackets, Destroy, Continue, RestInv, StepRests, Resting
<1>4. CASE BackoffOver
  <2>1. Resting' => Resting
    BY <1>4 DEF BackoffOver, Continue, Resting
  <2>2. /\ loop' = (IF sending THEN "tick" ELSE "idle") /\ sending' = sending
        /\ UNCHANGED <<sendMax, totalSent, held, request, remoteVars, connected, destroyed, remoteGone>>
    BY <1>4 DEF BackoffOver, Continue, moneyVars
  <2>3. connected /\ (remoteGone => destroyed)
    BY <1>4 DEF BackoffOver, RestInv
  <2> QED BY <1>1, <2>1, <2>2, <2>3, QuietRests
<1>5. CASE \E limit \in PacketLimits, other \in BOOLEAN : loadAndSendPacket(limit, other)
  BY <1>5, LoadRests
<1>6. CASE \E r \in Answers : Respond(r)
  BY <1>6, RespondRests
<1>7. CASE \E limits \in PeerLimits : PeerAnnounces(limits)
  BY <1>7, AnnounceRests
<1>8. CASE Application
  <2>1. CASE startSendLoop
    BY <2>1, StartRests
  <2>2. CASE UNCHANGED loopVars /\ UNCHANGED <<sendMax, totalSent, held, remoteVars>>
    BY <1>2, <2>2 DEF loopVars, RestInv
  <2> QED BY <1>8, <2>1, <2>2 DEF Application, setSendMax, end, destroy, removeStreamRecord, moneyVars
<1>9. CASE RestOfConnection
  <2>1. CASE WakeUp
    BY <2>1, StartRests DEF WakeUp
  <2>2. CASE destroyConnection \/ ConnectionGone
    BY <1>2, <2>2 DEF destroyConnection, ConnectionGone, moneyVars, RestInv
  <2> QED BY <1>9, <2>1, <2>2 DEF RestOfConnection
<1>10. CASE UNCHANGED vars
  BY <1>2, <1>10 DEF vars, loopVars, moneyVars, RestInv
<1> QED BY <1>3, <1>4, <1>5, <1>6, <1>7, <1>8, <1>9, <1>10 DEF Next, LoopStep

LEMMA RestKeeps ==
  ASSUME PathTakesMoney, Inv, Inv', RestInv, [Next]_vars
  PROVE  RestInv'
<1>1. StepRests
  BY RestStep
<1>2. ASSUME Resting', NEW s \in Streams, isOpen(s)'
      PROVE  ~Sendable(s)'
  BY <1>1, <1>2, OpenBefore DEF StepRests, Inv, TypeOK
<1> QED BY <1>1, <1>2 DEF StepRests, RestInv

LEMMA RestInit == Init => RestInv
BY DEF Init, RestInv, Resting

\* The inductive invariant of the two theorems below.
LEMMA AlwaysRests == ASSUME PathTakesMoney PROVE Spec => [](Inv /\ RestInv)
<1>1. Init => Inv /\ RestInv
  BY InitHolds, RestInit
<1>2. Inv /\ RestInv /\ [Next]_vars => (Inv /\ RestInv)'
  BY NextKeeps, RestKeeps
<1> QED BY <1>1, <1>2, PTL DEF Spec

\* The loop only comes to an end, but for errors, where the exchange rate is known.
LEMMA LoopEnds ==
  ASSUME RestInv, [Next]_vars, loop # "idle", loop' = "idle", ~destroyed'
  PROVE  connected'
<1>1. CASE startSendLoop \/ UNCHANGED loop
  BY <1>1 DEF startSendLoop
<1>2. CASE LoopStep
  BY <1>2 DEF LoopStep, setupExchangeRate, TooManyPackets, BackoffOver, loadAndSendPacket, Destroy,
              RestInv
<1>3. ASSUME NEW r \in Answers, Respond(r)
      PROVE  connected'
  BY <1>3, SenderAssumption
  DEF Respond, IsAnswer, Fulfilled, TotalOverflows, Rejected, RejectedBare, RejectedTemporarily,
      RejectedFinally, FulfilledBare, Broken, Destroy, RestInv
<1>4. CASE Application
  BY <1>1, <1>4 DEF Application, setSendMax, end, destroy, removeStreamRecord, loopVars
<1>5. CASE \E limits \in PeerLimits : PeerAnnounces(limits)
  BY <1>1, <1>5 DEF PeerAnnounces, loopVars
<1>6. CASE RestOfConnection
  BY <1>1, <1>6 DEF RestOfConnection, WakeUp, destroyConnection, ConnectionGone
<1>7. CASE UNCHANGED vars
  BY <1>7 DEF vars, loopVars
<1> QED BY <1>2, <1>3, <1>4, <1>5, <1>6, <1>7 DEF Next

\* No wake-up is lost: with any streams, limits and answers, the loop does not rest while
\* an open stream has money that the peer, as far as this side knows, would take.
THEOREM NoLostWakeUpHolds == ASSUME PathTakesMoney PROVE Spec => []NoLostWakeUp
<1>1. RestInv => NoLostWakeUp
  BY DEF RestInv, Resting, NoLostWakeUp
<1> QED BY <1>1, AlwaysRests, PTL

\* A stream that was ended is closed by the end of the loop only when all its money is sent
\* or the peer takes no more.
THEOREM EndSendsFirstHolds == ASSUME PathTakesMoney PROVE Spec => EndSendsFirst
<1> DEFINE Sent == \A s \in Streams :
             life[s] = "ending" /\ life'[s] = "closed" /\ loop # "idle" /\ loop' = "idle" /\ ~destroyed'
             => ~Sendable(s)'
<1>1. ASSUME Inv, Inv', RestInv, [Next]_vars
      PROVE  [Sent]_vars
  <2>1. SUFFICES ASSUME NEW s \in Streams, life[s] = "ending", life'[s] = "closed",
                        loop # "idle", loop' = "idle", ~destroyed'
                 PROVE  ~Sendable(s)'
    OBVIOUS
  <2>2. StepRests /\ isOpen(s)
    BY <1>1, <2>1, RestStep DEF isOpen
  <2>3. connected'
    BY <1>1, <2>1, LoopEnds
  <2> QED BY <2>1, <2>2, <2>3 DEF StepRests, Resting
<1> QED BY <1>1, AlwaysRests, PTL DEF Spec, EndSendsFirst
=============================================================================
