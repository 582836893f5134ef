-------------------------- MODULE MoneyTransferProofs --------------------------
(***************************************************************************)
(* A sender and a receiver together, for any streams, limits, exchange     *)
(* rate, width of Long and number of faults: what the sender knows of the  *)
(* receiver was true once, the two agree when nothing is under way, and    *)
(* every step of the transfer is one that Payment allows.                  *)
(***************************************************************************)
EXTENDS MoneyTransfer, LongArithProofs

Calls  == 1 .. MaxSequence
Stages == {"idle", "generating", "deciding", "fulfilled", "rejected"}
Limit  == [receiveMax : Long, totalReceived : Long]

\* Between the arrival of a packet and its answer.
InHand(p) == stage[p] \in {"generating", "deciding"}

\* The kinds of values that matter here.
Types ==
  /\ loop \in {"idle", "connecting", "tick", "waiting", "backoff"}
  /\ connected \in BOOLEAN /\ destroyed \in BOOLEAN /\ peerDestroyed \in BOOLEAN
  /\ nextSequence \in Calls
  /\ request.seq \in 0 .. MaxSequence /\ request.money \in [Streams -> Long] /\ request.amount \in Long
  /\ life \in [Streams -> {"open", "ending", "closed"}]
  /\ totalSent \in [Streams -> Long] /\ sendMax \in [Streams -> Long] /\ peak \in [Streams -> Long]
  /\ held \in [Streams -> Int] /\ holds \in [Streams -> [0 .. MaxSequence -> Long]]
  /\ remoteReceived \in [Streams -> Long] /\ remoteReceiveMax \in [Streams -> Long]
  /\ stage \in [Calls -> Stages] /\ DOMAIN response = Calls /\ DOMAIN packet = Calls
  /\ status \in [Streams -> {"new", "open", "closed"}]
  /\ receiveMax \in [Streams -> Long] /\ received \in [Streams -> Long]
  /\ totalReceived \in Long /\ incomingHold \in Long

\* The loops: an end that failed stays failed, and has sent a packet before.
LoopInv ==
  /\ loop = "connecting" => ~connected
  /\ loop = "waiting" \/ destroyed => request.seq \in Calls
  /\ destroyed => loop = "idle" /\ \A s \in Streams : life[s] = "closed"
  /\ peerClosed = FALSE

\* One packet is under way at a time, and the answers are what the stages say.
PathInv ==
  /\ request.seq < nextSequence
  /\ \A p \in Calls :
       /\ nextSequence <= p => stage[p] = "idle"
       /\ InHand(p) => p = request.seq /\ (loop = "waiting" \/ destroyed)
       /\ InHand(p) => packet[p] = Prepare
       /\ response[p].code \in IF stage[p] = "fulfilled" THEN {"fulfill"}
                               ELSE IF stage[p] = "rejected" THEN {"F99", "F00"} ELSE {"none"}
       /\ InHand(p) /\ ~peerDestroyed => \A s \in Streams : status[s] = "open"
  /\ ~peerDestroyed => \A s \in Streams : status[s] # "closed"
  /\ peerDestroyed =>
       \/ destroyed
       \/ loop = "waiting" /\ stage[request.seq] = "rejected" /\ response[request.seq].code = "F00"

\* What limits say was true at some time.
Past(limits) ==
  /\ DOMAIN limits \subseteq Streams
  /\ \A s \in DOMAIN limits : /\ limits[s].totalReceived \in 0 .. received[s]
                              /\ limits[s].receiveMax \in 0 .. receiveMax[s]

NewsInv ==
  /\ KnowledgeIsPast
  /\ Past(announced)
  /\ \A p \in Calls : response[p].code \in {"fulfill", "F99"} => Past(response[p].limits)

\* Delivered, with an answer that the sender has not taken.
Delivered == loop = "waiting" /\ stage[request.seq] = "fulfilled"

BooksInv ==
  ~destroyed =>
    \A s \in Streams :
      IF Delivered
      THEN /\ s \in DOMAIN response[request.seq].limits
           /\ response[request.seq].limits[s].totalReceived = received[s]
      ELSE remoteReceived[s] = received[s]

\* The sender's money: all that is held is held for the packet under way.
HeldInv ==
  /\ \A s \in Streams :
       /\ sendMax[s] <= peak[s] /\ 2 * peak[s] <= MaxLong
       /\ totalSent[s] <= peak[s]
       /\ loop = "waiting" \/ destroyed => totalSent[s] + request.money[s] <= peak[s]
       /\ ~destroyed =>
            /\ held[s] = IF loop = "waiting" THEN request.money[s] ELSE 0
            /\ \A n \in 0 .. MaxSequence :
                 holds[s][n] = IF loop = "waiting" /\ n = request.seq THEN request.money[s] ELSE 0
  /\ request.amount = SumFunction(request.money)
  /\ Floor(request.amount, RateNum, RateDen) <= MaxLong

\* The receiver's: no total has reached MaxLong, and a packet that the application is asked
\* about will fit.
CreditInv ==
  /\ \A s \in Streams : /\ received[s] <= totalReceived
                        /\ received[s] <= Ceil(receiveMax[s], 101, 100)
  /\ \A p \in Calls :
       stage[p] = "deciding" =>
         /\ totalReceived + packet[p].amount <= MaxLong
         /\ \A s \in Streams : received[s] + Receiver!StreamAmount(packet[p], s)
                                 <= Ceil(receiveMax[s], 101, 100)

Inv == Types /\ LoopInv /\ PathInv /\ NewsInv /\ BooksInv /\ HeldInv /\ CreditInv

-----------------------------------------------------------------------------
\* The modules that are put together have copies of the same arithmetic.
LEMMA SumCopies ==
  ASSUME NEW f
  PROVE  /\ Sender!SumFunction(f) = SumFunction(f)
         /\ \A S : Sender!SumFunctionOnSet(f, S) = SumFunctionOnSet(f, S)
         /\ Receiver!SumFunction(f) = SumFunction(f)
         /\ Promise!SumFunction(f) = SumFunction(f)
BY DEF SumFunction, SumFunctionOnSet, FoldFunctionOnSet, MapThenFoldSet,
       Sender!SumFunction, Sender!SumFunctionOnSet, Sender!FoldFunctionOnSet, Sender!MapThenFoldSet,
       Receiver!SumFunction, Receiver!SumFunctionOnSet, Receiver!FoldFunctionOnSet, Receiver!MapThenFoldSet,
       Promise!SumFunction, Promise!SumFunctionOnSet, Promise!FoldFunctionOnSet, Promise!MapThenFoldSet

LEMMA ArithCopies ==
  ASSUME NEW a, NEW b, NEW c
  PROVE  /\ Sender!minLong(a, b) = minLong(a, b) /\ Receiver!minLong(a, b) = minLong(a, b)
         /\ Sender!maxLong(a, b) = maxLong(a, b)
         /\ Sender!checkedSubtract(a, b) = checkedSubtract(a, b)
         /\ Receiver!checkedSubtract(a, b) = checkedSubtract(a, b)
         /\ Receiver!checkedAdd(a, b) = checkedAdd(a, b)
         /\ Sender!Floor(a, b, c) = Floor(a, b, c) /\ Receiver!Floor(a, b, c) = Floor(a, b, c)
         /\ Promise!Floor(a, b, c) = Floor(a, b, c)
         /\ Sender!Ceil(a, b, c) = Ceil(a, b, c) /\ Receiver!Ceil(a, b, c) = Ceil(a, b, c)
         /\ Promise!Ceil(a, b, c) = Ceil(a, b, c)
         /\ Sender!Long = Long /\ Receiver!Long = Long /\ Promise!Long = Long
BY DEF minLong, maxLong, Floor, Ceil, Long, checkedSubtract, checkedAdd, add, subtract,
       Sender!minLong, Sender!maxLong, Sender!Floor, Sender!Ceil, Sender!checkedSubtract, Sender!subtract,
       Receiver!minLong, Receiver!Floor, Receiver!Ceil, Receiver!checkedSubtract, Receiver!subtract,
       Receiver!checkedAdd, Receiver!add, Promise!Floor, Promise!Ceil,
       Sender!Long, Receiver!Long, Promise!Long

-----------------------------------------------------------------------------
(* Steps that leave the packet and the receiver alone.                      *)

LifeKinds == {"open", "ending", "closed"}

\* The money of the packet that is delivered and not settled.
Unsettled ==
  IF (loop = "waiting" \/ destroyed) /\ stage[request.seq] = "fulfilled" THEN request.money
  ELSE Sender!NoMoney

\* A step of Payment, or one that changes nothing there.
Promised == Promise!Next \/ UNCHANGED Promise!vars

LEMMA NothingMoves ==
  ASSUME UNCHANGED <<peak, receiveMax, totalSent, received, destroyed>>, Unsettled' = Unsettled
  PROVE  Promised
BY DEF Promised, Promise!vars, Unsettled

LEMMA LimitsMove ==
  ASSUME UNCHANGED <<totalSent, received, destroyed>>, Unsettled' = Unsettled,
         peak' \in [Streams -> Long], receiveMax' \in [Streams -> Long],
         \A s \in Streams : peak[s] <= peak'[s] /\ receiveMax[s] <= receiveMax'[s]
  PROVE  Promised
<1>1. Promise!Long = Long
  BY ArithCopies
<1>2. Promise!Allow
  BY <1>1 DEF Promise!Allow, Unsettled
<1> QED BY <1>2 DEF Promised, Promise!Next

\* The loop goes on, or stops, or is started, but sends nothing.
QuietLoop ==
  /\ loop' \in {"idle", "connecting", "tick", "waiting", "backoff"}
  /\ (loop' = "waiting") <=> (loop = "waiting")
  /\ destroyed => loop' = "idle"
  /\ connected' \in BOOLEAN /\ (loop' = "connecting" => ~connected')
  /\ nextSequence' \in Calls /\ nextSequence <= nextSequence'
  /\ life' \in [Streams -> LifeKinds] /\ \A s \in Streams : life[s] = "closed" => life'[s] = "closed"
  /\ UNCHANGED <<destroyed, request, totalSent, held, holds>>
  /\ UNCHANGED receiverVars

LimitsRaised ==
  /\ sendMax' \in [Streams -> Long] /\ peak' \in [Streams -> Long]
  /\ \A s \in Streams : peak[s] <= peak'[s] /\ sendMax'[s] <= peak'[s] /\ 2 * peak'[s] <= MaxLong

\* What the sender knows is news, and still true.
NewsTaken ==
  /\ remoteReceived' \in [Streams -> Long] /\ remoteReceiveMax' \in [Streams -> Long]
  /\ \A s \in Streams :
       /\ remoteReceived[s] <= remoteReceived'[s] /\ remoteReceived'[s] <= received[s]
       /\ remoteReceiveMax'[s] \in {MaxLong} \cup 0 .. receiveMax[s]

LEMMA NoNews ==
  ASSUME Inv, UNCHANGED <<remoteReceived, remoteReceiveMax>>
  PROVE  NewsTaken
<1>1. /\ remoteReceived \in [Streams -> Long] /\ remoteReceiveMax \in [Streams -> Long]
      /\ \A s \in Streams : remoteReceived[s] \in Int
  BY MaxLongAssumption DEF Inv, Types, Long
<1>2. \A s \in Streams : /\ remoteReceived[s] <= received[s]
                         /\ remoteReceiveMax[s] \in {MaxLong} \cup 0 .. receiveMax[s]
  BY DEF Inv, NewsInv, KnowledgeIsPast
<1> QED BY <1>1, <1>2 DEF NewsTaken

LEMMA SameLimits ==
  ASSUME Inv, UNCHANGED <<sendMax, peak>>
  PROVE  LimitsRaised
<1>1. /\ sendMax \in [Streams -> Long] /\ peak \in [Streams -> Long]
      /\ \A s \in Streams : peak[s] \in Int
  BY MaxLongAssumption DEF Inv, Types, Long
<1>2. \A s \in Streams : sendMax[s] <= peak[s] /\ 2 * peak[s] <= MaxLong
  BY DEF Inv, HeldInv
<1> QED BY <1>1, <1>2 DEF LimitsRaised

LEMMA QuietKeeps ==
  ASSUME Inv, QuietLoop, LimitsRaised, NewsTaken, Past(announced')
  PROVE  Inv' /\ Promised
<1>1. UNCHANGED <<stage, packet, response, status, receiveMax, received, remoteClosed,
                  totalReceived, incomingHold, peerClosed, peerDestroyed>>
  BY DEF QuietLoop, receiverVars
<1>2. UNCHANGED <<destroyed, request, totalSent, held, holds>>
  BY DEF QuietLoop
<1>3. Types'
  BY <1>1, <1>2 DEF Inv, Types, QuietLoop, LimitsRaised, NewsTaken, LifeKinds
<1>4. LoopInv'
  BY <1>1, <1>2 DEF Inv, LoopInv, QuietLoop, Types, LifeKinds
<1>5. PathInv'
  <2>1. Prepare' = Prepare
    BY <1>2 DEF Prepare, MinimumAmount
  <2>2. request.seq < nextSequence' /\ \A p \in Calls : nextSequence' <= p => nextSequence <= p
    BY DEF Inv, PathInv, Types, QuietLoop, Calls
  <2> QED BY <1>1, <1>2, <2>1, <2>2 DEF Inv, PathInv, QuietLoop, InHand
<1>6. NewsInv'
  BY <1>1 DEF Inv, NewsInv, KnowledgeIsPast, NewsTaken, Past, Types, Long
<1>7. BooksInv'
  <2>1. \A s \in Streams : remoteReceived[s] = received[s] => remoteReceived'[s] = received[s]
    BY DEF Inv, Types, NewsTaken, Long
  <2> QED BY <1>1, <1>2, <2>1 DEF Inv, BooksInv, Delivered, QuietLoop
<1>8. HeldInv'
  <2>1. \A s \in Streams : /\ totalSent[s] \in Int /\ request.money[s] \in Int
                           /\ peak[s] \in Int /\ peak'[s] \in Int
    BY MaxLongAssumption DEF Inv, Types, LimitsRaised, Long
  <2> QED BY <1>2, <2>1 DEF Inv, HeldInv, QuietLoop, LimitsRaised
<1>9. CreditInv'
  BY <1>1 DEF Inv, CreditInv, Receiver!StreamAmount, Receiver!TotalShares
<1>10. Promised
  <2>1. Unsettled' = Unsettled
    BY <1>1, <1>2 DEF Unsettled, QuietLoop, Sender!NoMoney
  <2>2. receiveMax' \in [Streams -> Long] /\ \A s \in Streams : receiveMax[s] <= receiveMax'[s]
    BY <1>1, MaxLongAssumption DEF Inv, Types, Long
  <2> QED BY <1>1, <1>2, <2>1, <2>2, LimitsMove DEF LimitsRaised
<1> QED BY <1>3, <1>4, <1>5, <1>6, <1>7, <1>8, <1>9, <1>10 DEF Inv

\* The sender takes limits that were true some time.
LEMMA TakesNews ==
  ASSUME Inv, NEW limits, Past(limits), Sender!TakeLimits(limits)
  PROVE  /\ NewsTaken
         /\ \A s \in DOMAIN limits : limits[s].totalReceived <= remoteReceived'[s]
<1>1. \A s \in Streams : Sender!recorded(s)
  BY DEF Inv, Types, Sender!recorded
<1>2. /\ remoteReceived' = [s \in Streams |->
           IF s \in DOMAIN limits THEN maxLong(remoteReceived[s], limits[s].totalReceived)
           ELSE remoteReceived[s]]
      /\ remoteReceiveMax' = [s \in Streams |->
           IF s \notin DOMAIN limits THEN remoteReceiveMax[s]
           ELSE IF remoteReceiveMax[s] = MaxLong THEN limits[s].receiveMax
           ELSE maxLong(remoteReceiveMax[s], limits[s].receiveMax)]
  BY <1>1, ArithCopies DEF Sender!TakeLimits
<1>3. \A s \in Streams :
        /\ remoteReceived[s] \in Nat /\ remoteReceived[s] <= received[s] /\ received[s] \in Long
        /\ remoteReceiveMax[s] \in {MaxLong} \cup 0 .. receiveMax[s] /\ receiveMax[s] \in Long
  BY MaxLongAssumption DEF Inv, Types, NewsInv, KnowledgeIsPast, Long
<1>4. \A s \in DOMAIN limits : /\ s \in Streams
                               /\ limits[s].totalReceived \in 0 .. received[s]
                               /\ limits[s].receiveMax \in 0 .. receiveMax[s]
  BY DEF Past
<1> QED BY <1>2, <1>3, <1>4, MaxLongAssumption DEF NewsTaken, maxLong, Long

\* startSendLoop, which is called for streams that are open.
LEMMA Starts ==
  ASSUME Inv, ~destroyed, Sender!startSendLoop
  PROVE  /\ loop' \in {"idle", "connecting", "tick", "waiting", "backoff"}
         /\ (loop' = "waiting") <=> (loop = "waiting")
         /\ connected' = connected /\ (loop' = "connecting" => ~connected)
         /\ UNCHANGED <<destroyed, nextSequence, request>>
BY DEF Sender!startSendLoop, Inv, Types, LoopInv

-----------------------------------------------------------------------------
(* Answers.                                                                 *)

\* The packet is over, and nothing is held any more.
PacketOver ==
  /\ ~InHand(request.seq) /\ ~peerDestroyed
  /\ loop' \in {"idle", "tick", "backoff"}
  /\ life' \in [Streams -> LifeKinds]
  /\ UNCHANGED <<connected, destroyed, nextSequence, request, sendMax, peak, announced>>
  /\ UNCHANGED receiverVars
  /\ totalSent' \in [Streams -> Long] /\ \A s \in Streams : totalSent'[s] <= peak[s]
  /\ held' = [s \in Streams |-> 0] /\ holds' = [s \in Streams |-> [n \in 0 .. MaxSequence |-> 0]]
  /\ NewsTaken /\ \A s \in Streams : remoteReceived'[s] = received[s]

LEMMA PacketOverKeeps ==
  ASSUME Inv, loop = "waiting", PacketOver
  PROVE  Inv'
<1>1. UNCHANGED <<stage, packet, response, status, receiveMax, received, remoteClosed,
                  totalReceived, incomingHold, peerClosed, peerDestroyed>>
  BY DEF PacketOver, receiverVars
<1>2. /\ UNCHANGED <<connected, destroyed, nextSequence, request, sendMax, peak, announced>>
      /\ loop' \in {"idle", "tick", "backoff"} /\ ~destroyed
  BY DEF PacketOver, Inv, LoopInv
<1>3. Types'
  <2>1. held' \in [Streams -> Int] /\ holds' \in [Streams -> [0 .. MaxSequence -> Long]]
    BY MaxLongAssumption DEF PacketOver, Long
  <2> QED BY <1>1, <1>2, <2>1 DEF Inv, Types, PacketOver, NewsTaken, LifeKinds
<1>4. LoopInv'
  BY <1>1, <1>2 DEF Inv, LoopInv
<1>5. PathInv'
  <2>1. Prepare' = Prepare
    BY <1>2 DEF Prepare, MinimumAmount
  <2> QED BY <1>1, <1>2, <2>1 DEF Inv, PathInv, InHand, PacketOver
<1>6. NewsInv'
  BY <1>1, <1>2 DEF Inv, NewsInv, KnowledgeIsPast, NewsTaken, Past, PacketOver
<1>7. BooksInv'
  BY <1>1, <1>2 DEF BooksInv, Delivered, PacketOver
<1>8. HeldInv'
  BY <1>2 DEF Inv, HeldInv, PacketOver
<1>9. CreditInv'
  BY <1>1 DEF Inv, CreditInv, Receiver!StreamAmount, Receiver!TotalShares
<1> QED BY <1>3, <1>4, <1>5, <1>6, <1>7, <1>8, <1>9 DEF Inv

\* What is held for the packet under way.
LEMMA HeldForPacket ==
  ASSUME Inv, loop = "waiting", NEW s \in Streams
  PROVE  /\ ~destroyed /\ request.seq \in Calls
         /\ request.money[s] \in Long /\ request.money[s] \in Nat /\ held[s] = request.money[s]
         /\ totalSent[s] \in Nat /\ peak[s] \in Long /\ peak[s] \in Nat
         /\ totalSent[s] + request.money[s] <= peak[s] /\ 2 * peak[s] <= MaxLong
         /\ holds[s][request.seq] = request.money[s]
         /\ holds[s] = [n \in 0 .. MaxSequence |-> IF n = request.seq THEN request.money[s] ELSE 0]
<1>1. ~destroyed /\ request.seq \in Calls
  BY DEF Inv, LoopInv
<1>2. holds[s] \in [0 .. MaxSequence -> Long]
  BY DEF Inv, Types
<1>3. \A n \in 0 .. MaxSequence : holds[s][n] = IF n = request.seq THEN request.money[s] ELSE 0
  BY <1>1 DEF Inv, HeldInv
<1>4. holds[s] = [n \in 0 .. MaxSequence |-> holds[s][n]]
  BY <1>2
<1>5. holds[s][request.seq] = request.money[s]
  BY <1>1, <1>3 DEF Calls
<1> QED BY <1>1, <1>3, <1>4, <1>5, MaxLongAssumption DEF Inv, Types, HeldInv, Long

\* A rejected packet gives the streams back what they held for it.
LEMMA Cancels ==
  ASSUME Inv, loop = "waiting", Sender!CancelHolds
  PROVE  /\ totalSent' = totalSent
         /\ held' = [s \in Streams |-> 0]
         /\ holds' = [s \in Streams |-> [n \in 0 .. MaxSequence |-> 0]]
<1> DEFINE some(s) == Sender!recorded(s) /\ holds[s][request.seq] # 0
<1>1. /\ held' = [s \in Streams |-> IF some(s) THEN held[s] - holds[s][request.seq] ELSE held[s]]
      /\ holds' = [s \in Streams |-> IF some(s) THEN [holds[s] EXCEPT ![request.seq] = 0] ELSE holds[s]]
      /\ totalSent' = totalSent
  BY DEF Sender!CancelHolds, Sender!HeldFor
<1>2. \A s \in Streams : some(s) <=> request.money[s] # 0
  BY HeldForPacket DEF Inv, Types, Sender!recorded, Calls
<1>3. \A s \in Streams : (IF some(s) THEN held[s] - holds[s][request.seq] ELSE held[s]) = 0
  <2> SUFFICES ASSUME NEW s \in Streams
               PROVE  (IF some(s) THEN held[s] - holds[s][request.seq] ELSE held[s]) = 0
    OBVIOUS
  <2>1. some(s) <=> request.money[s] # 0
    BY <1>2
  <2>2. /\ held[s] = request.money[s] /\ holds[s][request.seq] = request.money[s]
        /\ request.money[s] \in Nat
    BY HeldForPacket
  <2> HIDE DEF some
  <2> QED BY <2>1, <2>2
<1>4. \A s \in Streams :
        (IF some(s) THEN [holds[s] EXCEPT ![request.seq] = 0] ELSE holds[s]) = [n \in 0 .. MaxSequence |-> 0]
  <2> SUFFICES ASSUME NEW s \in Streams
               PROVE  (IF some(s) THEN [holds[s] EXCEPT ![request.seq] = 0] ELSE holds[s])
                      = [n \in 0 .. MaxSequence |-> 0]
    OBVIOUS
  <2>1. holds[s] = [n \in 0 .. MaxSequence |-> IF n = request.seq THEN request.money[s] ELSE 0]
    BY HeldForPacket
  <2>2. some(s) <=> request.money[s] # 0
    BY <1>2
  <2> HIDE DEF some
  <2> QED BY <2>1, <2>2
<1> HIDE DEF some
<1> QED BY <1>1, <1>3, <1>4

\* A fulfilled one moves it to what is sent.
LEMMA Executes ==
  ASSUME Inv, loop = "waiting", Sender!ExecuteHolds(TRUE)
  PROVE  /\ totalSent' = [s \in Streams |-> totalSent[s] + request.money[s]]
         /\ held' = [s \in Streams |-> 0]
         /\ holds' = [s \in Streams |-> [n \in 0 .. MaxSequence |-> 0]]
<1> DEFINE amount(s) == IF request.money[s] > 0 THEN holds[s][request.seq] ELSE 0
<1>1. /\ held' = [s \in Streams |-> held[s] - amount(s)]
      /\ totalSent' = [s \in Streams |-> totalSent[s] + amount(s)]
      /\ holds' = [s \in Streams |-> [holds[s] EXCEPT ![request.seq] =
                                         IF request.money[s] > 0 THEN 0 ELSE @]]
  BY DEF Sender!ExecuteHolds, Sender!HeldFor
<1>2. ASSUME NEW s \in Streams
      PROVE  amount(s) = request.money[s] /\ held[s] - amount(s) = 0
  <2>1. /\ held[s] = request.money[s] /\ holds[s][request.seq] = request.money[s]
        /\ request.money[s] \in Nat
    BY HeldForPacket
  <2> QED BY <2>1
<1>3. ASSUME NEW s \in Streams
      PROVE  [holds[s] EXCEPT ![request.seq] = IF request.money[s] > 0 THEN 0 ELSE @]
             = [n \in 0 .. MaxSequence |-> 0]
  <2>1. /\ holds[s] = [n \in 0 .. MaxSequence |-> IF n = request.seq THEN request.money[s] ELSE 0]
        /\ holds[s][request.seq] = request.money[s] /\ request.money[s] \in Nat
    BY HeldForPacket
  <2>2. [holds[s] EXCEPT ![request.seq] = IF request.money[s] > 0 THEN 0 ELSE @]
        = [holds[s] EXCEPT ![request.seq] = 0]
    <3>1. CASE request.money[s] > 0
      BY <3>1
    <3>2. CASE request.money[s] = 0
      <4>1. ~ (request.money[s] > 0) /\ holds[s][request.seq] = 0
        BY <2>1, <3>2
      <4> QED BY <4>1
    <3> QED BY <2>1, <3>1, <3>2
  <2>3. [holds[s] EXCEPT ![request.seq] = 0] = [n \in 0 .. MaxSequence |-> 0]
    BY ONLY <2>1
  <2> QED BY <2>2, <2>3
<1> HIDE DEF amount
<1> QED BY <1>1, <1>2, <1>3

\* LifeAfter and LoopFinished close streams, if they do anything.
LEMMA LifeAfterCloses ==
  ASSUME Inv, NEW closes, NEW goesOn, Sender!LifeAfter(closes, goesOn)
  PROVE  life' \in [Streams -> LifeKinds] /\ \A s \in Streams : life[s] = "closed" => life'[s] = "closed"
<1>1. PICK waits : LET ends(s) == \/ s \in Sender!PeerCloses(closes) \ waits
                                  \/ life[s] = "ending" /\ (~goesOn \/ Sender!AllSent(s))
                   IN  life' = [s \in Streams |-> IF ends(s) THEN "closed" ELSE life[s]]
  BY DEF Sender!LifeAfter
<1> QED BY <1>1 DEF Inv, Types, LifeKinds

\* What the answer to the packet under way says of it.
LEMMA AnswerSays ==
  ASSUME Inv, loop = "waiting", response[request.seq].code # "none"
  PROVE  /\ ~InHand(request.seq)
         /\ response[request.seq].code = "fulfill" <=> stage[request.seq] = "fulfilled"
         /\ response[request.seq].code # "F00" => ~peerDestroyed
         /\ response[request.seq].code \in {"fulfill", "F99"} => Past(response[request.seq].limits)
<1>1. request.seq \in Calls /\ ~destroyed
  BY DEF Inv, LoopInv
<1>2. stage[request.seq] \in Stages
  BY <1>1 DEF Inv, Types
<1> QED BY <1>1, <1>2 DEF Inv, PathInv, NewsInv, InHand, Stages

LEMMA FulfilledKeeps ==
  ASSUME Inv, loop = "waiting", response[request.seq].code = "fulfill",
         Sender!Fulfilled(response[request.seq].limits, response[request.seq].closes),
         UNCHANGED <<sendMax, peak, receiverVars, peerVars>>
  PROVE  Inv' /\ Promised
<1> DEFINE limits == response[request.seq].limits
           closes == response[request.seq].closes
           goesOn == sending \/ Sender!PeerCloses(closes) # {} \/ Sender!Wakes(limits, held)
<1>1. /\ Sender!ExecuteHolds(TRUE) /\ Sender!TakeLimits(limits)
      /\ Sender!Continue(goesOn) /\ Sender!LifeAfter(closes, goesOn)
      /\ UNCHANGED <<connected, destroyed, remoteGone, nextSequence, request, queuedCloses>>
  BY DEF Sender!Fulfilled
<1>2. ~InHand(request.seq) /\ stage[request.seq] = "fulfilled" /\ ~peerDestroyed /\ Past(limits)
  BY AnswerSays
<1>3. NewsTaken /\ \A s \in DOMAIN limits : limits[s].totalReceived <= remoteReceived'[s]
  <2> HIDE DEF limits
  <2> QED BY <1>1, <1>2, TakesNews
<1>4. ASSUME NEW s \in Streams
      PROVE  remoteReceived'[s] = received[s]
  <2>1. s \in DOMAIN limits /\ limits[s].totalReceived = received[s]
    BY <1>2 DEF Inv, LoopInv, BooksInv, Delivered
  <2>2. received[s] <= remoteReceived'[s] /\ remoteReceived'[s] <= received[s]
    BY <1>3, <2>1 DEF NewsTaken
  <2>3. received[s] \in Int /\ remoteReceived'[s] \in Int
    BY <1>3, MaxLongAssumption DEF NewsTaken, Inv, Types, Long
  <2> QED BY <2>2, <2>3
<1>5. life' \in [Streams -> LifeKinds]
  <2> HIDE DEF closes, goesOn
  <2> QED BY <1>1, LifeAfterCloses
<1>6. loop' \in {"idle", "tick", "backoff"}
  BY <1>1 DEF Sender!Continue
<1>7. /\ totalSent' = [s \in Streams |-> totalSent[s] + request.money[s]]
      /\ held' = [s \in Streams |-> 0]
      /\ holds' = [s \in Streams |-> [n \in 0 .. MaxSequence |-> 0]]
  BY <1>1, Executes
<1>8. ASSUME NEW s \in Streams
      PROVE  totalSent[s] + request.money[s] \in Long /\ totalSent[s] + request.money[s] <= peak[s]
  <2>1. /\ totalSent[s] \in Nat /\ request.money[s] \in Nat /\ peak[s] \in Nat /\ peak[s] \in Long
        /\ totalSent[s] + request.money[s] <= peak[s]
    BY HeldForPacket
  <2> QED BY <2>1, MaxLongAssumption DEF Long
<1>9. PacketOver
  BY <1>1, <1>2, <1>3, <1>4, <1>5, <1>6, <1>7, <1>8 DEF PacketOver, peerVars
<1>10. Promised
  <2>1. Unsettled = request.money /\ Unsettled' = [s \in Streams |-> 0] /\ ~destroyed
    BY <1>2, <1>6, <1>9 DEF Unsettled, Sender!NoMoney, PacketOver, Inv, LoopInv
  <2>2. UNCHANGED <<peak, receiveMax, received, destroyed>>
    BY <1>9 DEF PacketOver, receiverVars
  <2>3. CASE request.money = [s \in Streams |-> 0]
    <3>1. totalSent' = totalSent
      <4>1. \A s \in Streams : totalSent[s] + request.money[s] = totalSent[s]
        <5>1. \A s \in Streams : request.money[s] = 0 /\ totalSent[s] \in Nat
          BY <2>3, HeldForPacket
        <5> QED BY <5>1
      <4>2. totalSent = [s \in Streams |-> totalSent[s]]
        BY DEF Inv, Types
      <4> QED BY <1>7, <4>1, <4>2
    <3> QED BY <2>1, <2>2, <2>3, <3>1, NothingMoves
  <2>4. CASE request.money # [s \in Streams |-> 0]
    <3>1. Promise!Settle
      BY <1>7, <2>1, <2>2, <2>4 DEF Promise!Settle, Promise!Zero, Unsettled
    <3> QED BY <3>1 DEF Promised, Promise!Next
  <2> QED BY <2>3, <2>4
<1> QED BY <1>9, <1>10, PacketOverKeeps

LEMMA RejectedKeeps ==
  ASSUME Inv, loop = "waiting", response[request.seq].code = "F99",
         Sender!Rejected(response[request.seq].limits, response[request.seq].closes),
         UNCHANGED <<sendMax, peak, receiverVars, peerVars>>
  PROVE  Inv' /\ Promised
<1> DEFINE limits == response[request.seq].limits
           closes == response[request.seq].closes
           goesOn == sending \/ Sender!PeerCloses(closes) # {} \/ Sender!Wakes(limits, held')
<1>1. /\ Sender!CancelHolds /\ Sender!TakeLimits(limits)
      /\ Sender!Continue(goesOn) /\ Sender!LifeAfter(closes, goesOn)
      /\ UNCHANGED <<connected, destroyed, remoteGone, nextSequence, request>>
  BY DEF Sender!Rejected
<1>2. ~InHand(request.seq) /\ stage[request.seq] # "fulfilled" /\ ~peerDestroyed /\ Past(limits)
  BY AnswerSays
<1>3. NewsTaken
  <2> HIDE DEF limits
  <2> QED BY <1>1, <1>2, TakesNews
<1>4. ASSUME NEW s \in Streams
      PROVE  remoteReceived'[s] = received[s]
  <2>1. remoteReceived[s] = received[s]
    BY <1>2 DEF Inv, LoopInv, BooksInv, Delivered
  <2>2. received[s] <= remoteReceived'[s] /\ remoteReceived'[s] <= received[s]
    BY <1>3, <2>1 DEF NewsTaken
  <2>3. received[s] \in Int /\ remoteReceived'[s] \in Int
    BY <1>3, MaxLongAssumption DEF NewsTaken, Inv, Types, Long
  <2> QED BY <2>2, <2>3
<1>5. life' \in [Streams -> LifeKinds]
  <2> HIDE DEF closes, goesOn
  <2> QED BY <1>1, LifeAfterCloses
<1>6. loop' \in {"idle", "tick", "backoff"}
  BY <1>1 DEF Sender!Continue
<1>7. /\ totalSent' = totalSent
      /\ held' = [s \in Streams |-> 0]
      /\ holds' = [s \in Streams |-> [n \in 0 .. MaxSequence |-> 0]]
  BY <1>1, Cancels
<1>8. PacketOver
  BY <1>1, <1>2, <1>3, <1>4, <1>5, <1>6, <1>7 DEF PacketOver, peerVars, Inv, Types, HeldInv
<1>9. Promised
  <2>1. Unsettled' = Unsettled
    BY <1>2, <1>6, <1>8 DEF Unsettled, PacketOver, Sender!NoMoney, Inv, LoopInv
  <2> QED BY <1>7, <1>8, <2>1, NothingMoves DEF PacketOver, receiverVars
<1> QED BY <1>8, <1>9, PacketOverKeeps

\* A packet that has not arrived is refused on its way.
LEMMA TemporaryErrorKeeps == Inv /\ TemporaryError => Inv' /\ Promised
<1> SUFFICES ASSUME Inv, TemporaryError PROVE Inv' /\ Promised
  OBVIOUS
<1>1. /\ loop = "waiting" /\ stage[request.seq] = "idle"
      /\ UNCHANGED <<sendMax, peak, peerVars, receiverVars>>
  BY DEF TemporaryError, Fault, UnderWay
<1>2. /\ Sender!CancelHolds /\ loop' = "backoff"
      /\ UNCHANGED <<connected, destroyed, nextSequence, request, life, remoteReceived, remoteReceiveMax>>
  BY DEF TemporaryError, Sender!RejectedTemporarily, Sender!streamVars, Sender!remoteVars
<1>3. ~InHand(request.seq) /\ ~peerDestroyed
  BY <1>1 DEF Inv, LoopInv, PathInv, InHand
<1>4. \A s \in Streams : remoteReceived[s] = received[s]
  BY <1>1 DEF Inv, LoopInv, BooksInv, Delivered
<1>5. NewsTaken
  BY <1>2, NoNews
<1>6. /\ totalSent' = totalSent
      /\ held' = [s \in Streams |-> 0]
      /\ holds' = [s \in Streams |-> [n \in 0 .. MaxSequence |-> 0]]
  BY <1>1, <1>2, Cancels
<1>7. PacketOver
  BY <1>1, <1>2, <1>3, <1>4, <1>5, <1>6 DEF PacketOver, peerVars, Inv, Types, HeldInv, LifeKinds
<1>8. Promised
  <2>1. Unsettled' = Unsettled
    BY <1>1, <1>2, <1>7 DEF Unsettled, PacketOver, Sender!NoMoney, Inv, LoopInv
  <2> QED BY <1>6, <1>7, <2>1, NothingMoves DEF PacketOver, receiverVars
<1> QED BY <1>1, <1>7, <1>8, PacketOverKeeps

\* The connection fails while it waits.
LEMMA FailKeeps ==
  ASSUME Inv, loop = "waiting", Sender!RejectedFinally,
         UNCHANGED <<sendMax, peak, receiverVars, peerVars>>
  PROVE  Inv' /\ Promised
<1>1. UNCHANGED <<stage, packet, response, status, receiveMax, received, remoteClosed,
                  totalReceived, incomingHold, peerClosed, peerDestroyed, announced, sendMax, peak>>
  BY DEF receiverVars, peerVars
<1>2. /\ Sender!CancelHolds /\ loop' = "idle" /\ destroyed' = TRUE
      /\ life' = [s \in Streams |-> IF Sender!isOpen(s) THEN "closed" ELSE life[s]]
      /\ UNCHANGED <<connected, nextSequence, request, remoteReceived, remoteReceiveMax>>
  BY DEF Sender!RejectedFinally, Sender!Destroy, Sender!remoteVars
<1>3. \A s \in Streams : life'[s] = "closed"
  BY <1>2 DEF Inv, Types, Sender!isOpen
<1>4. /\ totalSent' = totalSent
      /\ held' = [s \in Streams |-> 0]
      /\ holds' = [s \in Streams |-> [n \in 0 .. MaxSequence |-> 0]]
  BY <1>2, Cancels
<1>5. Types'
  <2>1. held' \in [Streams -> Int] /\ holds' \in [Streams -> [0 .. MaxSequence -> Long]]
    BY <1>4, MaxLongAssumption DEF Long
  <2>2. life' \in [Streams -> {"open", "ending", "closed"}]
    BY <1>2, <1>3
  <2> QED BY <1>1, <1>2, <1>4, <2>1, <2>2 DEF Inv, Types
<1>6. LoopInv'
  BY <1>1, <1>2, <1>3 DEF Inv, LoopInv
<1>7. PathInv'
  <2>1. Prepare' = Prepare
    BY <1>2 DEF Prepare, MinimumAmount
  <2> QED BY <1>1, <1>2, <2>1 DEF Inv, PathInv, InHand
<1>8. NewsInv'
  BY <1>1, <1>2 DEF Inv, NewsInv, KnowledgeIsPast, Past
<1>9. BooksInv'
  BY <1>2 DEF BooksInv
<1>10. HeldInv'
  BY <1>1, <1>2, <1>4 DEF Inv, HeldInv
<1>11. CreditInv'
  BY <1>1 DEF Inv, CreditInv, Receiver!StreamAmount, Receiver!TotalShares
<1>12. Promised
  <2>1. Unsettled' = Unsettled /\ ~destroyed
    BY <1>1, <1>2 DEF Unsettled, Sender!NoMoney, Inv, LoopInv
  <2>2. Promise!Fail
    BY <1>1, <1>2, <1>4, <2>1 DEF Promise!Fail, Unsettled
  <2> QED BY <2>2 DEF Promised, Promise!Next
<1> QED BY <1>5, <1>6, <1>7, <1>8, <1>9, <1>10, <1>11, <1>12 DEF Inv

LEMMA AnsweredKeeps == Inv /\ Answered => Inv' /\ Promised
<1> SUFFICES ASSUME Inv, Answered PROVE Inv' /\ Promised
  OBVIOUS
<1> DEFINE r == response[request.seq]
<1>1. loop = "waiting" /\ UNCHANGED <<sendMax, peak, receiverVars, peerVars>>
  BY DEF Answered
<1>2. CASE r.code = "fulfill" /\ Sender!Fulfilled(r.limits, r.closes)
  BY <1>1, <1>2, FulfilledKeeps
<1>3. CASE r.code = "F99" /\ Sender!Rejected(r.limits, r.closes)
  BY <1>1, <1>3, RejectedKeeps
<1>4. CASE r.code = "F00" /\ Sender!RejectedFinally
  BY <1>1, <1>4, FailKeeps
<1> QED BY <1>2, <1>3, <1>4 DEF Answered

LEMMA ExpireKeeps == Inv /\ Expire => Inv' /\ Promised
BY FailKeeps DEF Expire, Fault

-----------------------------------------------------------------------------
(* The receiver.                                                            *)

\* What the packet under way is converted to fits in a Long.
LEMMA PrepareAmount ==
  ASSUME Inv
  PROVE  /\ SumFunction(request.money) \in Nat
         /\ Prepare.amount = Floor(SumFunction(request.money), RateNum, RateDen)
         /\ Prepare.amount \in Long /\ Prepare.amount \in Nat
<1> DEFINE m     == request.money
           total == SumFunction(m)
           a     == Floor(request.amount, RateNum, RateDen)
<1>1. m \in [Streams -> Long] /\ DOMAIN m = Streams /\ IsFiniteSet(Streams) /\ \A t \in Streams : m[t] \in Nat
  BY TransferAssumption, MaxLongAssumption DEF Inv, Types, Long
<1>2. total \in Nat
  <2>1. SumFunctionOnSet(m, Streams) \in Nat
    <3> HIDE DEF m
    <3> QED BY <1>1, SumIsNat
  <2> QED BY <1>1, <2>1 DEF SumFunction
<1>3. request.amount = total /\ a <= MaxLong
  BY DEF Inv, HeldInv
<1>4. a \in Nat
  <2>1. total * RateNum \in Nat /\ RateDen \in Nat \ {0}
    BY <1>2, TransferAssumption
  <2> QED BY <1>3, <2>1, QuotientNat DEF Floor
<1>5. Prepare.amount = a
  BY DEF Prepare
<1> QED BY <1>2, <1>3, <1>4, <1>5, MaxLongAssumption DEF Long

\* So does what a stream gets of it.
LEMMA PrepareFacts ==
  ASSUME Inv, NEW s \in Streams
  PROVE  /\ request.money[s] \in Nat
         /\ Receiver!StreamAmount(Prepare, s) =
              IF request.money[s] = 0 THEN 0 ELSE Promise!Share(request.money, s)
         /\ Receiver!StreamAmount(Prepare, s) \in Nat
         /\ Receiver!StreamAmount(Prepare, s) <= Prepare.amount
<1> DEFINE m     == request.money
           total == SumFunction(m)
           a     == Prepare.amount
<1>1. m \in [Streams -> Long] /\ DOMAIN m = Streams /\ IsFiniteSet(Streams) /\ \A t \in Streams : m[t] \in Nat
  BY TransferAssumption, MaxLongAssumption DEF Inv, Types, Long
<1>2. m[s] <= total /\ m[s] \in Nat
  <2>1. m[s] <= SumFunctionOnSet(m, Streams)
    <3> HIDE DEF m
    <3> QED BY <1>1, SumBoundsPart
  <2> QED BY <1>1, <2>1 DEF SumFunction
<1>3. a \in Nat /\ total \in Nat /\ a = Floor(total, RateNum, RateDen) /\ Prepare.shares = m
  BY PrepareAmount DEF Prepare
<1>4. Receiver!StreamAmount(Prepare, s) = IF m[s] = 0 THEN 0 ELSE Floor(a, m[s], total)
  BY <1>3, SumCopies, ArithCopies DEF Receiver!StreamAmount, Receiver!TotalShares
<1>5. Promise!Share(m, s) = Floor(a, m[s], total)
  BY <1>3, SumCopies, ArithCopies DEF Promise!Share, Promise!Total
<1>6. m[s] # 0 => Floor(a, m[s], total) \in Nat /\ Floor(a, m[s], total) <= a
  <2> HIDE DEF m, total, a
  <2> SUFFICES ASSUME m[s] # 0 PROVE Floor(a, m[s], total) \in Nat /\ Floor(a, m[s], total) <= a
    OBVIOUS
  <2>1. total \in Nat \ {0}
    BY <1>2, <1>3
  <2> QED BY <1>2, <1>3, <2>1, FloorOfPart
<1> HIDE DEF m, total, a
<1>7. request.money = m /\ Prepare.amount = a
  BY DEF m, a
<1> QED BY <1>2, <1>3, <1>4, <1>5, <1>6, <1>7

\* The same when a step is over, of the receiver's values then.
PastThen(limits) ==
  /\ DOMAIN limits \subseteq Streams
  /\ \A s \in DOMAIN limits : /\ limits[s].totalReceived \in 0 .. received'[s]
                              /\ limits[s].receiveMax \in 0 .. receiveMax'[s]

\* Limits that were true some time still were when the receiver has more.
LEMMA StaysPast ==
  ASSUME Inv, NEW limits, Past(limits),
         receiveMax' \in [Streams -> Long], received' \in [Streams -> Long],
         \A s \in Streams : receiveMax[s] <= receiveMax'[s] /\ received[s] <= received'[s]
  PROVE  PastThen(limits)
<1> SUFFICES ASSUME NEW s \in DOMAIN limits
             PROVE  limits[s].totalReceived \in 0 .. received'[s] /\ limits[s].receiveMax \in 0 .. receiveMax'[s]
  BY DEF Past, PastThen
<1>1. s \in Streams /\ limits[s].totalReceived \in 0 .. received[s] /\ limits[s].receiveMax \in 0 .. receiveMax[s]
  BY DEF Past
<1>2. received[s] \in Nat /\ received'[s] \in Nat /\ receiveMax[s] \in Nat /\ receiveMax'[s] \in Nat
  BY <1>1, MaxLongAssumption DEF Inv, Types, Long
<1>3. received[s] <= received'[s] /\ receiveMax[s] <= receiveMax'[s]
  BY <1>1
<1> QED BY <1>1, <1>2, <1>3

\* What the sender believes stays true when the receiver has more.
LEMMA StaysKnown ==
  ASSUME Inv, UNCHANGED <<remoteReceived, remoteReceiveMax>>,
         receiveMax' \in [Streams -> Long], received' \in [Streams -> Long],
         \A s \in Streams : receiveMax[s] <= receiveMax'[s] /\ received[s] <= received'[s]
  PROVE  KnowledgeIsPast'
<1> SUFFICES ASSUME NEW s \in Streams
             PROVE  remoteReceived[s] <= received'[s]
                    /\ remoteReceiveMax[s] \in {MaxLong} \cup 0 .. receiveMax'[s]
  BY DEF KnowledgeIsPast
<1>1. remoteReceived[s] <= received[s] /\ remoteReceiveMax[s] \in {MaxLong} \cup 0 .. receiveMax[s]
  BY DEF Inv, NewsInv, KnowledgeIsPast
<1>2. /\ received[s] \in Nat /\ received'[s] \in Nat /\ receiveMax[s] \in Nat /\ receiveMax'[s] \in Nat
      /\ remoteReceived[s] \in Nat
  BY MaxLongAssumption DEF Inv, Types, Long
<1> QED BY <1>1, <1>2

\* A step of the receiver leaves the sender's part of the invariant alone.
LEMMA ReceiverStepKeeps ==
  ASSUME Inv, UNCHANGED <<senderVars, announced>>, UNCHANGED peerClosed
  PROVE  LoopInv' /\ HeldInv' /\ Prepare' = Prepare
BY DEF senderVars, Inv, LoopInv, HeldInv, Prepare, MinimumAmount, SumFunction

\* A call of handlePrepare ends, with an answer that says what was true some time.
Refuses(p, r) ==
  /\ r.code \in {"F99", "F00"} /\ (r.code = "F99" => Past(r.limits))
  /\ stage' = [stage EXCEPT ![p] = "rejected"] /\ response' = [response EXCEPT ![p] = r]

LEMMA RefusesKeeps ==
  ASSUME Inv, NEW p \in Calls, NEW r, Refuses(p, r),
         \/ InHand(p) /\ UNCHANGED packet
         \/ stage[p] = "idle" /\ loop = "waiting" /\ p = request.seq /\ DOMAIN packet' = Calls
            /\ \A q \in Calls \ {p} : packet'[q] = packet[q],
         UNCHANGED <<senderVars, peerVars>>, UNCHANGED <<receiveMax, received, totalReceived, peerClosed>>,
         status' \in [Streams -> {"new", "open", "closed"}], incomingHold' \in Long,
         peerDestroyed' \in BOOLEAN, r.code = "F00" \/ (peerDestroyed' <=> peerDestroyed),
         ~peerDestroyed' => ~peerDestroyed /\ \A s \in Streams : status'[s] # "closed"
  PROVE  Inv' /\ Promised
<1>1. /\ UNCHANGED <<loop, connected, destroyed, nextSequence, request, life, totalSent, sendMax, peak,
                     held, holds, remoteReceived, remoteReceiveMax, announced>>
      /\ UNCHANGED senderVars
  BY DEF senderVars, peerVars
<1>2. /\ p = request.seq /\ (loop = "waiting" \/ destroyed)
      /\ \A q \in Calls : q # p => ~InHand(q)
      /\ stage[p] # "fulfilled" /\ stage[p] # "rejected"
  BY DEF Inv, PathInv, InHand
<1>3. /\ stage \in [Calls -> Stages] /\ DOMAIN response = Calls
      /\ stage'[p] = "rejected" /\ response'[p] = r
      /\ \A q \in Calls : q # p => stage'[q] = stage[q] /\ response'[q] = response[q]
      /\ stage' \in [Calls -> Stages] /\ DOMAIN response' = Calls
  BY DEF Refuses, Inv, Types, Stages
<1>4. \A q \in Calls : ~InHand(q)'
  BY <1>2, <1>3 DEF InHand
<1>5. Types'
  BY <1>1, <1>3 DEF Inv, Types
<1>6. LoopInv' /\ HeldInv' /\ Prepare' = Prepare
  BY <1>1, ReceiverStepKeeps
<1>7. PathInv'
  <2>1. ASSUME NEW q \in Calls
        PROVE  /\ nextSequence <= q => stage'[q] = "idle"
               /\ response'[q].code \in IF stage'[q] = "fulfilled" THEN {"fulfill"}
                                        ELSE IF stage'[q] = "rejected" THEN {"F99", "F00"} ELSE {"none"}
    <3>1. CASE q = p
      <4>1. p \in Nat /\ nextSequence \in Nat /\ p < nextSequence
        BY <1>2, TransferAssumption DEF Inv, PathInv, Types, Calls
      <4> QED BY <1>3, <3>1, <4>1 DEF Refuses
    <3>2. CASE q # p
      BY <1>3, <3>2 DEF Inv, PathInv
    <3> QED BY <3>1, <3>2
  <2>2. peerDestroyed' => \/ destroyed
                          \/ loop = "waiting" /\ stage'[p] = "rejected" /\ response'[p].code = "F00"
    <3>1. peerDestroyed => destroyed
      BY <1>2 DEF Inv, PathInv
    <3> QED BY <1>2, <1>3, <3>1
  <2> QED BY <1>1, <1>2, <1>4, <2>1, <2>2 DEF Inv, PathInv
<1>8. NewsInv'
  <2>1. \A q \in Calls : response'[q].code \in {"fulfill", "F99"} => Past(response'[q].limits)
    BY <1>3 DEF Refuses, Inv, NewsInv
  <2> QED BY <1>1, <2>1 DEF Inv, NewsInv, KnowledgeIsPast, Past
<1>9. BooksInv'
  BY <1>1, <1>2, <1>3 DEF Inv, BooksInv, Delivered
<1>10. CreditInv'
  BY <1>4 DEF Inv, CreditInv, InHand
<1>11. Promised
  <2>1. Unsettled = Sender!NoMoney /\ Unsettled' = Sender!NoMoney
    BY <1>1, <1>2, <1>3 DEF Unsettled, Sender!NoMoney
  <2> QED BY <1>1, <2>1, NothingMoves
<1> QED BY <1>5, <1>6, <1>7, <1>8, <1>9, <1>10, <1>11 DEF Inv

\* An answer that says nothing of the limits, or what they are.
LEMMA FinalIsPast ==
  ASSUME Inv, NEW S \in SUBSET Streams, NEW C
  PROVE  /\ Receiver!Final(S, C).code = "F99" /\ Past(Receiver!Final(S, C).limits)
         /\ Past(Receiver!MaxMoney(S, received))
<1>1. /\ DOMAIN Receiver!MaxMoney(S, received) = S
      /\ \A s \in S : Receiver!MaxMoney(S, received)[s] = [receiveMax |-> receiveMax[s], totalReceived |-> received[s]]
  BY DEF Receiver!MaxMoney
<1>2. \A s \in S : /\ received[s] \in 0 .. received[s] /\ receiveMax[s] \in 0 .. receiveMax[s]
  BY MaxLongAssumption DEF Inv, Types, Long
<1>3. Past(Receiver!MaxMoney(S, received))
  BY <1>1, <1>2 DEF Past
<1>4. Receiver!Final(S, C) = [code |-> "F99", limits |-> Receiver!MaxMoney(S, received), closes |-> C]
  BY DEF Receiver!Final
<1> QED BY <1>3, <1>4

LEMMA ArriveKeeps == Inv /\ Arrive => Inv' /\ Promised
<1> SUFFICES ASSUME Inv, Arrive PROVE Inv' /\ Promised
  OBVIOUS
<1> DEFINE p == request.seq
<1>1. /\ loop = "waiting" /\ stage[p] = "idle" /\ UNCHANGED <<senderVars, peerVars>>
      /\ packet' = [packet EXCEPT ![p] = Prepare]
      /\ UNCHANGED <<receiveMax, received, totalReceived, incomingHold, peerClosed, peerDestroyed>>
  BY DEF Arrive, UnderWay, Receiver!ControlFrames, Receiver!moneyVars
<1>2. p \in Calls /\ ~destroyed /\ ~peerDestroyed
  BY <1>1 DEF Inv, LoopInv, PathInv
<1>3. /\ status' \in [Streams -> {"new", "open", "closed"}]
      /\ \A s \in Streams : status'[s] = "open"
  <2>1. status' = [s \in Streams |-> IF /\ s \in Receiver!MoneyStreams(Prepare) \cup Prepare.others
                                        /\ status[s] = "new"
                                     THEN "open" ELSE status[s]]
    BY DEF Arrive, Receiver!ControlFrames
  <2>2. Prepare.others = Streams
    BY DEF Prepare
  <2>3. \A s \in Streams : status[s] \in {"new", "open"}
    BY <1>2 DEF Inv, Types, PathInv
  <2> QED BY <2>1, <2>2, <2>3
<1>4. \A s \in Streams : status[s] # "removed"
  BY DEF Inv, Types
<1>5. CASE Receiver!Answer(p, Receiver!Final({}, {}), "rejected")
  <2>1. Refuses(p, Receiver!Final({}, {}))
    BY <1>5, FinalIsPast DEF Refuses, Receiver!Answer
  <2>2. DOMAIN packet' = Calls /\ \A q \in Calls \ {p} : packet'[q] = packet[q]
    BY <1>1 DEF Inv, Types
  <2>3. incomingHold' \in Long /\ peerDestroyed' \in BOOLEAN
    BY <1>1 DEF Inv, Types
  <2> DEFINE r == Receiver!Final({}, {})
  <2> HIDE DEF p, r
  <2>4. p = request.seq
    BY DEF p
  <2> QED BY <1>1, <1>2, <1>3, <2>1, <2>2, <2>3, <2>4, RefusesKeeps DEF r
<1>6. CASE stage' = [stage EXCEPT ![p] = "generating"] /\ UNCHANGED response
  <2>1. /\ UNCHANGED <<loop, connected, destroyed, nextSequence, request, life, totalSent, sendMax, peak,
                       held, holds, remoteReceived, remoteReceiveMax, announced>>
    BY <1>1 DEF senderVars, peerVars
  <2>2. /\ stage'[p] = "generating" /\ packet'[p] = Prepare
        /\ \A q \in Calls : q # p => stage'[q] = stage[q] /\ packet'[q] = packet[q]
        /\ stage' \in [Calls -> Stages] /\ DOMAIN packet' = Calls
    BY <1>1, <1>2, <1>6 DEF Inv, Types, Stages
  <2>3. Types'
    BY <1>1, <1>3, <1>6, <2>1, <2>2 DEF Inv, Types
  <2>4. LoopInv' /\ HeldInv' /\ Prepare' = Prepare
    BY <1>1, ReceiverStepKeeps DEF peerVars
  <2>5. PathInv'
    <3>1. p \in Nat /\ nextSequence \in Nat /\ p < nextSequence
      BY <1>2, TransferAssumption DEF Inv, PathInv, Types, Calls
    <3>2. ~ (nextSequence <= p)
      BY <3>1
    <3>3. response[p].code \in {"none"}
      BY <1>1, <1>2 DEF Inv, PathInv
    <3>4. UNCHANGED <<response, peerDestroyed, loop, destroyed, request, nextSequence>>
      BY <1>1, <1>6, <2>1
    <3>5. ASSUME NEW q \in Calls
          PROVE  /\ nextSequence <= q => stage'[q] = "idle"
                 /\ InHand(q)' => q = p /\ packet'[q] = Prepare
                 /\ response[q].code \in IF stage'[q] = "fulfilled" THEN {"fulfill"}
                                         ELSE IF stage'[q] = "rejected" THEN {"F99", "F00"} ELSE {"none"}
      <4>1. CASE q = p
        BY <2>2, <3>2, <3>3, <4>1
      <4>2. CASE q # p
        BY <2>2, <4>2 DEF Inv, PathInv, InHand
      <4> QED BY <4>1, <4>2
    <3> QED BY <1>1, <1>2, <1>3, <2>4, <3>4, <3>5 DEF Inv, PathInv, InHand
  <2>6. NewsInv'
    BY <1>1, <1>6, <2>1 DEF Inv, NewsInv, KnowledgeIsPast, Past
  <2>7. BooksInv'
    BY <1>1, <1>2, <1>6, <2>1, <2>2 DEF Inv, BooksInv, Delivered
  <2>8. CreditInv'
    <3>1. ASSUME NEW q \in Calls, stage'[q] = "deciding"
          PROVE  FALSE
      BY <1>1, <2>2, <3>1 DEF Inv, PathInv, InHand
    <3> QED BY <1>1, <3>1 DEF Inv, CreditInv
  <2>9. Promised
    <3>1. Unsettled = Sender!NoMoney /\ Unsettled' = Sender!NoMoney
      BY <1>1, <2>1, <2>2 DEF Unsettled, Sender!NoMoney
    <3> QED BY <1>1, <2>1, <3>1, NothingMoves
  <2> QED BY <2>3, <2>4, <2>5, <2>6, <2>7, <2>8, <2>9 DEF Inv
<1>7. {s \in Receiver!MoneyStreams(Prepare) : status[s] = "removed"} = {}
  BY <1>4 DEF Receiver!MoneyStreams
<1> QED BY <1>5, <1>6, <1>7 DEF Arrive, Receiver!ControlFrames

\* The packet in hand is the one that was sent.
LEMMA InHandFacts ==
  ASSUME Inv, NEW p \in Calls, InHand(p)
  PROVE  /\ packet[p] = Prepare /\ p = request.seq /\ (loop = "waiting" \/ destroyed)
         /\ \A q \in Calls : InHand(q) => q = p
         /\ peerDestroyed => destroyed
BY DEF Inv, PathInv, InHand

LEMMA RefuseKeeps ==
  ASSUME Inv, NEW p \in Calls, Receiver!Refuse(p), UNCHANGED <<senderVars, peerVars>>
  PROVE  Inv' /\ Promised
<1> DEFINE k == packet[p]
           S == Receiver!Stopping(k)
           s == Receiver!First(S)
<1>1. /\ InHand(p) /\ stage[p] = "generating"
      /\ UNCHANGED <<packet, status, receiveMax, received, totalReceived, incomingHold,
                     peerClosed, peerDestroyed>>
  BY DEF Receiver!Refuse, InHand, Receiver!streamVars, Receiver!moneyVars
<1>2. /\ status' \in [Streams -> {"new", "open", "closed"}] /\ incomingHold' \in Long
      /\ peerDestroyed' \in BOOLEAN
      /\ ~peerDestroyed' => ~peerDestroyed /\ \A t \in Streams : status'[t] # "closed"
  BY <1>1 DEF Inv, Types, PathInv
<1>3. ASSUME NEW r, Receiver!Answer(p, r, "rejected"), r.code = "F99", Past(r.limits)
      PROVE  Inv' /\ Promised
  <2>1. Refuses(p, r)
    BY <1>3 DEF Refuses, Receiver!Answer
  <2> QED BY <1>1, <1>2, <2>1, RefusesKeeps
<1>4. ASSUME NEW A \in SUBSET Streams, NEW C, Receiver!Answer(p, Receiver!Final(A, C), "rejected")
      PROVE  Inv' /\ Promised
  BY <1>3, <1>4, FinalIsPast
<1>5. CASE ~k.fulfillable /\ Receiver!Answer(p, Receiver!Final({}, {}), "rejected")
  BY <1>4, <1>5
<1>6. CASE /\ S # {}
           /\ Receiver!Answer(p, IF status[s] = "removed" THEN Receiver!Unexpected
                                 ELSE IF Receiver!TooMuch(k, s) THEN Receiver!Final({s}, {})
                                 ELSE Receiver!Final({}, {s}), "rejected")
  <2>1. S \in SUBSET Streams
    BY DEF Receiver!Stopping, Receiver!MoneyStreams
  <2>2. s \in S
    <3>1. S \in SUBSET Nat
      BY <2>1, TransferAssumption
    <3> HIDE DEF S
    <3> QED BY <1>6, <3>1, SmallestNumber DEF Receiver!First
  <2>3. {s} \in SUBSET Streams /\ {} \in SUBSET Streams /\ status[s] # "removed"
    BY <2>1, <2>2 DEF Inv, Types
  <2> HIDE DEF S, s, k
  <2>4. \/ Receiver!Answer(p, Receiver!Final({s}, {}), "rejected")
        \/ Receiver!Answer(p, Receiver!Final({}, {s}), "rejected")
    BY <1>6, <2>3
  <2> QED BY <1>4, <2>3, <2>4
<1> QED BY <1>5, <1>6 DEF Receiver!Refuse

LEMMA OverflowKeeps ==
  ASSUME Inv, NEW p \in Calls, Receiver!Overflow(p), UNCHANGED <<senderVars, peerVars>>
  PROVE  Inv' /\ Promised
<1>1. /\ InHand(p)
      /\ UNCHANGED <<packet, receiveMax, received, totalReceived, incomingHold, peerClosed>>
      /\ peerDestroyed' = TRUE
      /\ status' = [s \in Streams |-> IF status[s] = "open" THEN "closed" ELSE status[s]]
      /\ Receiver!Answer(p, Receiver!Unexpected, "rejected")
  BY DEF Receiver!Overflow, Receiver!Receivable, InHand
<1>2. status' \in [Streams -> {"new", "open", "closed"}] /\ incomingHold' \in Long
  BY <1>1 DEF Inv, Types
<1>3. Refuses(p, Receiver!Unexpected) /\ Receiver!Unexpected.code = "F00"
  BY <1>1 DEF Refuses, Receiver!Answer, Receiver!Unexpected
<1> QED BY <1>1, <1>2, <1>3, RefusesKeeps

LEMMA DeclineKeeps == Inv /\ Decline => Inv' /\ Promised
<1> SUFFICES ASSUME Inv, Decline PROVE Inv' /\ Promised
  OBVIOUS
<1>1. PICK p \in Calls : Receiver!Decline(p)
  BY DEF Decline, Calls
<1>2. UNCHANGED <<senderVars, peerVars>>
  BY DEF Decline, Fault, senderVars, peerVars
<1>3. /\ InHand(p)
      /\ UNCHANGED <<packet, status, receiveMax, received, totalReceived, peerClosed, peerDestroyed>>
      /\ incomingHold' = checkedSubtract(incomingHold, packet[p].amount).difference
      /\ Receiver!Answer(p, Receiver!Final({}, {}), "rejected")
  BY <1>1, ArithCopies DEF Receiver!Decline, InHand, Receiver!streamVars, Receiver!WithoutHold
<1>4. /\ status' \in [Streams -> {"new", "open", "closed"}]
      /\ peerDestroyed' \in BOOLEAN
      /\ ~peerDestroyed' => ~peerDestroyed /\ \A t \in Streams : status'[t] # "closed"
  BY <1>3 DEF Inv, Types, PathInv
<1>5. incomingHold' \in Long
  <2>1. packet[p].amount \in Long
    BY <1>3, PrepareAmount, InHandFacts
  <2>2. incomingHold \in Long
    BY DEF Inv, Types
  <2> QED BY <1>3, <2>1, <2>2, SubtractIsLong
<1>6. Refuses(p, Receiver!Final({}, {})) /\ Receiver!Final({}, {}).code = "F99"
  BY <1>3, FinalIsPast DEF Refuses, Receiver!Answer
<1> QED BY <1>2, <1>3, <1>4, <1>5, <1>6, RefusesKeeps

\* What may be received is no less when the limit is raised, and receiving what the rest of
\* a limit allows keeps the total within what the whole limit allows.
LEMMA OnePercent ==
  ASSUME NEW m \in Nat, NEW n \in Nat, m <= n
  PROVE  /\ Ceil(m, 101, 100) \in Nat /\ Ceil(m, 101, 100) <= Ceil(n, 101, 100)
         /\ \A a \in Nat : a <= Ceil(n - m, 101, 100) => m + a <= Ceil(n, 101, 100)
BY DEF Ceil

\* A packet that is not refused fits, in the connection's total and in every stream's.
LEMMA Admitted ==
  ASSUME Inv, NEW p \in Calls, Receiver!Receivable(p), ~Receiver!IncomingHold(packet[p].amount).overflow
  PROVE  /\ Receiver!IncomingHold(packet[p].amount).sum \in Long
         /\ totalReceived + packet[p].amount <= MaxLong
         /\ \A s \in Streams : received[s] + Receiver!StreamAmount(packet[p], s) <= Ceil(receiveMax[s], 101, 100)
<1>1. InHand(p) /\ stage[p] = "generating" /\ Receiver!Stopping(packet[p]) = {}
  BY DEF Receiver!Receivable, InHand
<1>2. packet[p] = Prepare
  BY <1>1, InHandFacts
<1> DEFINE a == packet[p].amount
           t == checkedAdd(totalReceived, incomingHold).sum
<1>3. a \in Long /\ a \in Nat
  BY <1>2, PrepareAmount
<1>4. Receiver!IncomingHold(a) = checkedAdd(t, a)
  BY ArithCopies DEF Receiver!IncomingHold
<1>5. totalReceived \in Long /\ incomingHold \in Long
  BY DEF Inv, Types
<1>6. t \in Long /\ totalReceived <= t
  <2>1. t = SaturatingSum(totalReceived, incomingHold) /\ t \in Long
    BY <1>5, CheckedAddSaturates
  <2> QED BY <1>5, <2>1, MaxLongAssumption DEF SaturatingSum, minLong, Long
<1>7. checkedAdd(t, a).sum \in Long /\ t + a <= MaxLong
  <2> HIDE DEF t, a
  <2>1. checkedAdd(t, a) = [sum |-> SaturatingSum(t, a), overflow |-> t + a > MaxLong]
        /\ SaturatingSum(t, a) \in Long
    BY <1>3, <1>6, CheckedAddSaturates
  <2>2. ~ (t + a > MaxLong)
    <3>1. checkedAdd(t, a).overflow = (t + a > MaxLong)
      BY <1>3, <1>6, CheckedAddSaturates
    <3>2. packet[p].amount = a
      BY DEF a
    <3> QED BY <1>4, <3>1, <3>2
  <2> QED BY <1>3, <1>6, <2>1, <2>2, MaxLongAssumption DEF Long
<1>8. ASSUME NEW s \in Streams
      PROVE  received[s] + Receiver!StreamAmount(Prepare, s) <= Ceil(receiveMax[s], 101, 100)
  <2> DEFINE x    == Receiver!StreamAmount(Prepare, s)
             rest == Receiver!_getAmountStreamCanReceive(s)
  <2>1. /\ x \in Nat /\ (request.money[s] = 0 => x = 0) /\ request.money[s] \in Nat
        /\ Prepare.shares = request.money
    BY PrepareFacts DEF Prepare
  <2>2. received[s] \in Nat /\ receiveMax[s] \in Nat /\ received[s] <= Ceil(receiveMax[s], 101, 100)
    BY MaxLongAssumption DEF Inv, Types, CreditInv, Long
  <2>3. rest = IF receiveMax[s] < received[s] THEN 0 ELSE receiveMax[s] - received[s]
    <3>1. received[s] \in Long /\ receiveMax[s] \in Long
      BY DEF Inv, Types
    <3>2. received[s] <= receiveMax[s] => checkedSubtract(receiveMax[s], received[s]).difference = receiveMax[s] - received[s]
      BY <3>1, CheckedSubtractExact
    <3> QED BY <2>2, <3>2, ArithCopies DEF Receiver!_getAmountStreamCanReceive
  <2>4. rest \in Nat /\ Ceil(rest, 101, 100) \in Nat
    BY <2>2, <2>3, OnePercent
  <2>5. CASE request.money[s] = 0
    BY <2>1, <2>2, <2>5
  <2>6. CASE request.money[s] # 0
    <3>1. s \in Receiver!MoneyStreams(Prepare)
      BY <2>1, <2>6 DEF Receiver!MoneyStreams
    <3>2. ~ Receiver!TooMuch(Prepare, s)
      BY <1>1, <1>2, <3>1 DEF Receiver!Stopping
    <3>3. Receiver!AllowableReceive(rest) = minLong(Ceil(rest, 101, 100), MaxLong)
      BY ArithCopies DEF Receiver!AllowableReceive
    <3> HIDE DEF x, rest
    <3>4. ~ (minLong(Ceil(rest, 101, 100), MaxLong) < x)
      BY <3>2, <3>3 DEF Receiver!TooMuch, x, rest
    <3>5. x <= Ceil(rest, 101, 100)
      BY <2>1, <2>4, <3>4, MaxLongAssumption DEF minLong
    <3>6. CASE receiveMax[s] < received[s]
      <4>1. Ceil(0, 101, 100) = 0
        BY DEF Ceil
      <4>2. x = 0
        BY <2>1, <2>3, <3>5, <3>6, <4>1
      <4> QED BY <2>2, <4>2 DEF x
    <3>7. CASE ~ (receiveMax[s] < received[s])
      <4>1. received[s] <= receiveMax[s] /\ x <= Ceil(receiveMax[s] - received[s], 101, 100)
        BY <2>2, <2>3, <3>5, <3>7
      <4> QED BY <2>1, <2>2, <4>1, OnePercent DEF x
    <3> QED BY <3>6, <3>7
  <2> QED BY <2>5, <2>6
<1> QED BY <1>2, <1>3, <1>4, <1>5, <1>6, <1>7, <1>8, MaxLongAssumption DEF Long

LEMMA HoldKeeps ==
  ASSUME Inv, NEW p \in Calls, Receiver!Hold(p), UNCHANGED <<senderVars, peerVars>>
  PROVE  Inv' /\ Promised
<1>1. /\ Receiver!Receivable(p) /\ ~Receiver!IncomingHold(packet[p].amount).overflow
      /\ incomingHold' = Receiver!IncomingHold(packet[p].amount).sum
      /\ stage' = [stage EXCEPT ![p] = "deciding"]
      /\ UNCHANGED <<packet, response, status, receiveMax, received, remoteClosed, totalReceived,
                     peerDestroyed, peerClosed>>
  BY DEF Receiver!Hold, Receiver!streamVars
<1>2. InHand(p) /\ stage[p] = "generating"
  BY <1>1 DEF Receiver!Receivable, InHand
<1>3. /\ UNCHANGED <<loop, connected, destroyed, nextSequence, request, life, totalSent, sendMax, peak,
                     held, holds, remoteReceived, remoteReceiveMax, announced>>
  BY DEF senderVars, peerVars
<1>4. /\ incomingHold' \in Long /\ totalReceived + packet[p].amount <= MaxLong
      /\ \A s \in Streams : received[s] + Receiver!StreamAmount(packet[p], s) <= Ceil(receiveMax[s], 101, 100)
  BY <1>1, Admitted
<1>5. /\ stage'[p] = "deciding" /\ \A q \in Calls : q # p => stage'[q] = stage[q]
      /\ stage' \in [Calls -> Stages]
      /\ \A q \in Calls : InHand(q)' => q = p
  <2>1. /\ stage'[p] = "deciding" /\ \A q \in Calls : q # p => stage'[q] = stage[q]
        /\ stage' \in [Calls -> Stages]
    BY <1>1 DEF Inv, Types, Stages
  <2> QED BY <1>2, <2>1, InHandFacts DEF InHand
<1>6. Types'
  BY <1>1, <1>3, <1>4, <1>5 DEF Inv, Types
<1>7. LoopInv' /\ HeldInv' /\ Prepare' = Prepare
  BY <1>1, ReceiverStepKeeps DEF peerVars
<1>8. PathInv'
  <2>1. ASSUME NEW q \in Calls
        PROVE  /\ nextSequence <= q => stage'[q] = "idle"
               /\ response[q].code \in IF stage'[q] = "fulfilled" THEN {"fulfill"}
                                       ELSE IF stage'[q] = "rejected" THEN {"F99", "F00"} ELSE {"none"}
    BY <1>2, <1>5 DEF Inv, PathInv
  <2>2. /\ packet[p] = Prepare /\ p = request.seq /\ (loop = "waiting" \/ destroyed)
        /\ (peerDestroyed => destroyed) /\ (~peerDestroyed => \A s \in Streams : status[s] = "open")
    BY <1>2, InHandFacts DEF Inv, PathInv
  <2> QED BY <1>1, <1>3, <1>5, <1>7, <2>1, <2>2 DEF Inv, PathInv
<1>9. NewsInv'
  BY <1>1, <1>3 DEF Inv, NewsInv, KnowledgeIsPast, Past
<1>10. BooksInv'
  <2>1. stage'[request.seq] # "fulfilled" /\ stage[request.seq] # "fulfilled"
    BY <1>2, <1>5, InHandFacts
  <2> QED BY <1>1, <1>3, <2>1 DEF Inv, BooksInv, Delivered
<1>11. CreditInv'
  BY <1>1, <1>4, <1>5 DEF Inv, CreditInv, InHand, Receiver!StreamAmount, Receiver!TotalShares
<1>12. Promised
  <2>1. Unsettled = Sender!NoMoney /\ Unsettled' = Sender!NoMoney
    BY <1>2, <1>3, <1>5, InHandFacts DEF Unsettled, Sender!NoMoney
  <2> QED BY <1>1, <1>3, <2>1, NothingMoves
<1> QED BY <1>6, <1>7, <1>8, <1>9, <1>10, <1>11, <1>12 DEF Inv

\* The packet in hand fits.
Fits(p) ==
  /\ InHand(p) /\ totalReceived + packet[p].amount <= MaxLong
  /\ \A s \in Streams : received[s] + Receiver!StreamAmount(packet[p], s) <= Ceil(receiveMax[s], 101, 100)

\* What fulfilling it credits.
LEMMA Credits ==
  ASSUME Inv, NEW p \in Calls, Fits(p), NEW hold \in Long, Receiver!Fulfill(p, hold)
  PROVE  /\ received' = [s \in Streams |-> received[s] + Receiver!StreamAmount(Prepare, s)]
         /\ received' = Receiver!Credited(packet[p])
         /\ received' \in [Streams -> Long] /\ \A s \in Streams : received[s] <= received'[s]
         /\ totalReceived' \in Long /\ incomingHold' \in Long
         /\ \A s \in Streams : received'[s] <= totalReceived' /\ received'[s] <= Ceil(receiveMax[s], 101, 100)
<1>1. packet[p] = Prepare /\ Prepare.amount \in Long /\ Prepare.amount \in Nat
  BY InHandFacts, PrepareAmount DEF Fits
<1>2. totalReceived + Prepare.amount <= MaxLong
  BY <1>1 DEF Fits
<1>3. totalReceived \in Long /\ totalReceived \in Nat /\ hold \in Long
  BY MaxLongAssumption DEF Inv, Types, Long
<1>4. \A a \in Long, b \in Long : a + b <= MaxLong => checkedAdd(a, b).sum = a + b /\ a + b \in Long
  <2> SUFFICES ASSUME NEW a \in Long, NEW b \in Long, a + b <= MaxLong
               PROVE  checkedAdd(a, b).sum = a + b /\ a + b \in Long
    OBVIOUS
  <2>1. checkedAdd(a, b).sum = SaturatingSum(a, b)
    BY CheckedAddSaturates
  <2> QED BY <2>1, MaxLongAssumption DEF SaturatingSum, minLong, Long
<1>5. totalReceived' = totalReceived + Prepare.amount /\ totalReceived' \in Long
  <2>1. totalReceived' = checkedAdd(totalReceived, Prepare.amount).sum
    BY <1>1, ArithCopies DEF Receiver!Fulfill, Receiver!addTotalReceived
  <2> QED BY <1>1, <1>2, <1>3, <1>4, <2>1
<1>6. incomingHold' \in Long
  BY <1>1, <1>3, SubtractIsLong, ArithCopies DEF Receiver!Fulfill, Receiver!WithoutHold
<1>7. ASSUME NEW s \in Streams
      PROVE  LET x == Receiver!StreamAmount(Prepare, s)
             IN  /\ Receiver!checkedAdd(received[s], x).sum = received[s] + x
                 /\ received[s] + x \in Long /\ received[s] <= received[s] + x
                 /\ received[s] + x <= totalReceived'
                 /\ received[s] + x <= Ceil(receiveMax[s], 101, 100)
  <2> DEFINE x == Receiver!StreamAmount(Prepare, s)
  <2>1. x \in Nat /\ x <= Prepare.amount
    BY PrepareFacts
  <2>2. received[s] \in Long /\ received[s] \in Nat /\ received[s] <= totalReceived
    BY MaxLongAssumption DEF Inv, Types, CreditInv, Long
  <2>3. received[s] + x <= Ceil(receiveMax[s], 101, 100)
    BY <1>1 DEF Fits
  <2> HIDE DEF x
  <2>4. x \in Long /\ received[s] + x <= totalReceived' /\ received[s] + x <= MaxLong
    BY <1>1, <1>2, <1>3, <1>5, <2>1, <2>2, MaxLongAssumption DEF Long
  <2>5. checkedAdd(received[s], x).sum = received[s] + x /\ received[s] + x \in Long
    BY <1>4, <2>2, <2>4
  <2>6. Receiver!checkedAdd(received[s], x) = checkedAdd(received[s], x)
    BY ArithCopies
  <2> QED BY <2>1, <2>2, <2>3, <2>4, <2>5, <2>6 DEF x
<1>8. received' = [s \in Streams |-> Receiver!checkedAdd(received[s], Receiver!StreamAmount(Prepare, s)).sum]
  BY <1>1 DEF Receiver!Fulfill, Receiver!Credited
<1>9. received' = [s \in Streams |-> received[s] + Receiver!StreamAmount(Prepare, s)]
  BY <1>7, <1>8
<1>10. received' = Receiver!Credited(packet[p])
  BY DEF Receiver!Fulfill
<1> QED BY <1>5, <1>6, <1>7, <1>9, <1>10

LEMMA FulfillKeeps ==
  ASSUME Inv, NEW p \in Calls, Fits(p), NEW hold \in Long, Receiver!Fulfill(p, hold),
         UNCHANGED <<senderVars, peerVars>>
  PROVE  Inv' /\ Promised
<1>1. UNCHANGED <<packet, status, receiveMax, peerClosed, peerDestroyed>>
  BY DEF Receiver!Fulfill
<1>2. /\ InHand(p) /\ packet[p] = Prepare /\ p = request.seq /\ (loop = "waiting" \/ destroyed)
      /\ \A q \in Calls : InHand(q) => q = p
      /\ peerDestroyed => destroyed
  BY InHandFacts DEF Fits
<1>3. /\ received' = Receiver!Credited(packet[p])
      /\ received' \in [Streams -> Long] /\ \A s \in Streams : received[s] <= received'[s]
      /\ totalReceived' \in Long /\ incomingHold' \in Long
      /\ \A s \in Streams : received'[s] <= totalReceived' /\ received'[s] <= Ceil(receiveMax[s], 101, 100)
  BY Credits
<1>4. /\ UNCHANGED <<loop, connected, destroyed, nextSequence, request, life, totalSent, sendMax, peak,
                     held, holds, remoteReceived, remoteReceiveMax, announced>>
  BY DEF senderVars, peerVars
<1>5. PICK S \in SUBSET Streams, C \in SUBSET Streams :
        /\ Receiver!Answer(p, [code |-> "fulfill", limits |-> Receiver!MaxMoney(S, received'), closes |-> C],
                           "fulfilled")
        /\ (\A s \in Streams : status[s] = "open") => S = Streams
  <2> DEFINE known == {s \in Streams : status[s] \in {"open", "closed"}}
             tell  == {s \in known : status[s] = "closed" /\ ~remoteClosed[s]}
  <2>1. Receiver!Answer(p, [code |-> "fulfill",
                            limits |-> Receiver!MaxMoney(known \ tell, Receiver!Credited(packet[p])),
                            closes |-> tell], "fulfilled")
    BY DEF Receiver!Fulfill, Inv, LoopInv
  <2>2. /\ known \ tell \in SUBSET Streams /\ tell \in SUBSET Streams
        /\ (\A s \in Streams : status[s] = "open") => known \ tell = Streams
    OBVIOUS
  <2> HIDE DEF known, tell
  <2> QED BY <1>3, <2>1, <2>2
<1>6. /\ stage'[p] = "fulfilled" /\ \A q \in Calls : q # p => stage'[q] = stage[q]
      /\ stage' \in [Calls -> Stages] /\ DOMAIN response' = Calls
      /\ response'[p] = [code |-> "fulfill", limits |-> Receiver!MaxMoney(S, received'), closes |-> C]
      /\ \A q \in Calls : q # p => response'[q] = response[q]
  BY <1>5 DEF Receiver!Answer, Inv, Types, Stages
<1>7. /\ response'[p].code = "fulfill" /\ DOMAIN response'[p].limits = S
       /\ \A s \in S : /\ response'[p].limits[s].receiveMax = receiveMax[s]
                      /\ response'[p].limits[s].totalReceived = received'[s]
  BY <1>6 DEF Receiver!MaxMoney
<1>8. \A q \in Calls : ~InHand(q)'
  BY <1>2, <1>6 DEF InHand
<1>9. Types'
  BY <1>1, <1>3, <1>4, <1>6 DEF Inv, Types
<1>10. LoopInv' /\ HeldInv' /\ Prepare' = Prepare
  BY <1>1, ReceiverStepKeeps DEF peerVars
<1>11. PathInv'
  <2>1. p \in Nat /\ nextSequence \in Nat /\ p < nextSequence
    BY <1>2, TransferAssumption DEF Inv, PathInv, Types, Calls
  <2>2. ASSUME NEW q \in Calls
        PROVE  /\ nextSequence <= q => stage'[q] = "idle"
               /\ response'[q].code \in IF stage'[q] = "fulfilled" THEN {"fulfill"}
                                        ELSE IF stage'[q] = "rejected" THEN {"F99", "F00"} ELSE {"none"}
    <3>1. CASE q = p
      BY <1>6, <1>7, <2>1, <3>1
    <3>2. CASE q # p
      BY <1>6, <3>2 DEF Inv, PathInv
    <3> QED BY <3>1, <3>2
  <2>3. request.seq < nextSequence /\ (~peerDestroyed => \A s \in Streams : status[s] # "closed")
    BY DEF Inv, PathInv
  <2> QED BY <1>1, <1>2, <1>4, <1>8, <2>2, <2>3 DEF PathInv
<1>12. receiveMax' \in [Streams -> Long] /\ \A s \in Streams : receiveMax[s] <= receiveMax'[s]
  BY <1>1, MaxLongAssumption DEF Inv, Types, Long
<1>13. NewsInv'
  <2>1. KnowledgeIsPast'
    BY <1>3, <1>4, <1>12, StaysKnown
  <2>2. \A limits : Past(limits) => PastThen(limits)
    BY <1>3, <1>12, StaysPast
  <2>3. PastThen(announced')
    BY <1>4, <2>2 DEF Inv, NewsInv
  <2>4. PastThen(response'[p].limits)
    <3>1. \A s \in Streams : received'[s] \in 0 .. received'[s] /\ receiveMax[s] \in 0 .. receiveMax'[s]
      BY <1>1, <1>3, <1>12, MaxLongAssumption DEF Long
    <3> QED BY <1>5, <1>7, <3>1 DEF PastThen
  <2>5. ASSUME NEW q \in Calls, response'[q].code \in {"fulfill", "F99"}
        PROVE  PastThen(response'[q].limits)
    <3>1. CASE q = p
      BY <2>4, <3>1
    <3>2. CASE q # p
      BY <1>6, <2>2, <2>5, <3>2 DEF Inv, NewsInv
    <3> QED BY <3>1, <3>2
  <2> QED BY <2>1, <2>3, <2>5 DEF NewsInv, Past, PastThen
<1>14. BooksInv'
  <2> SUFFICES ASSUME ~destroyed, NEW s \in Streams
               PROVE  s \in S /\ response'[p].limits[s].totalReceived = received'[s]
    BY <1>2, <1>4, <1>6, <1>7 DEF BooksInv, Delivered
  <2>1. S = Streams
    BY <1>2, <1>5 DEF Inv, PathInv
  <2> QED BY <1>7, <2>1
<1>15. Promised
  <2>1. /\ Unsettled = Sender!NoMoney /\ Unsettled' = request.money
    BY <1>2, <1>4, <1>6 DEF Unsettled, Sender!NoMoney, InHand
  <2>2. received' = [s \in Streams |-> received[s] + Receiver!StreamAmount(Prepare, s)]
    BY Credits
  <2>3. ASSUME NEW s \in Streams
        PROVE  /\ received[s] \in Nat /\ request.money[s] \in Nat
               /\ received[s] + Receiver!StreamAmount(Prepare, s)
                    = IF request.money[s] = 0 THEN received[s]
                      ELSE received[s] + Promise!Share(request.money, s)
    <3>1. received[s] \in Nat
      BY MaxLongAssumption DEF Inv, Types, Long
    <3> QED BY <3>1, PrepareFacts
  <2>4. received' = [s \in Streams |-> IF request.money[s] = 0 THEN received[s]
                                       ELSE received[s] + Promise!Share(request.money, s)]
    BY <2>2, <2>3
  <2>5. CASE request.money = [s \in Streams |-> 0]
    <3>1. received = [s \in Streams |-> received[s]]
      BY DEF Inv, Types
    <3>2. received' = received
      BY <2>4, <2>5, <3>1
    <3> QED BY <1>1, <1>4, <2>1, <2>5, <3>2, NothingMoves DEF Sender!NoMoney
  <2>6. CASE request.money # [s \in Streams |-> 0]
    <3>1. request.money \in [Streams -> Promise!Long]
      BY ArithCopies DEF Inv, Types
    <3>2. \A s \in Streams : totalSent[s] + request.money[s] <= peak[s]
      BY <1>2 DEF Inv, HeldInv
    <3>3. \A s \in Streams : received'[s] <= Promise!Allowed(receiveMax[s])
      BY <1>3, ArithCopies DEF Promise!Allowed
    <3>4. Promise!Deliver(request.money)
      BY <1>1, <1>4, <2>1, <2>4, <2>6, <3>2, <3>3 DEF Promise!Deliver, Promise!Zero, Unsettled, Sender!NoMoney
    <3> QED BY <3>1, <3>4 DEF Promised, Promise!Next
  <2> QED BY <2>5, <2>6
<1>16. CreditInv'
  BY <1>1, <1>3, <1>8 DEF CreditInv, InHand
<1> QED BY <1>9, <1>10, <1>11, <1>13, <1>14, <1>15, <1>16 DEF Inv

LEMMA HandleKeeps == Inv /\ Handle => Inv' /\ Promised
<1> SUFFICES ASSUME Inv, Handle PROVE Inv' /\ Promised
  OBVIOUS
<1>1. UNCHANGED <<senderVars, peerVars>>
  BY DEF Handle
<1>2. PICK p \in Calls : Receiver!Decide(p) \/ Receiver!Accept(p)
  BY DEF Handle, Calls
<1>3. CASE Receiver!Refuse(p)
  BY <1>1, <1>3, RefuseKeeps
<1>4. CASE Receiver!Overflow(p)
  BY <1>1, <1>4, OverflowKeeps
<1>5. CASE Receiver!Hold(p)
  BY <1>1, <1>5, HoldKeeps
<1>6. CASE Receiver!FulfillAtOnce(p)
  <2>1. Receiver!Receivable(p) /\ ~Receiver!IncomingHold(packet[p].amount).overflow
    BY <1>6 DEF Receiver!FulfillAtOnce
  <2>2. Fits(p) /\ Receiver!IncomingHold(packet[p].amount).sum \in Long
    BY <2>1, Admitted DEF Fits, InHand, Receiver!Receivable
  <2>3. Receiver!Fulfill(p, Receiver!IncomingHold(packet[p].amount).sum)
    BY <1>6 DEF Receiver!FulfillAtOnce
  <2> QED BY <1>1, <2>2, <2>3, FulfillKeeps
<1>7. CASE Receiver!Accept(p)
  <2>1. stage[p] = "deciding" /\ Receiver!Fulfill(p, incomingHold)
    BY <1>7 DEF Receiver!Accept
  <2>2. Fits(p) /\ incomingHold \in Long
    BY <2>1 DEF Fits, InHand, Inv, CreditInv, Types
  <2> QED BY <1>1, <2>1, <2>2, FulfillKeeps
<1> QED BY <1>2, <1>3, <1>4, <1>5, <1>6, <1>7 DEF Receiver!Decide

\* setReceiveMax raises the limit of one stream.
LEMMA SetReceiveMaxKeeps ==
  ASSUME Inv, NEW s \in Streams, NEW limit \in ReceiveLimits, SetReceiveMax(s, limit)
  PROVE  Inv' /\ Promised
<1>1. /\ receiveMax' = [receiveMax EXCEPT ![s] = limit] /\ receiveMax[s] <= limit
      /\ UNCHANGED <<stage, packet, response, status, received, totalReceived, incomingHold,
                     peerClosed, peerDestroyed>>
      /\ UNCHANGED <<senderVars, announced>>
  BY DEF SetReceiveMax, Receiver!SetReceiveMax, Receiver!moneyVars
<1>2. UNCHANGED <<loop, connected, destroyed, nextSequence, request, life, totalSent, sendMax, peak,
                  held, holds, remoteReceived, remoteReceiveMax, announced>>
  BY <1>1 DEF senderVars
<1>3. /\ receiveMax' \in [Streams -> Long] /\ received' \in [Streams -> Long]
      /\ \A t \in Streams : receiveMax[t] <= receiveMax'[t] /\ received[t] <= received'[t]
  <2>1. limit \in Long /\ receiveMax \in [Streams -> Long] /\ received \in [Streams -> Long]
    BY TransferAssumption DEF Inv, Types
  <2> QED BY <1>1, <2>1, MaxLongAssumption DEF Long
<1>4. Types'
  BY <1>1, <1>2, <1>3 DEF Inv, Types
<1>5. LoopInv' /\ HeldInv' /\ Prepare' = Prepare
  BY <1>1, ReceiverStepKeeps
<1>6. PathInv'
  BY <1>1, <1>2, <1>5 DEF Inv, PathInv, InHand
<1>7. NewsInv'
  <2>1. KnowledgeIsPast'
    BY <1>2, <1>3, StaysKnown
  <2>2. \A limits : Past(limits) => PastThen(limits)
    BY <1>3, StaysPast
  <2> QED BY <1>1, <1>2, <2>1, <2>2 DEF Inv, NewsInv, Past, PastThen
<1>8. BooksInv'
  BY <1>1, <1>2 DEF Inv, BooksInv, Delivered
<1>9. CreditInv'
  <2>1. ASSUME NEW t \in Streams, NEW x \in Int, x <= Ceil(receiveMax[t], 101, 100)
        PROVE  x <= Ceil(receiveMax'[t], 101, 100)
    <3>1. receiveMax[t] \in Nat /\ receiveMax'[t] \in Nat /\ receiveMax[t] <= receiveMax'[t]
      BY <1>3, MaxLongAssumption DEF Inv, Types, Long
    <3>2. /\ Ceil(receiveMax[t], 101, 100) <= Ceil(receiveMax'[t], 101, 100)
          /\ Ceil(receiveMax[t], 101, 100) \in Nat /\ Ceil(receiveMax'[t], 101, 100) \in Nat
      BY <3>1, OnePercent
    <3> QED BY <2>1, <3>2
  <2>2. ASSUME NEW t \in Streams
        PROVE  received[t] \in Int
    BY MaxLongAssumption DEF Inv, Types, Long
  <2>3. ASSUME NEW p \in Calls, stage[p] = "deciding", NEW t \in Streams
        PROVE  received[t] + Receiver!StreamAmount(packet[p], t) <= Ceil(receiveMax'[t], 101, 100)
    <3>1. packet[p] = Prepare
      BY <2>3, InHandFacts DEF InHand
    <3>2. received[t] + Receiver!StreamAmount(packet[p], t) \in Int
      BY <2>2, <3>1, PrepareFacts
    <3>3. received[t] + Receiver!StreamAmount(packet[p], t) <= Ceil(receiveMax[t], 101, 100)
      BY <2>3 DEF Inv, CreditInv
    <3> QED BY <2>1, <3>2, <3>3
  <2>4. \A t \in Streams : received[t] <= totalReceived /\ received[t] <= Ceil(receiveMax'[t], 101, 100)
    BY <2>1, <2>2 DEF Inv, CreditInv
  <2> QED BY <1>1, <2>3, <2>4 DEF Inv, CreditInv, Receiver!StreamAmount, Receiver!TotalShares
<1>10. Promised
  <2>1. Unsettled' = Unsettled
    BY <1>1, <1>2 DEF Unsettled, Sender!NoMoney
  <2>2. peak' \in [Streams -> Long] /\ \A t \in Streams : peak[t] <= peak'[t]
    BY <1>2, MaxLongAssumption DEF Inv, Types, Long
  <2> QED BY <1>1, <1>2, <1>3, <2>1, <2>2, LimitsMove
<1> QED BY <1>4, <1>5, <1>6, <1>7, <1>8, <1>9, <1>10 DEF Inv

-----------------------------------------------------------------------------
(* The other steps.                                                         *)

\* A step that changes nothing of the sender's but what it allows and knows.
LEMMA PeerStepKeeps ==
  ASSUME Inv, UNCHANGED <<senderVars, receiverVars>>, Past(announced')
  PROVE  Inv' /\ Promised
<1>1. UNCHANGED <<loop, connected, destroyed, nextSequence, request, life, totalSent, sendMax, peak,
                  held, holds, remoteReceived, remoteReceiveMax>>
  BY DEF senderVars
<1>2. QuietLoop
  BY <1>1, TransferAssumption DEF QuietLoop, Inv, Types, LoopInv, LifeKinds, Calls
<1>3. LimitsRaised
  BY <1>1, SameLimits
<1>4. NewsTaken
  BY <1>1, NoNews
<1> QED BY <1>2, <1>3, <1>4, QuietKeeps

LEMMA AnnounceKeeps == Inv /\ Announce => Inv' /\ Promised
<1> SUFFICES ASSUME Inv, Announce PROVE Inv' /\ Promised
  OBVIOUS
<1>1. Past(Receiver!MaxMoney({s \in Streams : status[s] = "open"}, received))
  <2>1. {s \in Streams : status[s] = "open"} \in SUBSET Streams
    OBVIOUS
  <2> QED BY <2>1, FinalIsPast
<1> QED BY <1>1, PeerStepKeeps DEF Announce

LEMMA AnnouncementRefusedKeeps == Inv /\ AnnouncementRefused => Inv' /\ Promised
BY PeerStepKeeps DEF AnnouncementRefused, PeerGoesOn, Inv, NewsInv

LEMMA StutterKeeps == Inv /\ UNCHANGED vars => Inv' /\ Promised
BY PeerStepKeeps DEF vars, peerVars, Inv, NewsInv

LEMMA ConnectKeeps == Inv /\ Connect => Inv' /\ Promised
<1> SUFFICES ASSUME Inv, Connect PROVE Inv' /\ Promised
  OBVIOUS
<1>1. /\ loop = "connecting" /\ ~connected /\ connected'
      /\ UNCHANGED <<receiverVars, announced, sendMax, totalSent, held, holds, remoteReceived, remoteReceiveMax, peak>>
  BY DEF Connect, Sender!setupExchangeRate, Sender!moneyVars, Sender!remoteVars, peerVars, Inv, LoopInv
<1>2. /\ connected' = TRUE /\ loop' \in {"idle", "tick"}
      /\ UNCHANGED <<destroyed, nextSequence, request>>
      /\ \/ UNCHANGED life
         \/ life' = [s \in Streams |-> IF life[s] = "ending" THEN "closed" ELSE life[s]]
  BY <1>1 DEF Connect, Sender!setupExchangeRate, Sender!Continue, Sender!Destroy, Sender!LoopFinished
<1>3. life' \in [Streams -> LifeKinds] /\ \A s \in Streams : life[s] = "closed" => life'[s] = "closed"
  BY <1>2 DEF Inv, Types, LifeKinds
<1>4. QuietLoop
  BY <1>1, <1>2, <1>3, TransferAssumption DEF QuietLoop, Inv, Types, LoopInv, Calls
<1>5. LimitsRaised
  BY <1>1, SameLimits
<1>6. NewsTaken
  BY <1>1, NoNews
<1>7. Past(announced')
  BY <1>1 DEF Inv, NewsInv
<1> QED BY <1>4, <1>5, <1>6, <1>7, QuietKeeps

LEMMA BackoffKeeps ==
  ASSUME Inv, Sender!BackoffOver, UNCHANGED <<receiverVars, announced>>
  PROVE  Inv' /\ Promised
<1>1. /\ loop = "backoff" /\ loop' \in {"idle", "tick"}
      /\ UNCHANGED <<connected, destroyed, nextSequence, request, sendMax, totalSent, held, holds,
                     remoteReceived, remoteReceiveMax, peak>>
      /\ Sender!LifeAfter({}, sending)
  BY DEF Sender!BackoffOver, Sender!Continue, Sender!moneyVars, Sender!remoteVars
<1>2. life' \in [Streams -> LifeKinds] /\ \A s \in Streams : life[s] = "closed" => life'[s] = "closed"
  BY <1>1, LifeAfterCloses
<1>3. QuietLoop
  BY <1>1, <1>2, TransferAssumption DEF QuietLoop, Inv, Types, LoopInv, Calls
<1>4. LimitsRaised
  BY <1>1, SameLimits
<1>5. NewsTaken
  BY <1>1, NoNews
<1> QED BY <1>3, <1>4, <1>5, QuietKeeps DEF Inv, NewsInv

\* setSendMax moves the limit of one stream.
LEMMA SetSendMaxKeeps ==
  ASSUME Inv, NEW s \in Streams, NEW limit \in SendLimits, SetSendMax(s, limit)
  PROVE  Inv' /\ Promised
<1>1. /\ Sender!isOpen(s) /\ Sender!startSendLoop
      /\ sendMax' = [sendMax EXCEPT ![s] = limit]
      /\ peak' = [peak EXCEPT ![s] = maxLong(@, limit)]
      /\ UNCHANGED <<receiverVars, announced, life, totalSent, held, holds, remoteReceived, remoteReceiveMax>>
  BY ArithCopies DEF SetSendMax, Sender!setSendMax, peerVars, Sender!streamVars, Sender!moneyVars, Sender!remoteVars
<1>2. ~destroyed
  BY <1>1 DEF Inv, LoopInv, Sender!isOpen
<1>3. /\ loop' \in {"idle", "connecting", "tick", "waiting", "backoff"}
      /\ (loop' = "waiting") <=> (loop = "waiting")
      /\ connected' = connected /\ (loop' = "connecting" => ~connected)
      /\ UNCHANGED <<destroyed, nextSequence, request>>
  BY <1>1, <1>2, Starts
<1>4. QuietLoop
  BY <1>1, <1>2, <1>3, TransferAssumption DEF QuietLoop, Inv, Types, LifeKinds, Calls
<1>5. LimitsRaised
  <2>1. limit \in Long /\ 2 * limit <= MaxLong
    BY TransferAssumption
  <2>2. /\ sendMax \in [Streams -> Long] /\ peak \in [Streams -> Long]
        /\ \A t \in Streams : sendMax[t] <= peak[t] /\ 2 * peak[t] <= MaxLong
    BY DEF Inv, Types, HeldInv
  <2>3. limit \in Nat /\ \A t \in Streams : sendMax[t] \in Nat /\ peak[t] \in Nat
    BY <2>1, <2>2, MaxLongAssumption DEF Long
  <2>4. maxLong(peak[s], limit) \in {peak[s], limit} /\ peak[s] <= maxLong(peak[s], limit)
        /\ limit <= maxLong(peak[s], limit)
    BY <2>3 DEF maxLong
  <2>5. /\ sendMax' = [sendMax EXCEPT ![s] = limit]
        /\ peak' = [peak EXCEPT ![s] = maxLong(peak[s], limit)]
    BY <1>1
  <2>6. sendMax' \in [Streams -> Long] /\ peak' \in [Streams -> Long]
    BY <2>1, <2>2, <2>4, <2>5
  <2>7. ASSUME NEW t \in Streams
        PROVE  peak[t] <= peak'[t] /\ sendMax'[t] <= peak'[t] /\ 2 * peak'[t] <= MaxLong
    <3>1. CASE t = s
      <4>1. sendMax'[t] = limit /\ peak'[t] = maxLong(peak[s], limit)
        BY <2>2, <2>5, <3>1
      <4> QED BY <2>1, <2>2, <2>4, <3>1, <4>1
    <3>2. CASE t # s
      <4>1. sendMax'[t] = sendMax[t] /\ peak'[t] = peak[t]
        BY <2>2, <2>5, <3>2
      <4> QED BY <2>2, <2>3, <4>1
    <3> QED BY <3>1, <3>2
  <2> QED BY <2>6, <2>7 DEF LimitsRaised
<1>6. NewsTaken
  BY <1>1, NoNews
<1> QED BY <1>1, <1>4, <1>5, <1>6, QuietKeeps DEF Inv, NewsInv

LEMMA AnnouncementArrivesKeeps == Inv /\ AnnouncementArrives => Inv' /\ Promised
<1> SUFFICES ASSUME Inv, AnnouncementArrives PROVE Inv' /\ Promised
  OBVIOUS
<1>1. /\ Sender!TakeLimits(announced) /\ Past(announced)
      /\ UNCHANGED <<receiverVars, announced, life, sendMax, peak, totalSent, held, holds>>
  BY DEF AnnouncementArrives, PeerGoesOn, Sender!PeerAnnounces, Sender!streamVars, Sender!moneyVars,
         Inv, NewsInv
<1>2. NewsTaken
  BY <1>1, TakesNews
<1>3. /\ loop' \in {"idle", "connecting", "tick", "waiting", "backoff"}
      /\ (loop' = "waiting") <=> (loop = "waiting")
      /\ connected' = connected /\ (loop' = "connecting" => ~connected)
      /\ destroyed => loop' = "idle"
      /\ UNCHANGED <<destroyed, nextSequence, request>>
  <2>1. CASE Sender!Wakes(announced, held)
    <3>1. PICK s \in DOMAIN announced : Sender!isOpen(s)
      BY <2>1 DEF Sender!Wakes
    <3>2. s \in Streams
      BY <1>1, <3>1 DEF Past
    <3>3. ~destroyed
      BY <3>1, <3>2 DEF Inv, LoopInv, Sender!isOpen
    <3>4. Sender!startSendLoop
      BY <2>1 DEF AnnouncementArrives, Sender!PeerAnnounces
    <3> QED BY <3>3, <3>4, Starts
  <2>2. CASE ~ Sender!Wakes(announced, held)
    BY <2>2 DEF AnnouncementArrives, Sender!PeerAnnounces, Sender!loopVars, Inv, Types, LoopInv
  <2> QED BY <2>1, <2>2
<1>4. QuietLoop
  BY <1>1, <1>3, TransferAssumption DEF QuietLoop, Inv, Types, LifeKinds, Calls
<1>5. LimitsRaised
  BY <1>1, SameLimits
<1> QED BY <1>1, <1>2, <1>4, <1>5, QuietKeeps

-----------------------------------------------------------------------------
(* A packet is loaded.                                                      *)

\* What a packet may carry fits in a Long, on both sides of the exchange.
LEMMA LimitConverts ==
  ASSUME NEW test \in Long
  PROVE  /\ Sender!LimitFor(test) \in Nat /\ Sender!LimitFor(test) <= MaxLong
         /\ \A x \in Nat : x <= Sender!LimitFor(test) => Floor(x, RateNum, RateDen) \in Long
<1> DEFINE most == Floor(MaxLong, RateDen, RateNum)
<1>1. RateNum \in Nat \ {0} /\ RateDen \in Nat \ {0} /\ MaxLong \in Nat /\ test \in Nat /\ test <= MaxLong
  BY TransferAssumption, MaxLongAssumption DEF Long
<1>2. most \in Nat
  <2>1. MaxLong * RateDen \in Nat
    BY <1>1
  <2> QED BY <1>1, <2>1, QuotientNat DEF Floor
<1>3. Sender!LimitFor(test) = IF RateNum > RateDen THEN minLong(test, most) ELSE test
  BY ArithCopies DEF Sender!LimitFor
<1>4. CASE RateNum > RateDen
  <2>1. Sender!LimitFor(test) = minLong(test, most)
    BY <1>3, <1>4
  <2> HIDE DEF most
  <2>2. minLong(test, most) \in Nat /\ minLong(test, most) <= test /\ minLong(test, most) <= most
    BY <1>1, <1>2 DEF minLong
  <2>3. ASSUME NEW x \in Nat, x <= minLong(test, most)
        PROVE  Floor(x, RateNum, RateDen) \in Long
    <3>1. x <= most
      BY <1>2, <2>2, <2>3
    <3> QED BY <1>1, <3>1, FloorFits DEF most
  <2> QED BY <1>1, <2>1, <2>2, <2>3
<1>5. CASE ~ (RateNum > RateDen)
  <2>1. Sender!LimitFor(test) = test /\ RateNum <= RateDen
    BY <1>1, <1>3, <1>5
  <2>2. ASSUME NEW x \in Nat, x <= test
        PROVE  Floor(x, RateNum, RateDen) \in Long
    <3>1. Floor(x, RateNum, RateDen) \in Nat /\ Floor(x, RateNum, RateDen) <= x
      BY <1>1, <2>1, FloorOfPart
    <3> QED BY <1>1, <2>2, <3>1, MaxLongAssumption DEF Long
  <2> QED BY <1>1, <2>1, <2>2
<1> QED BY <1>4, <1>5

\* What the peer still accepts is an integer.
LEMMA SourceAmountIsInt ==
  ASSUME Inv, NEW s \in Streams
  PROVE  Sender!MaxSourceAmount(s) \in Int
<1> DEFINE gap == checkedSubtract(remoteReceiveMax[s], remoteReceived[s]).difference
<1>1. gap \in Nat
  <2>1. remoteReceiveMax[s] \in Long /\ remoteReceived[s] \in Long
    BY DEF Inv, Types
  <2> QED BY <2>1, SubtractIsLong, MaxLongAssumption DEF Long
<1>2. Ceil(gap, RateDen, RateNum) \in Int
  <2>1. RateNum \in Nat \ {0} /\ RateDen \in Nat
    BY TransferAssumption
  <2> HIDE DEF gap
  <2> QED BY <1>1, <2>1, CeilIsInt
<1>3. Sender!MaxSourceAmount(s) = minLong(Ceil(gap, RateDen, RateNum), MaxLong)
  BY ArithCopies DEF Sender!MaxSourceAmount
<1> HIDE DEF gap
<1> QED BY <1>2, <1>3, MaxLongAssumption DEF minLong

\* While nothing is held, what is available on a stream is what its limit leaves.
LEMMA AvailableIsRest ==
  ASSUME Inv, ~destroyed, loop # "waiting", NEW s \in Streams
  PROVE  /\ Sender!_getAmountAvailableToSend(s) \in Nat
         /\ totalSent[s] + Sender!_getAmountAvailableToSend(s) <= peak[s]
<1>1. /\ sendMax[s] \in Long /\ totalSent[s] \in Long /\ peak[s] \in Long /\ held[s] = 0
      /\ sendMax[s] <= peak[s] /\ totalSent[s] <= peak[s] /\ 2 * peak[s] <= MaxLong
  BY DEF Inv, Types, HeldInv
<1>2. /\ sendMax[s] \in Nat /\ totalSent[s] \in Nat /\ peak[s] \in Nat
      /\ 2 * sendMax[s] <= MaxLong /\ 2 * totalSent[s] <= MaxLong /\ 0 \in Long
  BY <1>1, MaxLongAssumption DEF Long
<1> DEFINE left == checkedSubtract(sendMax[s], totalSent[s]).difference
<1>3. left = IF totalSent[s] <= sendMax[s] THEN sendMax[s] - totalSent[s] ELSE 0
  BY <1>1, <1>2, SubtractBelowHalf
<1>4. left \in Long /\ left \in Nat /\ totalSent[s] + left <= peak[s]
  BY <1>1, <1>2, <1>3, MaxLongAssumption DEF Long
<1>5. checkedSubtract(left, 0).difference = left
  <2> HIDE DEF left
  <2>1. 0 <= left /\ left - 0 = left
    BY <1>4
  <2> QED BY <1>2, <1>4, <2>1, CheckedSubtractExact
<1>6. Sender!Available(sendMax[s], totalSent[s], held[s]) = checkedSubtract(left, held[s]).difference
  BY ArithCopies DEF Sender!Available
<1>7. Sender!Available(sendMax[s], totalSent[s], held[s]) = left
  BY <1>1, <1>5, <1>6
<1> HIDE DEF left
<1> QED BY <1>1, <1>2, <1>4, <1>7 DEF Sender!_getAmountAvailableToSend

\* The money of a packet leaves each stream within its limit, and fits in a Long at the
\* other end.
LEMMA FramesConvert ==
  ASSUME Inv, ~destroyed, loop # "waiting", NEW test \in PacketLimits,
         NEW m \in Sender!MoneyFrames(Sender!LimitFor(test))
  PROVE  /\ m \in [Streams -> Long] /\ \A s \in Streams : m[s] \in Nat /\ totalSent[s] + m[s] <= peak[s]
         /\ SumFunction(m) \in Nat /\ Floor(SumFunction(m), RateNum, RateDen) <= MaxLong
         /\ \A s \in Streams : m[s] <= SumFunction(m)
<1> DEFINE limit == Sender!LimitFor(test)
           before(s) == SumFunctionOnSet(m, {t \in Streams : t < s})
<1>1. limit \in Nat /\ limit <= MaxLong /\ \A x \in Nat : x <= limit => Floor(x, RateNum, RateDen) \in Long
  BY TransferAssumption, LimitConverts
<1>2. /\ m \in [Streams -> 0 .. limit]
      /\ \A s \in Streams :
           \/ m[s] = 0
           \/ m[s] = minLong(minLong(Sender!_getAmountAvailableToSend(s), Sender!MaxSourceAmount(s)),
                             limit - before(s))
  BY SumCopies, ArithCopies DEF Sender!MoneyFrames
<1>3. ASSUME NEW s \in Streams
      PROVE  /\ m[s] \in Nat /\ m[s] \in Long /\ totalSent[s] + m[s] <= peak[s]
             /\ m[s] = 0 \/ m[s] <= limit - before(s)
  <2>1. m[s] \in Nat /\ m[s] \in Long
    BY <1>1, <1>2, MaxLongAssumption DEF Long
  <2>2. /\ Sender!_getAmountAvailableToSend(s) \in Nat /\ Sender!MaxSourceAmount(s) \in Int
        /\ totalSent[s] + Sender!_getAmountAvailableToSend(s) <= peak[s]
    BY AvailableIsRest, SourceAmountIsInt
  <2>3. before(s) \in Nat
    <3>1. {t \in Streams : t < s} \subseteq Streams /\ IsFiniteSet({t \in Streams : t < s})
      BY TransferAssumption, FS_Subset
    <3>2. \A t \in {t \in Streams : t < s} : m[t] \in Nat
      BY <1>1, <1>2
    <3> QED BY <3>1, <3>2, SumIsNat
  <2>4. totalSent[s] \in Nat /\ peak[s] \in Nat /\ totalSent[s] <= peak[s]
    BY MaxLongAssumption DEF Inv, Types, HeldInv, Long
  <2>5. limit - before(s) \in Int
    <3> HIDE DEF limit, before
    <3> QED BY <1>1, <2>3
  <2> HIDE DEF limit, before
  <2>6. CASE m[s] = 0
    BY <2>1, <2>4, <2>6
  <2>7. CASE m[s] = minLong(minLong(Sender!_getAmountAvailableToSend(s), Sender!MaxSourceAmount(s)),
                            limit - before(s))
    BY <2>1, <2>2, <2>4, <2>5, <2>7 DEF minLong
  <2> QED BY <1>2, <2>6, <2>7
<1>4. m \in [Streams -> Long] /\ DOMAIN m = Streams
  BY <1>2, <1>3
<1>5. SumFunctionOnSet(m, Streams) \in Nat /\ SumFunctionOnSet(m, Streams) <= limit
  <2>1. Streams \subseteq Nat /\ IsFiniteSet(Streams)
    BY TransferAssumption
  <2> HIDE DEF limit
  <2> QED BY <1>1, <1>3, <2>1, ServedInOrder
<1>6. SumFunction(m) = SumFunctionOnSet(m, Streams)
  BY <1>4 DEF SumFunction
<1>7. ASSUME NEW s \in Streams
      PROVE  m[s] <= SumFunction(m)
  BY <1>3, <1>6, TransferAssumption, SumBoundsPart
<1>8. Floor(SumFunction(m), RateNum, RateDen) <= MaxLong
  BY <1>1, <1>5, <1>6 DEF Long
<1> QED BY <1>3, <1>4, <1>5, <1>6, <1>7, <1>8

\* A packet that is loaded is sent, with all its money held, or has nothing in it.
Loaded(m) ==
  /\ loop = "tick" /\ nextSequence' = nextSequence + 1 /\ nextSequence < MaxSequence
  /\ UNCHANGED <<connected, destroyed, life, sendMax, totalSent, remoteReceived, remoteReceiveMax, peak>>
  /\ held' = [s \in Streams |-> held[s] + m[s]]
  /\ holds' = [s \in Streams |-> IF m[s] > 0 THEN [holds[s] EXCEPT ![nextSequence] = m[s]] ELSE holds[s]]
  /\ \/ SumFunction(m) = 0 /\ loop' = "idle" /\ UNCHANGED request
     \/ /\ SumFunction(m) \in Long /\ loop' = "waiting"
        /\ request' = [seq |-> nextSequence, money |-> m, amount |-> SumFunction(m), closes |-> queuedCloses]

LEMMA Loads ==
  ASSUME Inv, NEW test \in PacketLimits, Sender!loadAndSendPacket(test, FALSE)
  PROVE  \E m \in Sender!MoneyFrames(Sender!LimitFor(test)) : Loaded(m)
<1>1. PICK m \in Sender!MoneyFrames(Sender!LimitFor(test)) :
        /\ Sender!_holdOutgoing(m)
        /\ \E amount \in {a \in Long : a = SumFunction(m)} : Sender!SendUnlessEmpty(m, amount, FALSE)
  BY SumCopies, ArithCopies DEF Sender!loadAndSendPacket
<1>2. SumFunction(m) \in Long /\ Sender!SendUnlessEmpty(m, SumFunction(m), FALSE)
  BY <1>1
<1>3. \/ SumFunction(m) = 0 /\ loop' = "idle" /\ UNCHANGED request
      \/ /\ SumFunction(m) \in Long /\ loop' = "waiting"
         /\ request' = [seq |-> nextSequence, money |-> m, amount |-> SumFunction(m), closes |-> queuedCloses]
  BY <1>2 DEF Sender!SendUnlessEmpty, Sender!Continue
<1>4. /\ loop = "tick" /\ nextSequence' = nextSequence + 1 /\ nextSequence < MaxSequence
      /\ UNCHANGED <<connected, destroyed, life, sendMax, totalSent, remoteReceived, remoteReceiveMax, peak>>
  BY DEF Sender!loadAndSendPacket, Sender!streamVars, Sender!remoteVars
<1>5. /\ held' = [s \in Streams |-> held[s] + m[s]]
      /\ holds' = [s \in Streams |-> IF m[s] > 0 THEN [holds[s] EXCEPT ![nextSequence] = m[s]] ELSE holds[s]]
  BY <1>1 DEF Sender!_holdOutgoing
<1>6. Loaded(m)
  BY <1>3, <1>4, <1>5 DEF Loaded
<1> QED BY <1>6

LEMMA LoadKeeps ==
  ASSUME Inv, NEW test \in PacketLimits, Sender!loadAndSendPacket(test, FALSE),
         UNCHANGED <<receiverVars, peerVars>>
  PROVE  Inv' /\ Promised
<1>1. PICK m \in Sender!MoneyFrames(Sender!LimitFor(test)) : Loaded(m)
  BY Loads
<1>2. /\ loop = "tick" /\ ~destroyed /\ loop # "waiting" /\ ~peerDestroyed
      /\ \A p \in Calls : ~InHand(p)
  BY <1>1 DEF Loaded, Inv, LoopInv, PathInv
<1>3. /\ m \in [Streams -> Long] /\ \A s \in Streams : m[s] \in Nat /\ totalSent[s] + m[s] <= peak[s]
      /\ SumFunction(m) \in Nat /\ Floor(SumFunction(m), RateNum, RateDen) <= MaxLong
      /\ \A s \in Streams : m[s] <= SumFunction(m)
  BY <1>2, FramesConvert
<1>4. /\ UNCHANGED <<connected, destroyed, life, sendMax, totalSent, remoteReceived, remoteReceiveMax, peak>>
      /\ UNCHANGED <<stage, packet, response, status, receiveMax, received, remoteClosed,
                     totalReceived, incomingHold, peerClosed, peerDestroyed, announced>>
  BY <1>1 DEF Loaded, receiverVars, peerVars
<1>5. /\ nextSequence \in Calls /\ nextSequence \in Nat /\ nextSequence' \in Calls
      /\ nextSequence' = nextSequence + 1
  BY <1>1, TransferAssumption DEF Loaded, Inv, Types, Calls
<1>6. ASSUME NEW s \in Streams
      PROVE  held[s] = 0 /\ holds[s] \in [0 .. MaxSequence -> Long] /\ \A n \in 0 .. MaxSequence : holds[s][n] = 0
  BY <1>2 DEF Inv, Types, HeldInv
<1>7. held' = m
  <2>1. held' = [s \in Streams |-> held[s] + m[s]]
    BY <1>1 DEF Loaded
  <2>2. \A s \in Streams : held[s] + m[s] = m[s]
    BY <1>3, <1>6
  <2>3. m = [s \in Streams |-> m[s]]
    BY <1>3
  <2> QED BY <2>1, <2>2, <2>3
<1>8. /\ holds' \in [Streams -> [0 .. MaxSequence -> Long]]
      /\ \A s \in Streams : \A n \in 0 .. MaxSequence : holds'[s][n] = IF n = nextSequence THEN m[s] ELSE 0
  <2>1. holds' = [s \in Streams |-> IF m[s] > 0 THEN [holds[s] EXCEPT ![nextSequence] = m[s]] ELSE holds[s]]
    BY <1>1 DEF Loaded
  <2>2. ASSUME NEW s \in Streams
        PROVE  /\ holds'[s] \in [0 .. MaxSequence -> Long]
               /\ \A n \in 0 .. MaxSequence : holds'[s][n] = IF n = nextSequence THEN m[s] ELSE 0
    <3>1. CASE m[s] > 0
      <4>1. holds'[s] = [holds[s] EXCEPT ![nextSequence] = m[s]] /\ m[s] \in Long
        BY <1>3, <2>1, <3>1
      <4>2. nextSequence \in 0 .. MaxSequence
        BY <1>5, TransferAssumption DEF Calls
      <4> QED BY <1>6, <4>1, <4>2
    <3>2. CASE m[s] = 0
      <4>1. holds'[s] = holds[s]
        BY <2>1, <3>2
      <4> QED BY <1>6, <3>2, <4>1
    <3> QED BY <1>3, <3>1, <3>2
  <2> QED BY <2>1, <2>2
<1>9. CASE SumFunction(m) = 0 /\ loop' = "idle" /\ UNCHANGED request
  <2>1. \A s \in Streams : m[s] = 0
    BY <1>3, <1>9
  <2>2. held' = held
    BY <1>6, <1>7, <1>3, <2>1 DEF Inv, Types
  <2>3. holds' = holds
    <3>1. holds \in [Streams -> [0 .. MaxSequence -> Long]]
      BY DEF Inv, Types
    <3>2. ASSUME NEW s \in Streams
          PROVE  holds'[s] = holds[s]
      <4>1. \A n \in 0 .. MaxSequence : holds'[s][n] = holds[s][n]
        BY <1>6, <1>8, <2>1
      <4>2. holds'[s] \in [0 .. MaxSequence -> Long] /\ holds[s] \in [0 .. MaxSequence -> Long]
        BY <1>6, <1>8
      <4>3. holds'[s] = [n \in 0 .. MaxSequence |-> holds'[s][n]] /\ holds[s] = [n \in 0 .. MaxSequence |-> holds[s][n]]
        BY <4>2
      <4> QED BY ONLY <4>1, <4>3
    <3>3. holds' = [s \in Streams |-> holds'[s]] /\ holds = [s \in Streams |-> holds[s]]
      BY <1>8, <3>1
    <3> QED BY ONLY <3>2, <3>3
  <2>4. QuietLoop
    BY <1>2, <1>4, <1>5, <1>9, <2>2, <2>3 DEF QuietLoop, Inv, Types, LoopInv, LifeKinds
  <2>5. LimitsRaised
    BY <1>4, SameLimits
  <2>6. NewsTaken
    BY <1>4, NoNews
  <2> QED BY <1>4, <2>4, <2>5, <2>6, QuietKeeps DEF Inv, NewsInv
<1>10. CASE /\ SumFunction(m) \in Long /\ loop' = "waiting"
            /\ request' = [seq |-> nextSequence, money |-> m, amount |-> SumFunction(m), closes |-> queuedCloses]
  <2>0. /\ request'.seq = nextSequence /\ request'.money = m /\ request'.amount = SumFunction(m)
    BY <1>10
  <2>1. Types'
    <3>1. nextSequence \in 0 .. MaxSequence
      BY <1>5, TransferAssumption DEF Calls
    <3>2. held' \in [Streams -> Int]
      BY <1>3, <1>7
    <3> QED BY <1>3, <1>4, <1>5, <1>8, <1>10, <2>0, <3>1, <3>2 DEF Inv, Types
  <2>2. LoopInv'
    BY <1>2, <1>4, <1>5, <1>10, <2>0 DEF Inv, LoopInv
  <2>3. PathInv'
    <3>1. nextSequence < nextSequence' /\ \A p \in Calls : nextSequence' <= p => nextSequence <= p
      BY <1>5, TransferAssumption DEF Calls
    <3> QED BY <1>2, <1>4, <2>0, <3>1 DEF Inv, PathInv, InHand
  <2>4. NewsInv'
    BY <1>4 DEF Inv, NewsInv, KnowledgeIsPast, Past
  <2>5. BooksInv'
    <3>1. stage[nextSequence] = "idle"
      BY <1>5 DEF Inv, PathInv
    <3> QED BY <1>2, <1>4, <2>0, <3>1 DEF Inv, BooksInv, Delivered
  <2>6. HeldInv'
    BY <1>3, <1>4, <1>7, <1>8, <1>10, <2>0 DEF Inv, HeldInv
  <2>7. CreditInv'
    BY <1>4 DEF Inv, CreditInv, Receiver!StreamAmount, Receiver!TotalShares
  <2>8. Promised
    <3>1. stage[nextSequence] = "idle"
      BY <1>5 DEF Inv, PathInv
    <3>2. Unsettled = Sender!NoMoney /\ Unsettled' = Sender!NoMoney
      BY <1>2, <1>4, <2>0, <3>1 DEF Unsettled, Sender!NoMoney
    <3> QED BY <1>4, <3>2, NothingMoves
  <2> QED BY <2>1, <2>2, <2>3, <2>4, <2>5, <2>6, <2>7, <2>8 DEF Inv
<1> QED BY <1>1, <1>9, <1>10 DEF Loaded

LEMMA InitHolds == Init => Inv
<1> SUFFICES ASSUME Init PROVE Inv
  OBVIOUS
<1> USE DEF Init, Sender!Init, Receiver!Init, Sender!NoMoney, Receiver!None
<1>1. Types
  <2>1. 0 \in Long /\ MaxLong \in Long /\ 1 \in Calls /\ 0 \in 0 .. MaxSequence /\ 0 \in Int
    BY TransferAssumption, MaxLongAssumption DEF Calls, Long
  <2>2. /\ holds \in [Streams -> [0 .. MaxSequence -> Long]] /\ held \in [Streams -> Int]
        /\ request.seq \in 0 .. MaxSequence /\ request.money \in [Streams -> Long] /\ request.amount \in Long
    BY <2>1
  <2>3. /\ stage \in [Calls -> Stages] /\ DOMAIN response = Calls /\ DOMAIN packet = Calls
    BY DEF Calls, Stages
  <2>4. /\ totalSent \in [Streams -> Long] /\ sendMax \in [Streams -> Long] /\ peak \in [Streams -> Long]
        /\ remoteReceived \in [Streams -> Long] /\ remoteReceiveMax \in [Streams -> Long]
        /\ receiveMax \in [Streams -> Long] /\ received \in [Streams -> Long]
    BY <2>1
  <2> QED BY <2>1, <2>2, <2>3, <2>4 DEF Types
<1>2. LoopInv
  BY DEF LoopInv
<1>3. PathInv
  BY TransferAssumption DEF PathInv, InHand, Calls
<1>4. NewsInv
  BY TransferAssumption, MaxLongAssumption DEF NewsInv, KnowledgeIsPast, Past, Calls, Long
<1>5. BooksInv
  BY DEF BooksInv, Delivered
<1>6. HeldInv
  <2>1. SumFunction(request.money) = 0
    <3>1. IsFiniteSet(Streams) /\ DOMAIN request.money = Streams /\ \A s \in Streams : request.money[s] = 0
      BY TransferAssumption
    <3>2. SumFunctionOnSet(request.money, Streams) = 0
      <4>1. \A s \in Streams : request.money[s] \in {0}
        BY <3>1
      <4>2. \A x, y \in {0} : x + y \in {0}
        OBVIOUS
      <4> QED BY ONLY <3>1, <4>1, <4>2, SumInSet
    <3> QED BY <3>1, <3>2 DEF SumFunction
  <2>2. Floor(0, RateNum, RateDen) = 0
    BY TransferAssumption DEF Floor
  <2>3. request.amount = 0 /\ ~destroyed /\ loop # "waiting"
    OBVIOUS
  <2>4. \A s \in Streams : /\ sendMax[s] = 0 /\ peak[s] = 0 /\ totalSent[s] = 0 /\ held[s] = 0
                           /\ \A n \in 0 .. MaxSequence : holds[s][n] = 0
    OBVIOUS
  <2> QED BY ONLY <2>1, <2>2, <2>3, <2>4, MaxLongAssumption DEF HeldInv
<1>7. CreditInv
  BY DEF CreditInv, Ceil, Calls
<1> QED BY <1>1, <1>2, <1>3, <1>4, <1>5, <1>6, <1>7 DEF Inv

LEMMA InvStep == Inv /\ [Next]_vars => Inv' /\ Promised
<1> SUFFICES ASSUME Inv, [Next]_vars PROVE Inv' /\ Promised
  OBVIOUS
<1>1. CASE Load
  <2>1. UNCHANGED <<receiverVars, peerVars>>
    BY <1>1 DEF Load
  <2>2. CASE \E limit \in PacketLimits : Sender!loadAndSendPacket(limit, FALSE)
    BY <2>1, <2>2, LoadKeeps
  <2>3. CASE Sender!BackoffOver
    BY <2>1, <2>3, BackoffKeeps DEF peerVars
  <2> QED BY <1>1, <2>2, <2>3 DEF Load
<1>2. CASE SenderStep
  BY <1>1, <1>2, ConnectKeeps, AnsweredKeeps DEF SenderStep
<1>3. CASE PathStep
  BY <1>3, ArriveKeeps, HandleKeeps DEF PathStep
<1>4. CASE PeerStep
  BY <1>4, AnnounceKeeps, AnnouncementArrivesKeeps DEF PeerStep
<1>5. CASE Failure
  BY <1>5, TemporaryErrorKeeps, ExpireKeeps, DeclineKeeps, AnnouncementRefusedKeeps DEF Failure
<1>6. CASE Applications
  BY <1>6, SetSendMaxKeeps, SetReceiveMaxKeeps DEF Applications
<1>7. CASE UNCHANGED vars
  BY <1>7, StutterKeeps
<1> QED BY <1>2, <1>3, <1>4, <1>5, <1>6, <1>7 DEF Next

LEMMA AlwaysInv == Spec => []Inv
<1>1. Init => Inv
  BY InitHolds
<1>2. Inv /\ [Next]_vars => Inv'
  BY InvStep
<1> QED BY <1>1, <1>2, PTL DEF Spec

\* What the sender knows of a stream was true once, in whatever order the packets of the two
\* ends arrive: handleControlFrames keeps the larger of two numbers, and the receiver's own
\* never get smaller.
THEOREM KnowledgeIsPastHolds == Spec => []KnowledgeIsPast
<1>1. Inv => KnowledgeIsPast
  BY DEF Inv, NewsInv
<1> QED BY <1>1, AlwaysInv, PTL

\* When no packet is under way both ends agree on what was delivered: every answer says it,
\* and there is one answer for every packet.
THEOREM BooksAgreeHolds == Spec => []BooksAgree
<1>1. Inv => BooksAgree
  BY DEF Inv, BooksInv, Delivered, BooksAgree
<1> QED BY <1>1, AlwaysInv, PTL

\* Every step of the two ends and of the path between them is one that Payment allows: the
\* money of a packet is delivered in whole, once, within what both applications allow, and
\* settled before the next is delivered.
THEOREM TransferImplementsPayment == Spec => Implements
<1>1. Init => Promise!Init
  <2> SUFFICES ASSUME Init PROVE Promise!Init
    OBVIOUS
  <2>1. /\ peak = [s \in Streams |-> 0] /\ totalSent = [s \in Streams |-> 0]
        /\ receiveMax = [s \in Streams |-> 0] /\ received = [s \in Streams |-> 0]
        /\ loop = "connecting" /\ destroyed = FALSE
    BY DEF Init, Sender!Init, Receiver!Init, Sender!NoMoney
  <2> QED BY <2>1 DEF Promise!Init, Promise!Zero, Sender!NoMoney
<1>2. Inv /\ [Next]_vars => [Promise!Next]_(Promise!vars)
  BY InvStep DEF Promised
<1> QED BY <1>1, <1>2, AlwaysInv, PTL DEF Spec, Implements, Promise!Spec

=============================================================================
