--------------------------- MODULE StreamIdsProofs ---------------------------
(***************************************************************************)
(* For any streams, limits, losses and order of answers: a connection is   *)
(* closed for a stream too many only when the stream was created before    *)
(* any limit was known and the peer allows fewer than the default; the     *)
(* peer's open streams are bounded; and at rest the limits are known.      *)
(***************************************************************************)
EXTENDS StreamIds, FiniteSetTheorems, WellFoundedInduction, TLAPS

States   == {"none", "open", "closing", "ended", "removed"}
FrameSet == [closes : SUBSET Streams, limit : Nat]

Types ==
  /\ record \in [Ends -> [Streams -> States]]
  /\ nextStreamId \in [Ends -> Nat]
  /\ maxStreamId \in [Ends -> Nat] /\ remoteMaxStreamId \in [Ends -> Nat]
  /\ queuedFrames \in [Ends -> FrameSet]
  /\ request \in [Ends -> [frames : FrameSet, mentions : SUBSET Streams, carries : SUBSET Streams]]
  /\ response \in [Ends -> [fulfilled : BOOLEAN, frames : FrameSet]]
  /\ refused \in {0} \cup Streams
  /\ assuming \subseteq Ends

\* No limit that is queued, under way or known is higher than its end's: an end only raises it.
LimitsInv ==
  \A e \in Ends :
    /\ queuedFrames[e].limit <= maxStreamId[e]
    /\ request[e].frames.limit <= maxStreamId[e]
    /\ response[e].frames.limit <= maxStreamId[Peer(e)]
    /\ IF e \in assuming THEN e = "server" /\ remoteMaxStreamId[e] = 2 * Default
       ELSE remoteMaxStreamId[e] <= maxStreamId[Peer(e)]

\* The streams that an end has, or has had, on record.
Known(e) == {s \in Streams : record[e][s] # "none"}

\* What the peer knows of an end's own streams, and what a packet is about, the end knows.
StreamsInv ==
  \A e \in Ends :
    /\ Known(Peer(e)) \cap OwnIds(e) \subseteq Known(e)
    /\ request[e].mentions \cup request[e].carries \subseteq Known(e)
    /\ nextStreamId[e] % 2 = First(e) % 2

\* An end's own streams are within the limit of its peer, but for the hasty ones, which are
\* within the default.
BudgetInv ==
  /\ \A e \in Ends : 2 * Allows(e) <= maxStreamId[e]
  /\ \A e \in Ends : \A s \in Known(e) \cap OwnIds(e) : s \in hasty \/ s <= maxStreamId[Peer(e)]
  /\ \A s \in hasty : s \in OwnIds("server") /\ s <= 2 * Default

IInv == Types /\ LimitsInv /\ StreamsInv /\ BudgetInv /\ NeverTooMany
-----------------------------------------------------------------------------
(* Ends and streams.                                                        *)

LEMMA EndsFacts ==
  ASSUME NEW e \in Ends
  PROVE  /\ Peer(e) \in Ends /\ Peer(e) # e /\ Peer(Peer(e)) = e
         /\ \A d \in Ends : d # e => d = Peer(e)
         /\ Allows(e) \in Nat /\ First(e) \in {1, 2} /\ First(e) \in Nat
BY IdsAssumption DEF Ends, Peer, Allows, First

\* Every stream is one end's own.
LEMMA OwnIdsSplit ==
  ASSUME NEW e \in Ends
  PROVE  Streams = OwnIds(e) \cup OwnIds(Peer(e)) /\ OwnIds(e) \cap OwnIds(Peer(e)) = {}
<1>1. \A s \in Streams : s \in Nat
  BY IdsAssumption
<1> QED BY <1>1 DEF OwnIds, First, Ends, Peer

\* The streams of a packet that its receiver opens are known to the sender, and its own.
LEMMA OpenedAreOwn ==
  ASSUME IInv, NEW e \in Ends
  PROVE  Opened(e) \subseteq Known(e) \cap OwnIds(e)
<1>1. SUFFICES ASSUME NEW s \in Opened(e) PROVE s \in Known(e) \cap OwnIds(e)
  OBVIOUS
<1>2. /\ s \in request[e].mentions \cup request[e].carries
      /\ record[Peer(e)][s] = "none"
  BY DEF Opened
<1>3. s \in Streams /\ s \in Known(e)
  BY <1>2 DEF IInv, StreamsInv, Known
<1>4. s \notin OwnIds(Peer(e))
  BY <1>2, <1>3, EndsFacts DEF IInv, StreamsInv, Known
<1> QED BY <1>3, <1>4, OwnIdsSplit

\* What is said of streams is kept by a step that makes no stream known that no end knew.
LEMMA StreamsKeep ==
  ASSUME IInv, Types', UNCHANGED <<hasty, nextStreamId>>,
         \A e \in Ends :
           /\ Known(e) \subseteq Known(e)'
           /\ Known(e)' \subseteq Known(e) \cup (Known(Peer(e)) \cap OwnIds(Peer(e)))
           /\ request'[e].mentions \cup request'[e].carries \subseteq Known(e)
           /\ maxStreamId[e] <= maxStreamId'[e]
  PROVE  StreamsInv' /\ BudgetInv'
<1>1. \A e \in Ends : Known(e)' \cap OwnIds(e) \subseteq Known(e) \cap OwnIds(e)
  BY OwnIdsSplit
<1>2. \A e \in Ends : Known(Peer(e))' \cap OwnIds(e) \subseteq Known(e)'
  BY EndsFacts, OwnIdsSplit DEF IInv, StreamsInv
<1>3. StreamsInv'
  BY <1>2 DEF IInv, StreamsInv
<1>4. \A e \in Ends : \A s \in Known(e)' \cap OwnIds(e) : s \in hasty' \/ s <= maxStreamId'[Peer(e)]
  <2>1. TAKE e \in Ends
  <2>2. TAKE s \in Known(e)' \cap OwnIds(e)
  <2>3. s \in hasty \/ s <= maxStreamId[Peer(e)]
    BY <1>1 DEF IInv, BudgetInv
  <2>4. maxStreamId[Peer(e)] <= maxStreamId'[Peer(e)] /\ s \in Nat
        /\ maxStreamId[Peer(e)] \in Nat /\ maxStreamId'[Peer(e)] \in Nat
    BY EndsFacts, IdsAssumption DEF IInv, Types, OwnIds
  <2> QED BY <2>3, <2>4
<1>5. \A e \in Ends : 2 * Allows(e) <= maxStreamId'[e]
  BY EndsFacts DEF IInv, BudgetInv, Types
<1> QED BY <1>3, <1>4, <1>5 DEF IInv, BudgetInv

\* What is said of streams and limits is kept by a step that changes none of them.
LEMMA QuietStep ==
  ASSUME IInv,
         UNCHANGED <<nextStreamId, maxStreamId, remoteMaxStreamId, refused, assuming, hasty>>,
         \A e \in Ends : Known(e)' = Known(e),
         record' \in [Ends -> [Streams -> States]],
         queuedFrames' \in [Ends -> FrameSet],
         request' \in [Ends -> [frames : FrameSet, mentions : SUBSET Streams, carries : SUBSET Streams]],
         response' \in [Ends -> [fulfilled : BOOLEAN, frames : FrameSet]],
         \A e \in Ends :
           /\ queuedFrames'[e].limit <= maxStreamId[e]
           /\ request'[e].frames.limit <= maxStreamId[e]
           /\ response'[e].frames.limit <= maxStreamId[Peer(e)]
           /\ request'[e].mentions \cup request'[e].carries \subseteq Known(e)
  PROVE  IInv'
<1>1. Types'
  BY DEF IInv, Types
<1>2. LimitsInv'
  BY DEF IInv, LimitsInv
<1>3. \A e \in Ends : maxStreamId[e] \in Nat /\ maxStreamId'[e] = maxStreamId[e]
  BY DEF IInv, Types
<1>4. StreamsInv' /\ BudgetInv'
  BY <1>1, <1>3, StreamsKeep
<1>5. NeverTooMany'
  BY DEF IInv, NeverTooMany
<1> QED BY <1>1, <1>2, <1>4, <1>5 DEF IInv
-----------------------------------------------------------------------------
(* The application and the streams.                                         *)

\* A stream is created within the limit that is known, or before any is.
LEMMA createStreamKeeps ==
  ASSUME IInv, NEW e \in Ends, createStream(e)
  PROVE  IInv'
<1> DEFINE n == nextStreamId[e]
<1>1. n \in Streams /\ n \in Nat /\ n \in OwnIds(e) /\ n <= remoteMaxStreamId[e]
  BY DEF createStream, MayCreate, OwnIds, IInv, Types, StreamsInv
<1>2. UNCHANGED <<maxStreamId, remoteMaxStreamId, queuedFrames, request, response, refused, assuming>>
  BY DEF createStream, packetVars
<1>3. /\ record' \in [Ends -> [Streams -> States]]
      /\ record'[e] = [record[e] EXCEPT ![n] = "open"]
      /\ \A d \in Ends : d # e => record'[d] = record[d]
  BY <1>1 DEF createStream, IInv, Types, States
<1>4. Known(e)' = Known(e) \cup {n} /\ \A d \in Ends : d # e => Known(d)' = Known(d)
  BY <1>1, <1>3 DEF Known, IInv, Types
<1>5. nextStreamId' = [nextStreamId EXCEPT ![e] = n + 2]
  BY DEF createStream
<1>6. Types'
  BY <1>1, <1>2, <1>3, <1>5 DEF IInv, Types
<1>7. LimitsInv'
  BY <1>2 DEF IInv, LimitsInv
<1>8. StreamsInv'
  <2>1. (n + 2) % 2 = n % 2
    BY <1>1
  <2>2. \A d \in Ends : nextStreamId'[d] % 2 = First(d) % 2
    BY <1>5, <2>1 DEF IInv, StreamsInv, Types
  <2>3. \A d \in Ends : Known(Peer(d))' \cap OwnIds(d) \subseteq Known(d)'
    BY <1>1, <1>4, EndsFacts, OwnIdsSplit DEF IInv, StreamsInv
  <2>4. \A d \in Ends : request'[d].mentions \cup request'[d].carries \subseteq Known(d)'
    BY <1>2, <1>4 DEF IInv, StreamsInv
  <2> QED BY <2>2, <2>3, <2>4 DEF StreamsInv
<1>9. hasty \subseteq hasty' /\ (e \in assuming => hasty' = hasty \cup {n}) /\ (e \notin assuming => hasty' = hasty)
  BY DEF createStream
<1>10. BudgetInv'
  <2>1. n \in hasty' \/ n <= maxStreamId[Peer(e)]
    BY <1>1, <1>9, EndsFacts DEF IInv, LimitsInv, Types
  <2>2. \A s \in hasty' : s \in OwnIds("server") /\ s <= 2 * Default
    BY <1>1, <1>9 DEF IInv, LimitsInv, BudgetInv
  <2>3. \A d \in Ends : \A s \in Known(d)' \cap OwnIds(d) : s \in hasty' \/ s <= maxStreamId[Peer(d)]
    BY <1>4, <1>9, <2>1 DEF IInv, BudgetInv
  <2> QED BY <1>2, <2>2, <2>3 DEF IInv, BudgetInv
<1>11. NeverTooMany'
  BY <1>2, <1>9 DEF IInv, NeverTooMany
<1> QED BY <1>6, <1>7, <1>8, <1>10, <1>11 DEF IInv

LEMMA EmptyFacts ==
  /\ NoFrames \in FrameSet /\ NoFrames.limit = 0
  /\ NoPacket \in [frames : FrameSet, mentions : SUBSET Streams, carries : SUBSET Streams]
  /\ NoPacket.frames.limit = 0 /\ NoPacket.mentions = {} /\ NoPacket.carries = {}
  /\ NoResponse \in [fulfilled : BOOLEAN, frames : FrameSet] /\ NoResponse.frames.limit = 0
BY DEF NoFrames, Frames, NoPacket, NoResponse, FrameSet

\* More closes in a queue.
LEMMA MoreCloses ==
  ASSUME Types, NEW e \in Ends, NEW closes \in SUBSET Streams,
         queuedFrames' = [queuedFrames EXCEPT ![e].closes = @ \cup closes]
  PROVE  /\ queuedFrames' \in [Ends -> FrameSet]
         /\ \A d \in Ends : queuedFrames'[d].limit = queuedFrames[d].limit
<1> DEFINE q == [queuedFrames[e] EXCEPT !.closes = @ \cup closes]
<1>1. q \in FrameSet /\ q.limit = queuedFrames[e].limit
  <2>1. queuedFrames[e] \in FrameSet
    BY DEF Types
  <2>2. \A f \in FrameSet : LET g == [f EXCEPT !.closes = @ \cup closes]
                            IN g \in FrameSet /\ g.limit = f.limit
    BY DEF FrameSet
  <2> QED BY <2>1, <2>2
<1>2. queuedFrames' = [queuedFrames EXCEPT ![e] = q]
  OBVIOUS
<1> HIDE DEF q
<1> QED BY <1>1, <1>2 DEF Types

\* A stream ends, or its record is removed: it stays known.
LEMMA EndKeeps ==
  ASSUME IInv, NEW e \in Ends, NEW s \in Streams, EndStream(e, s) \/ removeStreamRecord(e, s)
  PROVE  IInv'
<1>1. UNCHANGED <<nextStreamId, maxStreamId, remoteMaxStreamId, refused, assuming, hasty, request, response>>
  BY DEF EndStream, removeStreamRecord, idVars, history, packetVars
<1>2. PICK how \in States \ {"none"} : record' = [record EXCEPT ![e][s] = how]
  BY DEF EndStream, removeStreamRecord, States
<1>3. record[e][s] # "none"
  BY DEF EndStream, removeStreamRecord
<1>4. /\ record' \in [Ends -> [Streams -> States]]
      /\ record'[e] = [record[e] EXCEPT ![s] = how]
      /\ \A d \in Ends : d # e => record'[d] = record[d]
  BY <1>2 DEF IInv, Types
<1>5. \A d \in Ends : Known(d)' = Known(d)
  <2>1. \A d \in Ends : \A t \in Streams :
          record'[d][t] = IF d = e /\ t = s THEN how ELSE record[d][t]
    BY <1>4 DEF IInv, Types
  <2> QED BY <1>3, <2>1 DEF Known
<1>6. /\ queuedFrames' \in [Ends -> FrameSet]
      /\ \A d \in Ends : queuedFrames'[d].limit = queuedFrames[d].limit
  <2>1. CASE UNCHANGED queuedFrames
    BY <2>1 DEF IInv, Types
  <2>2. CASE queuedFrames' = [queuedFrames EXCEPT ![e].closes = @ \cup {s}]
    <3>1. {s} \in SUBSET Streams
      OBVIOUS
    <3> QED BY <2>2, <3>1, MoreCloses DEF IInv
  <2> QED BY <2>1, <2>2 DEF EndStream, removeStreamRecord
<1> QED BY <1>1, <1>4, <1>5, <1>6, QuietStep DEF IInv, Types, LimitsInv, StreamsInv

\* A packet takes the queue along, and is about streams of its end.
LEMMA loadKeeps ==
  ASSUME IInv, NEW e \in Ends, NEW carries \in SUBSET Streams, loadAndSendPacket(e, carries)
  PROVE  IInv'
<1>1. /\ UNCHANGED <<record, nextStreamId, maxStreamId, remoteMaxStreamId, refused, assuming, hasty, response>>
      /\ queuedFrames' = [queuedFrames EXCEPT ![e] = NoFrames]
  BY DEF loadAndSendPacket, streamVars, idVars, history
<1>2. \A d \in Ends : Known(d)' = Known(d)
  BY <1>1 DEF Known
<1>3. carries \subseteq Known(e) /\ News(e) \subseteq Known(e) /\ Known(e) \subseteq Streams
  BY DEF loadAndSendPacket, News, Mentioned, Known
<1>4. \/ UNCHANGED request
      \/ request' = [request EXCEPT ![e] = [frames |-> queuedFrames[e], mentions |-> News(e),
                                            carries |-> carries]]
  BY DEF loadAndSendPacket
<1>5. /\ request' \in [Ends -> [frames : FrameSet, mentions : SUBSET Streams, carries : SUBSET Streams]]
      /\ \A d \in Ends : /\ request'[d].frames.limit <= maxStreamId[d]
                         /\ request'[d].mentions \cup request'[d].carries \subseteq Known(d)
  <2> DEFINE r == [frames |-> queuedFrames[e], mentions |-> News(e), carries |-> carries]
  <2>1. /\ r \in [frames : FrameSet, mentions : SUBSET Streams, carries : SUBSET Streams]
        /\ r.frames.limit <= maxStreamId[e] /\ r.mentions \cup r.carries \subseteq Known(e)
    BY <1>3 DEF IInv, Types, LimitsInv
  <2>2. UNCHANGED request \/ request' = [request EXCEPT ![e] = r]
    BY <1>4
  <2> HIDE DEF r
  <2>3. CASE UNCHANGED request
    BY <2>3 DEF IInv, Types, LimitsInv, StreamsInv
  <2>4. CASE request' = [request EXCEPT ![e] = r]
    BY <2>1, <2>4 DEF IInv, Types, LimitsInv, StreamsInv
  <2> QED BY <2>2, <2>3, <2>4
<1>6. /\ queuedFrames' \in [Ends -> FrameSet]
      /\ \A d \in Ends : queuedFrames'[d].limit <= maxStreamId[d]
  BY <1>1, EmptyFacts DEF IInv, Types, LimitsInv
<1> QED BY <1>1, <1>2, <1>5, <1>6, QuietStep DEF IInv, Types, LimitsInv
-----------------------------------------------------------------------------
(* Answers.                                                                 *)

\* What an answer leaves of the packet, the answer and the queue.
LEMMA AnswerFacts ==
  ASSUME Types, NEW e \in Ends, NEW fulfilled \in BOOLEAN, NEW closes \in SUBSET Streams,
         NEW queue \in FrameSet, Answer(e, fulfilled, closes, queue)
  PROVE  /\ request' \in [Ends -> [frames : FrameSet, mentions : SUBSET Streams, carries : SUBSET Streams]]
         /\ response' \in [Ends -> [fulfilled : BOOLEAN, frames : FrameSet]]
         /\ queuedFrames' \in [Ends -> FrameSet]
         /\ request'[e].frames.limit = 0 /\ request'[e].mentions = {} /\ request'[e].carries = {}
         /\ response'[e].frames.limit = queue.limit
         /\ queuedFrames'[Peer(e)].limit = 0 /\ queuedFrames'[e] = queuedFrames[e]
         /\ \A d \in Ends : d # e => request'[d] = request[d] /\ response'[d] = response[d]
<1> DEFINE left == [NoPacket EXCEPT !.frames.closes = request[e].frames.closes]
           sent == [fulfilled |-> fulfilled, frames |-> [queue EXCEPT !.closes = @ \cup closes]]
<1>1. /\ left \in [frames : FrameSet, mentions : SUBSET Streams, carries : SUBSET Streams]
      /\ left.frames.limit = 0 /\ left.mentions = {} /\ left.carries = {}
  BY DEF Types, NoPacket, NoFrames, Frames, FrameSet
<1>2. sent \in [fulfilled : BOOLEAN, frames : FrameSet] /\ sent.frames.limit = queue.limit
  BY DEF FrameSet
<1>3. request' = [request EXCEPT ![e] = left] /\ response' = [response EXCEPT ![e] = sent]
      /\ queuedFrames' = [queuedFrames EXCEPT ![Peer(e)] = NoFrames]
  BY DEF Answer
<1> HIDE DEF left, sent
<1> QED BY <1>1, <1>2, <1>3, EndsFacts, EmptyFacts DEF Types

\* The receiver answers with its queue, having taken no frame now.
LEMMA AnswerKeeps ==
  ASSUME IInv, NEW e \in Ends, NEW fulfilled \in BOOLEAN, NEW closes \in SUBSET Streams,
         Answer(e, fulfilled, closes, queuedFrames[Peer(e)]),
         UNCHANGED <<record, nextStreamId, maxStreamId, remoteMaxStreamId, refused, assuming, hasty>>
  PROVE  IInv'
<1>1. queuedFrames[Peer(e)] \in FrameSet /\ queuedFrames[Peer(e)].limit <= maxStreamId[Peer(e)]
  BY EndsFacts DEF IInv, Types, LimitsInv
<1>2. \A d \in Ends : Known(d)' = Known(d) /\ 0 <= maxStreamId[d]
  BY DEF Known, IInv, Types
<1>3. /\ request' \in [Ends -> [frames : FrameSet, mentions : SUBSET Streams, carries : SUBSET Streams]]
      /\ response' \in [Ends -> [fulfilled : BOOLEAN, frames : FrameSet]]
      /\ queuedFrames' \in [Ends -> FrameSet]
      /\ request'[e].frames.limit = 0 /\ request'[e].mentions = {} /\ request'[e].carries = {}
      /\ response'[e].frames.limit = queuedFrames[Peer(e)].limit
      /\ queuedFrames'[Peer(e)].limit = 0 /\ queuedFrames'[e] = queuedFrames[e]
      /\ \A d \in Ends : d # e => request'[d] = request[d] /\ response'[d] = response[d]
  BY <1>1, AnswerFacts DEF IInv
<1>4. \A d \in Ends :
        d = e \/ (d = Peer(e) /\ request'[d] = request[d] /\ response'[d] = response[d]
                  /\ queuedFrames'[d].limit = 0)
  BY <1>3, EndsFacts
<1>5. /\ request'[e].frames.limit = 0 /\ request'[e].mentions = {} /\ request'[e].carries = {}
      /\ response'[e].frames.limit <= maxStreamId[Peer(e)]
      /\ queuedFrames'[e] = queuedFrames[e]
  BY <1>1, <1>3
<1>6. \A d \in Ends : /\ queuedFrames'[d].limit <= maxStreamId[d]
                      /\ request'[d].frames.limit <= maxStreamId[d]
                      /\ response'[d].frames.limit <= maxStreamId[Peer(d)]
                      /\ request'[d].mentions \cup request'[d].carries \subseteq Known(d)
  BY <1>2, <1>4, <1>5 DEF IInv, LimitsInv, StreamsInv
<1> QED BY <1>2, <1>3, <1>6, QuietStep DEF IInv, Types

LEMMA DecideKeeps ==
  ASSUME IInv, NEW e \in Ends, Accept(e) \/ Decline(e)
  PROVE  IInv'
<1>1. UNCHANGED <<record, nextStreamId, maxStreamId, remoteMaxStreamId, refused, assuming, hasty>>
  BY DEF Accept, Decline, streamVars, idVars, history
<1>2. PICK fulfilled \in BOOLEAN, closes \in SUBSET Streams :
        Answer(e, fulfilled, closes, queuedFrames[Peer(e)])
  <2>1. CASE Accept(e)
    <3>1. Closing(record[Peer(e)], told[Peer(e)]) \in SUBSET Streams
      BY DEF Closing
    <3> QED BY <2>1, <3>1 DEF Accept, Fulfill
  <2>2. CASE Decline(e)
    BY <2>2 DEF Decline
  <2> QED BY <2>1, <2>2
<1> QED BY <1>1, <1>2, AnswerKeeps

\* A packet is rejected by the path, and its closes are queued again.
LEMMA TemporaryErrorKeeps ==
  ASSUME IInv, NEW e \in Ends, TemporaryError(e)
  PROVE  IInv'
<1>1. /\ UNCHANGED <<record, nextStreamId, maxStreamId, remoteMaxStreamId, refused, assuming, hasty>>
      /\ queuedFrames' = [queuedFrames EXCEPT ![e].closes = @ \cup request[e].frames.closes]
      /\ request' = [request EXCEPT ![e] = NoPacket] /\ response' = [response EXCEPT ![e] = NoResponse]
  BY DEF TemporaryError, Settled, Undone, streamVars, idVars, IInv, Types, FrameSet
<1>2. \A d \in Ends : Known(d)' = Known(d) /\ 0 <= maxStreamId[d]
  BY <1>1 DEF Known, IInv, Types
<1>3. /\ queuedFrames' \in [Ends -> FrameSet]
      /\ \A d \in Ends : queuedFrames'[d].limit = queuedFrames[d].limit
  <2>1. request[e].frames.closes \in SUBSET Streams
    BY DEF IInv, Types, FrameSet
  <2> QED BY <1>1, <2>1, MoreCloses DEF IInv
<1>4. /\ request' \in [Ends -> [frames : FrameSet, mentions : SUBSET Streams, carries : SUBSET Streams]]
      /\ response' \in [Ends -> [fulfilled : BOOLEAN, frames : FrameSet]]
      /\ \A d \in Ends : /\ request'[d].frames.limit <= maxStreamId[d]
                         /\ response'[d].frames.limit <= maxStreamId[Peer(d)]
                         /\ request'[d].mentions \cup request'[d].carries \subseteq Known(d)
  BY <1>1, <1>2, EmptyFacts, EndsFacts DEF IInv, Types, LimitsInv, StreamsInv
<1> QED BY <1>1, <1>2, <1>3, <1>4, QuietStep DEF IInv, Types, LimitsInv

LEMMA BackoffOverKeeps ==
  ASSUME IInv, NEW e \in Ends, BackoffOver(e)
  PROVE  IInv'
<1>1. /\ UNCHANGED <<nextStreamId, maxStreamId, remoteMaxStreamId, refused, assuming, hasty>>
      /\ UNCHANGED <<record, queuedFrames, request, response>>
  BY DEF BackoffOver, streamVars, idVars, packetVars, history
<1>2. \A d \in Ends : Known(d)' = Known(d)
  BY <1>1 DEF Known
<1> QED BY <1>1, <1>2, QuietStep DEF IInv, Types, LimitsInv, StreamsInv
-----------------------------------------------------------------------------
(* Frames.                                                                  *)

Views == [record : [Streams -> States], max : Nat, remote : Nat, queue : FrameSet,
          wake : BOOLEAN, ignored : SUBSET Streams]

\* What an end goes on from.
IsView(v) == /\ v.record \in [Streams -> States] /\ v.max \in Nat /\ v.remote \in Nat
             /\ v.queue \in FrameSet

\* What handleControlFrames makes of a view: the limit is not lowered, what is queued is
\* within it, and no stream becomes known.
LEMMA HandledView ==
  ASSUME NEW view \in Views, view.queue.limit <= view.max, NEW frames \in FrameSet
  PROVE  LET v == handleControlFrames(view, frames)
         IN /\ IsView(v) /\ view.max <= v.max /\ v.queue.limit <= v.max
            /\ v.remote = IF frames.limit = 0 THEN view.remote ELSE frames.limit
            /\ \A s \in Streams : (v.record[s] = "none") = (view.record[s] = "none")
<1> DEFINE w == LimitTaken(view, frames.limit)
           C == Closed(w, frames.closes)
           n == 2 * Cardinality(C)
           v == handleStreamCloses(w, frames.closes)
<1>1. /\ w \in Views /\ w.record = view.record /\ w.max = view.max /\ w.queue = view.queue
      /\ w.remote = IF frames.limit = 0 THEN view.remote ELSE frames.limit
  BY DEF LimitTaken, Views, FrameSet
<1>2. frames.closes \in SUBSET Streams
  BY DEF FrameSet
<1>3. C \subseteq Streams /\ \A s \in C : w.record[s] = "open"
  BY <1>2 DEF Closed
<1>4. n \in Nat
  <2>1. IsFiniteSet(C)
    BY <1>3, FS_Subset, IdsAssumption
  <2> QED BY <2>1, FS_CardinalityType
<1>5. /\ v.max = w.max + n /\ v.remote = w.remote
      /\ v.record = [s \in Streams |-> IF s \in C THEN "ended" ELSE w.record[s]]
      /\ v.queue = [w.queue EXCEPT !.limit = IF C # {} THEN w.max + n ELSE w.queue.limit]
  BY <1>1 DEF handleStreamCloses, Views
<1> HIDE DEF w, C, n, v
<1>7. v.queue \in FrameSet /\ v.queue.limit \in {w.max + n, w.queue.limit}
  BY <1>1, <1>4, <1>5 DEF Views, FrameSet
<1>8. v.record \in [Streams -> States]
  BY <1>1, <1>5 DEF Views, States
<1>9. v.max \in Nat /\ v.remote \in Nat
  BY <1>1, <1>4, <1>5 DEF Views
<1>10. IsView(v)
  BY <1>7, <1>8, <1>9 DEF IsView
<1>11. view.max <= v.max /\ v.queue.limit <= v.max
  BY <1>1, <1>4, <1>5, <1>7 DEF Views, FrameSet
<1>12. \A s \in Streams : (v.record[s] = "none") = (view.record[s] = "none")
  BY <1>1, <1>3, <1>5
<1>13. v = handleControlFrames(view, frames)
  BY DEF v, w, handleControlFrames
<1> QED BY <1>1, <1>5, <1>10, <1>11, <1>12, <1>13

\* The part of Apply that is about limits and streams.
Takes(e, v, frames) ==
  /\ record' = [record EXCEPT ![e] = v.record]
  /\ maxStreamId' = [maxStreamId EXCEPT ![e] = v.max]
  /\ remoteMaxStreamId' = [remoteMaxStreamId EXCEPT ![e] = v.remote]
  /\ assuming' = IF frames.limit = 0 THEN assuming ELSE assuming \ {e}

\* An end takes the frames of its peer, and knows no other streams but those of its peer.
LEMMA ApplyKeeps ==
  ASSUME IInv, NEW e \in Ends, NEW v, IsView(v), NEW frames \in FrameSet, Takes(e, v, frames),
         frames.limit <= maxStreamId[Peer(e)],
         maxStreamId[e] <= v.max,
         v.remote = IF frames.limit = 0 THEN remoteMaxStreamId[e] ELSE frames.limit,
         \A s \in Streams :
           /\ s \in Known(e) => v.record[s] # "none"
           /\ v.record[s] # "none" => s \in Known(e) \cup (Known(Peer(e)) \cap OwnIds(Peer(e))),
         UNCHANGED <<nextStreamId, refused, hasty>>,
         queuedFrames' \in [Ends -> FrameSet],
         request' \in [Ends -> [frames : FrameSet, mentions : SUBSET Streams, carries : SUBSET Streams]],
         response' \in [Ends -> [fulfilled : BOOLEAN, frames : FrameSet]],
         queuedFrames'[e].limit <= v.max,
         queuedFrames'[Peer(e)].limit <= maxStreamId[Peer(e)],
         request'[e].frames.limit <= v.max,
         request'[Peer(e)].frames.limit <= maxStreamId[Peer(e)],
         response'[e].frames.limit <= maxStreamId[Peer(e)],
         response'[Peer(e)].frames.limit <= v.max,
         \A d \in Ends : request'[d].mentions \cup request'[d].carries \subseteq Known(d)
  PROVE  IInv'
<1> DEFINE p == Peer(e)
<1>1. p \in Ends /\ p # e /\ Peer(p) = e /\ \A d \in Ends : d = e \/ d = p
  BY EndsFacts
<1>2. /\ record' = [record EXCEPT ![e] = v.record]
      /\ maxStreamId' = [maxStreamId EXCEPT ![e] = v.max]
      /\ remoteMaxStreamId' = [remoteMaxStreamId EXCEPT ![e] = v.remote]
      /\ assuming' = IF frames.limit = 0 THEN assuming ELSE assuming \ {e}
  BY DEF Takes
<1>3. v.record \in [Streams -> States] /\ v.max \in Nat /\ v.remote \in Nat /\ frames.limit \in Nat
  BY DEF IsView, FrameSet
<1>4. Types'
  BY <1>2, <1>3 DEF IInv, Types
<1>5. maxStreamId'[e] = v.max /\ maxStreamId'[p] = maxStreamId[p]
      /\ remoteMaxStreamId'[e] = v.remote /\ remoteMaxStreamId'[p] = remoteMaxStreamId[p]
  BY <1>1, <1>2 DEF IInv, Types
<1>6. maxStreamId[e] \in Nat /\ maxStreamId[p] \in Nat /\ remoteMaxStreamId[p] \in Nat
  BY <1>1 DEF IInv, Types
<1>7. LimitsInv'
  <2>1. /\ queuedFrames'[e].limit <= maxStreamId'[e]
        /\ request'[e].frames.limit <= maxStreamId'[e]
        /\ response'[e].frames.limit <= maxStreamId'[p]
        /\ queuedFrames'[p].limit <= maxStreamId'[p]
        /\ request'[p].frames.limit <= maxStreamId'[p]
        /\ response'[p].frames.limit <= maxStreamId'[e]
    BY <1>5
  <2>2. IF e \in assuming' THEN e = "server" /\ remoteMaxStreamId'[e] = 2 * Default
        ELSE remoteMaxStreamId'[e] <= maxStreamId'[p]
    BY <1>1, <1>2, <1>3, <1>5, <1>6 DEF IInv, LimitsInv
  <2>3. IF p \in assuming' THEN p = "server" /\ remoteMaxStreamId'[p] = 2 * Default
        ELSE remoteMaxStreamId'[p] <= maxStreamId'[e]
    BY <1>1, <1>2, <1>3, <1>5, <1>6 DEF IInv, LimitsInv
  <2> QED BY <1>1, <2>1, <2>2, <2>3 DEF LimitsInv
<1>8. StreamsInv' /\ BudgetInv'
  <2>1. Known(p)' = Known(p) /\ Known(e)' = {s \in Streams : v.record[s] # "none"}
    BY <1>1, <1>2 DEF Known, IInv, Types
  <2>2. \A d \in Ends : /\ Known(d) \subseteq Known(d)'
                        /\ Known(d)' \subseteq Known(d) \cup (Known(Peer(d)) \cap OwnIds(Peer(d)))
    <3>1. Known(e) \subseteq Known(e)'
      BY <2>1 DEF Known
    <3> QED BY <1>1, <2>1, <3>1
  <2>3. \A d \in Ends : maxStreamId[d] <= maxStreamId'[d]
    BY <1>1, <1>5, <1>6
  <2> QED BY <1>4, <2>2, <2>3, StreamsKeep
<1>9. NeverTooMany'
  BY DEF IInv, NeverTooMany
<1> QED BY <1>4, <1>7, <1>8, <1>9 DEF IInv

\* What a receiver has once it has opened the new streams of a packet.
LEMMA NewStreams ==
  ASSUME IInv, NEW e \in Ends
  PROVE  LET p == Peer(e)
             v == WithNew(e)
         IN /\ v \in Views /\ v.queue.limit <= v.max
            /\ v.queue.limit \in {maxStreamId[p], queuedFrames[p].limit}
            /\ v.max = maxStreamId[p] /\ v.remote = remoteMaxStreamId[p]
            /\ \A s \in Streams :
                 v.record[s] = IF s \in Opened(e) THEN "open" ELSE record[p][s]
<1> DEFINE p == Peer(e)
           new == [s \in Streams |-> IF s \in Opened(e) THEN "open" ELSE record[p][s]]
           limit == IF \E s \in Opened(e) : Nearly(p, s) THEN maxStreamId[p] ELSE queuedFrames[p].limit
           queue == [queuedFrames[p] EXCEPT !.limit = limit]
<1>1. /\ p \in Ends /\ maxStreamId[p] \in Nat /\ remoteMaxStreamId[p] \in Nat
      /\ queuedFrames[p] \in FrameSet /\ queuedFrames[p].limit <= maxStreamId[p]
      /\ record[p] \in [Streams -> States]
  BY EndsFacts DEF IInv, Types, LimitsInv
<1>2. new \in [Streams -> States]
  BY <1>1 DEF States
<1>3. limit \in Nat /\ limit <= maxStreamId[p] /\ limit \in {maxStreamId[p], queuedFrames[p].limit}
  BY <1>1 DEF FrameSet
<1>4. queue \in FrameSet /\ queue.limit = limit
  <2> HIDE DEF limit
  <2> QED BY <1>1, <1>3 DEF FrameSet
<1> DEFINE w == View(p, new)
<1>5. /\ w \in Views /\ w.max = maxStreamId[p] /\ w.remote = remoteMaxStreamId[p]
      /\ w.record = new /\ w.queue = queuedFrames[p]
  <2> HIDE DEF new
  <2> QED BY <1>1, <1>2 DEF View, Views
<1>6. WithNew(e) = [w EXCEPT !.queue = queue]
  <2>1. WithNew(e) = [w EXCEPT !.queue.limit = limit]
    BY <1>5 DEF WithNew
  <2> HIDE DEF w, limit
  <2> QED BY <1>5, <2>1
<1>7. \A s \in Streams : new[s] = IF s \in Opened(e) THEN "open" ELSE record[p][s]
  OBVIOUS
<1> HIDE DEF new, queue, w
<1>8. /\ WithNew(e) \in Views /\ WithNew(e).record = new /\ WithNew(e).queue = queue
      /\ WithNew(e).max = w.max /\ WithNew(e).remote = w.remote
  BY <1>4, <1>5, <1>6 DEF Views
<1> QED BY <1>3, <1>4, <1>5, <1>7, <1>8

\* A set of streams has a smallest.
LEMMA SmallestStream ==
  ASSUME NEW S \in SUBSET Streams, S # {}
  PROVE  (CHOOSE s \in S : \A t \in S : s <= t) \in S
<1>1. S \in SUBSET Nat
  BY IdsAssumption
<1>2. PICK s \in S : \A t \in S : ~ (<<t, s>> \in OpToRel(<, Nat))
  BY <1>1, NatLessThanWellFounded, WFMin
<1>3. ASSUME NEW m \in Nat, NEW n \in Nat, m < n
      PROVE  <<m, n>> \in OpToRel(<, Nat)
  BY <1>3, Zenon DEF OpToRel
<1>4. ASSUME NEW t \in S
      PROVE  s <= t
  <2>1. s \in Nat /\ t \in Nat
    BY <1>1
  <2>2. ~ (t < s)
    BY <1>2, <1>3, <2>1
  <2> QED BY <2>1, <2>2
<1> QED BY <1>4

\* What an end that has answered a packet of e takes with it: its view is v, its queue is gone,
\* or it waits, with the packet still there.
LEMMA ReceiverKeeps ==
  ASSUME IInv, NEW e \in Ends, NEW v, IsView(v), NEW frames \in FrameSet,
         Takes(Peer(e), v, frames), frames.limit <= maxStreamId[e],
         maxStreamId[Peer(e)] <= v.max, v.queue.limit <= v.max,
         v.remote = IF frames.limit = 0 THEN remoteMaxStreamId[Peer(e)] ELSE frames.limit,
         \A s \in Streams :
           (v.record[s] = "none") = (s \notin Opened(e) /\ record[Peer(e)][s] = "none"),
         UNCHANGED <<nextStreamId, refused, hasty>>,
         \/ \E fulfilled \in BOOLEAN, closes \in SUBSET Streams : Answer(e, fulfilled, closes, v.queue)
         \/ UNCHANGED <<request, response>> /\ queuedFrames' = [queuedFrames EXCEPT ![Peer(e)] = v.queue]
  PROVE  IInv'
<1> DEFINE p == Peer(e)
<1>1. p \in Ends /\ p # e /\ Peer(p) = e /\ \A d \in Ends : d = e \/ d = p
  BY EndsFacts
<1>2. \A s \in Streams :
        /\ s \in Known(p) => v.record[s] # "none"
        /\ v.record[s] # "none" => s \in Known(p) \cup (Known(e) \cap OwnIds(e))
  BY OpenedAreOwn DEF Known
<1>3. /\ v.queue \in FrameSet /\ maxStreamId[e] \in Nat /\ maxStreamId[p] \in Nat /\ v.max \in Nat
      /\ queuedFrames[p].limit <= maxStreamId[p]
  BY <1>1 DEF IInv, Types, LimitsInv, IsView
<1>4. /\ request[p].frames.limit <= maxStreamId[p] /\ request[p].frames.limit \in Nat
      /\ response[e].frames.limit <= maxStreamId[p] /\ response[e].frames.limit \in Nat
      /\ response[p].frames.limit <= maxStreamId[e]
      /\ request[e].frames.limit <= maxStreamId[e]
      /\ queuedFrames[e].limit <= maxStreamId[e]
  BY <1>1 DEF IInv, Types, LimitsInv, FrameSet
<1>5. request[p].frames.limit <= v.max /\ response[e].frames.limit <= v.max /\ 0 <= v.max /\ 0 <= maxStreamId[e]
  BY <1>3, <1>4
<1>6. CASE \E fulfilled \in BOOLEAN, closes \in SUBSET Streams : Answer(e, fulfilled, closes, v.queue)
  <2>1. PICK fulfilled \in BOOLEAN, closes \in SUBSET Streams : Answer(e, fulfilled, closes, v.queue)
    BY <1>6
  <2>2. /\ request' \in [Ends -> [frames : FrameSet, mentions : SUBSET Streams, carries : SUBSET Streams]]
        /\ response' \in [Ends -> [fulfilled : BOOLEAN, frames : FrameSet]]
        /\ queuedFrames' \in [Ends -> FrameSet]
        /\ request'[e].frames.limit = 0 /\ request'[e].mentions = {} /\ request'[e].carries = {}
        /\ response'[e].frames.limit = v.queue.limit
        /\ queuedFrames'[p].limit = 0 /\ queuedFrames'[e] = queuedFrames[e]
        /\ \A d \in Ends : d # e => request'[d] = request[d] /\ response'[d] = response[d]
    BY <1>3, <2>1, AnswerFacts DEF IInv
  <2>3. /\ queuedFrames'[p].limit <= v.max /\ queuedFrames'[e].limit <= maxStreamId[e]
        /\ request'[p].frames.limit <= v.max /\ request'[e].frames.limit <= maxStreamId[e]
        /\ response'[p].frames.limit <= maxStreamId[e] /\ response'[e].frames.limit <= v.max
        /\ \A d \in Ends : request'[d].mentions \cup request'[d].carries \subseteq Known(d)
    BY <1>1, <1>4, <1>5, <2>2 DEF IInv, StreamsInv
  <2> HIDE DEF p
  <2>4. p = Peer(e)
    BY DEF p
  <2> QED BY <1>1, <1>2, <2>2, <2>3, <2>4, ApplyKeeps
<1>7. CASE UNCHANGED <<request, response>> /\ queuedFrames' = [queuedFrames EXCEPT ![p] = v.queue]
  <2>1. /\ request' = request /\ response' = response /\ queuedFrames' \in [Ends -> FrameSet]
        /\ queuedFrames'[p] = v.queue /\ queuedFrames'[e] = queuedFrames[e]
    BY <1>1, <1>3, <1>7 DEF IInv, Types
  <2>2. /\ queuedFrames'[p].limit <= v.max /\ queuedFrames'[e].limit <= maxStreamId[e]
        /\ request'[p].frames.limit <= v.max /\ request'[e].frames.limit <= maxStreamId[e]
        /\ response'[p].frames.limit <= maxStreamId[e] /\ response'[e].frames.limit <= v.max
        /\ \A d \in Ends : request'[d].mentions \cup request'[d].carries \subseteq Known(d)
    BY <1>4, <1>5, <2>1 DEF IInv, StreamsInv
  <2>3. /\ request' \in [Ends -> [frames : FrameSet, mentions : SUBSET Streams, carries : SUBSET Streams]]
        /\ response' \in [Ends -> [fulfilled : BOOLEAN, frames : FrameSet]]
    BY <2>1 DEF IInv, Types
  <2> HIDE DEF p
  <2>4. p = Peer(e)
    BY DEF p
  <2> QED BY <1>1, <1>2, <2>1, <2>2, <2>3, <2>4, ApplyKeeps
<1> QED BY <1>6, <1>7

\* A packet for a stream that is gone: only its new streams are taken.
LEMMA ArriveLateKeeps ==
  ASSUME IInv, NEW e \in Ends, ArriveLate(e)
  PROVE  IInv'
<1> DEFINE p == Peer(e)
           v == WithNew(e)
           r == CHOOSE s \in Refused(e) : \A t \in Refused(e) : s <= t
<1>1. /\ v \in Views /\ v.queue.limit <= v.max
      /\ v.max = maxStreamId[p] /\ v.remote = remoteMaxStreamId[p]
      /\ \A s \in Streams : v.record[s] = IF s \in Opened(e) THEN "open" ELSE record[p][s]
  BY NewStreams
<1>2. {r} \in SUBSET Streams
  <2>1. Refused(e) \in SUBSET Streams /\ Refused(e) # {}
    BY DEF ArriveLate, Refused, IInv, Types
  <2> QED BY <2>1, SmallestStream
<1>3. UNCHANGED <<nextStreamId, maxStreamId, remoteMaxStreamId, refused, assuming, hasty>>
  BY DEF ArriveLate, idVars
<1>4. record' = [record EXCEPT ![p] = v.record] /\ Answer(e, FALSE, {r}, v.queue)
  BY DEF ArriveLate
<1> HIDE DEF v, r
<1>5. IsView(v) /\ maxStreamId[p] <= v.max
  BY <1>1 DEF IsView, Views
<1>6. Takes(p, v, NoFrames)
  BY <1>1, <1>3, <1>4, EndsFacts, EmptyFacts DEF Takes, IInv, Types
<1>7. NoFrames.limit <= maxStreamId[e] /\ NoFrames.limit = 0 /\ NoFrames \in FrameSet
  BY EmptyFacts DEF IInv, Types
<1>8. \A s \in Streams : (v.record[s] = "none") = (s \notin Opened(e) /\ record[p][s] = "none")
  BY <1>1
<1> QED BY <1>1, <1>2, <1>3, <1>4, <1>5, <1>6, <1>7, <1>8, ReceiverKeeps

\* A packet whose frames are taken.
LEMMA ArriveKeeps ==
  ASSUME IInv, NEW e \in Ends, Arrive(e)
  PROVE  IInv'
<1> DEFINE p == Peer(e)
           w == WithNew(e)
           f == request[e].frames
           v == handleControlFrames(w, f)
<1>1. /\ w \in Views /\ w.queue.limit <= w.max
      /\ w.max = maxStreamId[p] /\ w.remote = remoteMaxStreamId[p]
      /\ \A s \in Streams : w.record[s] = IF s \in Opened(e) THEN "open" ELSE record[p][s]
  BY NewStreams
<1>2. f \in FrameSet /\ f.limit <= maxStreamId[e]
  BY DEF IInv, Types, LimitsInv
<1>3. /\ IsView(v) /\ w.max <= v.max /\ v.queue.limit <= v.max
      /\ v.remote = IF f.limit = 0 THEN w.remote ELSE f.limit
      /\ \A s \in Streams : (v.record[s] = "none") = (w.record[s] = "none")
  <2> HIDE DEF w, f
  <2> QED BY <1>1, <1>2, HandledView
<1>4. Takes(p, v, f) /\ UNCHANGED <<nextStreamId, refused, hasty>>
  BY DEF Arrive, Apply, Takes
<1>5. \A s \in Streams : (v.record[s] = "none") = (s \notin Opened(e) /\ record[p][s] = "none")
  BY <1>1, <1>3
<1>6. \/ \E fulfilled \in BOOLEAN, closes \in SUBSET Streams : Answer(e, fulfilled, closes, v.queue)
      \/ UNCHANGED <<request, response>> /\ queuedFrames' = [queuedFrames EXCEPT ![p] = v.queue]
  <2> HIDE DEF v
  <2>1. CASE Fulfill(e, v.record, v.queue)
    <3>1. Closing(v.record, told[p]) \in SUBSET Streams
      BY DEF Closing
    <3> QED BY <2>1, <3>1 DEF Fulfill
  <2>2. CASE \E s \in request[e].carries : Answer(e, FALSE, {s}, v.queue)
    BY <2>2 DEF IInv, Types
  <2>3. CASE UNCHANGED <<request, response>> /\ queuedFrames' = [queuedFrames EXCEPT ![p] = v.queue]
    BY <2>3
  <2> USE DEF v
  <2> QED BY <2>1, <2>2, <2>3 DEF Arrive
<1> HIDE DEF w, f, v
<1> QED BY <1>1, <1>2, <1>3, <1>4, <1>5, <1>6, ReceiverKeeps

\* The answer comes, and its frames are taken.
LEMMA AnsweredKeeps ==
  ASSUME IInv, NEW e \in Ends, Answered(e)
  PROVE  IInv'
<1> DEFINE r == response[e]
           view == View(e, record[e])
           w == IF r.fulfilled THEN view ELSE [view EXCEPT !.queue = Undone(e, @)]
           v == handleControlFrames(w, r.frames)
<1>1. /\ Peer(e) \in Ends /\ maxStreamId[e] \in Nat /\ maxStreamId[Peer(e)] \in Nat
      /\ remoteMaxStreamId[e] \in Nat
      /\ record[e] \in [Streams -> States]
      /\ queuedFrames[e] \in FrameSet /\ queuedFrames[e].limit <= maxStreamId[e]
      /\ r.frames \in FrameSet /\ r.frames.limit <= maxStreamId[Peer(e)]
  BY EndsFacts DEF IInv, Types, LimitsInv
<1>2. /\ view \in Views /\ view.record = record[e] /\ view.max = maxStreamId[e]
      /\ view.remote = remoteMaxStreamId[e] /\ view.queue = queuedFrames[e]
  BY <1>1 DEF View, Views
<1>3. Undone(e, queuedFrames[e]) \in FrameSet
      /\ Undone(e, queuedFrames[e]).limit = queuedFrames[e].limit
  BY <1>1 DEF Undone, FrameSet, IInv, Types
<1>4. /\ w \in Views /\ w.record = record[e] /\ w.max = maxStreamId[e]
      /\ w.remote = remoteMaxStreamId[e] /\ w.queue.limit <= w.max
  <2> HIDE DEF view
  <2> QED BY <1>1, <1>2, <1>3 DEF Views
<1>5. /\ IsView(v) /\ w.max <= v.max /\ v.queue.limit <= v.max
      /\ v.remote = IF r.frames.limit = 0 THEN w.remote ELSE r.frames.limit
      /\ \A s \in Streams : (v.record[s] = "none") = (w.record[s] = "none")
  <2> HIDE DEF w, r
  <2> QED BY <1>1, <1>4, HandledView
<1>6. /\ Takes(e, v, r.frames) /\ UNCHANGED <<nextStreamId, refused, hasty>>
      /\ queuedFrames' = [queuedFrames EXCEPT ![e] = v.queue]
      /\ request' = [request EXCEPT ![e] = NoPacket] /\ response' = [response EXCEPT ![e] = NoResponse]
  BY DEF Answered, Apply, Takes, Settled
<1> HIDE DEF v, w, view
<1>7. \A s \in Streams :
        /\ s \in Known(e) => v.record[s] # "none"
        /\ v.record[s] # "none" => s \in Known(e) \cup (Known(Peer(e)) \cap OwnIds(Peer(e)))
  BY <1>4, <1>5 DEF Known
<1>8. /\ queuedFrames' \in [Ends -> FrameSet]
      /\ request' \in [Ends -> [frames : FrameSet, mentions : SUBSET Streams, carries : SUBSET Streams]]
      /\ response' \in [Ends -> [fulfilled : BOOLEAN, frames : FrameSet]]
      /\ queuedFrames'[e] = v.queue /\ queuedFrames'[Peer(e)] = queuedFrames[Peer(e)]
      /\ request'[e] = NoPacket /\ request'[Peer(e)] = request[Peer(e)]
      /\ response'[e] = NoResponse /\ response'[Peer(e)] = response[Peer(e)]
  BY <1>5, <1>6, EmptyFacts, EndsFacts DEF IInv, Types, IsView
<1>9. /\ queuedFrames'[e].limit <= v.max
      /\ queuedFrames'[Peer(e)].limit <= maxStreamId[Peer(e)]
      /\ request'[e].frames.limit <= v.max
      /\ request'[Peer(e)].frames.limit <= maxStreamId[Peer(e)]
      /\ response'[e].frames.limit <= maxStreamId[Peer(e)]
      /\ response'[Peer(e)].frames.limit <= v.max
  <2>1. response[Peer(e)].frames.limit <= maxStreamId[e] /\ response[Peer(e)].frames.limit \in Nat
    BY EndsFacts DEF IInv, Types, LimitsInv, FrameSet
  <2>2. response[Peer(e)].frames.limit <= v.max
    BY <1>1, <1>4, <1>5, <2>1 DEF IsView
  <2> QED BY <1>1, <1>5, <1>8, <2>2, EmptyFacts DEF IInv, LimitsInv, IsView
<1>10. \A d \in Ends : request'[d].mentions \cup request'[d].carries \subseteq Known(d)
  BY <1>6, EmptyFacts DEF IInv, Types, StreamsInv
<1>11. maxStreamId[e] <= v.max
       /\ v.remote = IF r.frames.limit = 0 THEN remoteMaxStreamId[e] ELSE r.frames.limit
  BY <1>4, <1>5
<1> HIDE DEF r
<1> QED BY <1>1, <1>5, <1>6, <1>7, <1>8, <1>9, <1>10, <1>11, ApplyKeeps

\* A stream too many is one that was created before a limit was known.
LEMMA TooManyKeeps ==
  ASSUME IInv, NEW e \in Ends, TooMany(e)
  PROVE  IInv'
<1>1. PICK s \in Opened(e) : refused' = s /\ s > maxStreamId[Peer(e)]
  BY DEF TooMany
<1>2. UNCHANGED <<record, nextStreamId, maxStreamId, remoteMaxStreamId, queuedFrames, request,
                  response, assuming, hasty>>
  BY DEF TooMany, streamVars, idVars, packetVars, history
<1>3. s \in Known(e) \cap OwnIds(e) /\ s \in Streams /\ s \in Nat
  BY OpenedAreOwn, IdsAssumption DEF Known
<1>4. maxStreamId[Peer(e)] \in Nat
  BY EndsFacts DEF IInv, Types
<1>5. s \in hasty
  BY <1>1, <1>3, <1>4 DEF IInv, BudgetInv
<1>6. Allows(Peer(e)) < Default
  <2>1. 2 * Allows(Peer(e)) <= maxStreamId[Peer(e)] /\ s <= 2 * Default
    BY <1>5, EndsFacts DEF IInv, BudgetInv
  <2> QED BY <1>1, <1>3, <1>4, <2>1, EndsFacts, IdsAssumption
<1>7. NeverTooMany'
  BY <1>1, <1>2, <1>5, <1>6, EndsFacts DEF NeverTooMany, Allows
<1>8. Types' /\ LimitsInv' /\ StreamsInv' /\ BudgetInv'
  BY <1>1, <1>2, <1>3 DEF IInv, Types, LimitsInv, StreamsInv, BudgetInv, Known
<1> QED BY <1>7, <1>8 DEF IInv
-----------------------------------------------------------------------------
(* The theorem.                                                             *)

LEMMA IdsInit == Init => IInv
<1> SUFFICES ASSUME Init PROVE IInv
  OBVIOUS
<1>1. Types
  BY IdsAssumption, EmptyFacts DEF Init, Types, States, Ends, First, Allows
<1>2. LimitsInv
  BY IdsAssumption, EmptyFacts DEF Init, LimitsInv, Ends, Peer, Allows
<1>3. StreamsInv /\ BudgetInv
  BY IdsAssumption, EmptyFacts DEF Init, StreamsInv, BudgetInv, Known, Ends, Peer, Allows, First
<1>4. NeverTooMany
  BY DEF Init, NeverTooMany
<1> QED BY <1>1, <1>2, <1>3, <1>4 DEF IInv

LEMMA IdsStep == IInv /\ [Next]_vars => IInv'
<1> SUFFICES ASSUME IInv, [Next]_vars PROVE IInv'
  OBVIOUS
<1>1. CASE UNCHANGED vars
  <2>1. UNCHANGED <<record, nextStreamId, maxStreamId, remoteMaxStreamId, queuedFrames, request,
                    response, refused, assuming, hasty>>
    BY <1>1 DEF vars, streamVars, idVars, packetVars, history
  <2>2. \A d \in Ends : Known(d)' = Known(d)
    BY <2>1 DEF Known
  <2> QED BY <2>1, <2>2, QuietStep DEF IInv, Types, LimitsInv, StreamsInv
<1>2. CASE \E e \in Ends : createStream(e) \/ \E s \in Streams : EndStream(e, s) \/ removeStreamRecord(e, s)
  BY <1>2, createStreamKeeps, EndKeeps
<1>3. CASE \E e \in Ends, carries \in SUBSET Streams : loadAndSendPacket(e, carries)
  BY <1>3, loadKeeps
<1>4. CASE \E e \in Ends : TooMany(e) \/ ArriveLate(e) \/ Arrive(e)
  BY <1>4, TooManyKeeps, ArriveLateKeeps, ArriveKeeps
<1>5. CASE \E e \in Ends : \/ Accept(e) \/ Decline(e) \/ Answered(e)
                           \/ TemporaryError(e) \/ BackoffOver(e)
  BY <1>5, DecideKeeps, AnsweredKeeps, TemporaryErrorKeeps, BackoffOverKeeps
<1>6. ASSUME NEW e \in Ends, Use(e)
      PROVE  \E carries \in SUBSET Streams : loadAndSendPacket(e, carries)
  BY <1>6 DEF Use, Mentioned
<1> QED BY <1>1, <1>2, <1>3, <1>4, <1>5, <1>6 DEF Next, Progress, Application

\* Whatever limits are lost, late or out of order: a connection is closed for a stream too many
\* only if that stream was created before any limit had come, by the server (the client is told
\* the server's at once), and the client allows fewer streams than the server takes it to.
THEOREM NoStreamTooMany == Spec => []NeverTooMany
<1>1. IInv => NeverTooMany
  BY DEF IInv
<1> QED BY <1>1, IdsInit, IdsStep, PTL DEF Spec

-----------------------------------------------------------------------------
(* How many streams are open.                                               *)

\* The streams that an end has no more, or as good as.
Gone(e) == {s \in Streams : record[e][s] \in {"ended", "removed"}}

\* The inductive invariant: a limit is raised only by streams that are gone, the streams of
\* the peer are within it, and ids are not used again.
RaisedInv ==
  \A e \in Ends :
    /\ maxStreamId[e] <= 2 * (Allows(e) + Cardinality(Gone(e)))
    /\ \A s \in Known(e) \cap OwnIds(Peer(e)) : s <= maxStreamId[e]
    /\ \A s \in Known(e) \cap OwnIds(e) : s < nextStreamId[e]

\* What a step does to an end's streams: it closes C and raises the limit for them, a stream
\* that is gone stays so, and one that is new is within the limit, or an own one.
Moves(e) ==
  \E C \in SUBSET Streams :
    /\ maxStreamId'[e] = maxStreamId[e] + 2 * Cardinality(C)
    /\ C \cap Gone(e) = {} /\ C \cup Gone(e) \subseteq Gone(e)'
    /\ \A s \in Known(e)' : \/ s \in Known(e)
                            \/ s \in OwnIds(Peer(e)) /\ s <= maxStreamId[e]
                            \/ s \in OwnIds(e) /\ s < nextStreamId'[e]
    /\ nextStreamId[e] <= nextStreamId'[e]

LEMMA MovesKeep ==
  ASSUME IInv, IInv', RaisedInv, \A e \in Ends : Moves(e)
  PROVE  RaisedInv'
<1> SUFFICES ASSUME NEW e \in Ends
             PROVE  /\ maxStreamId'[e] <= 2 * (Allows(e) + Cardinality(Gone(e)'))
                    /\ \A s \in Known(e)' \cap OwnIds(Peer(e)) : s <= maxStreamId'[e]
                    /\ \A s \in Known(e)' \cap OwnIds(e) : s < nextStreamId'[e]
  BY DEF RaisedInv
<1>1. PICK C \in SUBSET Streams :
        /\ maxStreamId'[e] = maxStreamId[e] + 2 * Cardinality(C)
        /\ C \cap Gone(e) = {} /\ C \cup Gone(e) \subseteq Gone(e)'
        /\ \A s \in Known(e)' : \/ s \in Known(e)
                                \/ s \in OwnIds(Peer(e)) /\ s <= maxStreamId[e]
                                \/ s \in OwnIds(e) /\ s < nextStreamId'[e]
        /\ nextStreamId[e] <= nextStreamId'[e]
  BY DEF Moves
<1>2. /\ maxStreamId[e] \in Nat /\ nextStreamId[e] \in Nat /\ nextStreamId'[e] \in Nat
      /\ Allows(e) \in Nat /\ \A s \in Streams : s \in Nat
  BY EndsFacts, IdsAssumption DEF IInv, Types
<1>3. Gone(e) \subseteq Streams /\ Gone(e)' \subseteq Streams
  BY DEF Gone
<1>4. /\ IsFiniteSet(Gone(e)) /\ IsFiniteSet(Gone(e)') /\ IsFiniteSet(C)
      /\ Cardinality(Gone(e)) \in Nat /\ Cardinality(Gone(e)') \in Nat /\ Cardinality(C) \in Nat
  BY <1>3, FS_Subset, FS_CardinalityType, IdsAssumption
<1>5. Cardinality(C) + Cardinality(Gone(e)) <= Cardinality(Gone(e)')
  <2>1. Cardinality(C \cup Gone(e)) = Cardinality(C) + Cardinality(Gone(e)) - Cardinality({})
    BY <1>1, <1>4, FS_Union
  <2>2. Cardinality({}) = 0
    BY FS_EmptySet
  <2>3. Cardinality(C \cup Gone(e)) <= Cardinality(Gone(e)')
    BY <1>1, <1>4, FS_Subset
  <2> QED BY <1>4, <2>1, <2>2, <2>3
<1>6. maxStreamId'[e] <= 2 * (Allows(e) + Cardinality(Gone(e)'))
  BY <1>1, <1>2, <1>4, <1>5 DEF RaisedInv
<1>7. ASSUME NEW s \in Known(e)' \cap OwnIds(Peer(e)) PROVE s <= maxStreamId'[e]
  <2>1. s \notin OwnIds(e) /\ s \in Nat
    BY <1>2, OwnIdsSplit DEF OwnIds
  <2>2. s <= maxStreamId[e]
    BY <1>1, <2>1 DEF RaisedInv
  <2> QED BY <1>1, <1>2, <1>4, <2>1, <2>2
<1>8. ASSUME NEW s \in Known(e)' \cap OwnIds(e) PROVE s < nextStreamId'[e]
  <2>1. s \notin OwnIds(Peer(e)) /\ s \in Nat
    BY <1>2, OwnIdsSplit DEF OwnIds
  <2> QED BY <1>1, <1>2, <2>1 DEF RaisedInv
<1> QED BY <1>6, <1>7, <1>8

\* An end whose streams and limit a step leaves alone.
LEMMA StaysPut ==
  ASSUME IInv, NEW e \in Ends, record'[e] = record[e], maxStreamId'[e] = maxStreamId[e],
         nextStreamId'[e] = nextStreamId[e]
  PROVE  Moves(e)
<1>1. Gone(e)' = Gone(e) /\ Known(e)' = Known(e)
  BY DEF Gone, Known
<1>2. Cardinality({}) = 0 /\ maxStreamId[e] \in Nat /\ nextStreamId[e] \in Nat
  BY FS_EmptySet DEF IInv, Types
<1>3. {} \in SUBSET Streams /\ maxStreamId'[e] = maxStreamId[e] + 2 * Cardinality({})
  BY <1>2
<1> QED BY <1>1, <1>2, <1>3 DEF Moves

\* What handleControlFrames closes, and what that raises and announces.
LEMMA HandledCloses ==
  ASSUME NEW view \in Views, NEW frames \in FrameSet
  PROVE  LET v == handleControlFrames(view, frames)
         IN \E C \in SUBSET Streams :
              /\ v.max = view.max + 2 * Cardinality(C)
              /\ \A s \in C : view.record[s] = "open"
              /\ \A s \in Streams : v.record[s] = IF s \in C THEN "ended" ELSE view.record[s]
              /\ v.queue.limit = IF C # {} THEN v.max ELSE view.queue.limit
<1> DEFINE w == LimitTaken(view, frames.limit)
           C == Closed(w, frames.closes)
           v == handleStreamCloses(w, frames.closes)
<1>1. w \in Views /\ w.record = view.record /\ w.max = view.max /\ w.queue = view.queue
  BY DEF LimitTaken, Views, FrameSet
<1>2. C \in SUBSET Streams /\ \A s \in C : w.record[s] = "open"
  BY DEF Closed, FrameSet
<1>3. /\ v.max = w.max + 2 * Cardinality(C)
      /\ v.record = [s \in Streams |-> IF s \in C THEN "ended" ELSE w.record[s]]
      /\ v.queue = [w.queue EXCEPT !.limit = IF C # {} THEN w.max + 2 * Cardinality(C) ELSE w.queue.limit]
  BY <1>1 DEF handleStreamCloses, Views
<1>4. v = handleControlFrames(view, frames)
  BY DEF handleControlFrames
<1> HIDE DEF w, C, v
<1>5. v.queue.limit = IF C # {} THEN v.max ELSE w.queue.limit
  BY <1>1, <1>3 DEF Views, FrameSet
<1> QED BY <1>1, <1>2, <1>3, <1>4, <1>5

LEMMA createStreamMoves ==
  ASSUME IInv, RaisedInv, NEW d \in Ends, createStream(d), NEW e \in Ends
  PROVE  Moves(e)
<1> DEFINE n == nextStreamId[d]
<1>1. /\ record' = [record EXCEPT ![d][n] = "open"] /\ n \in Streams
      /\ nextStreamId' = [nextStreamId EXCEPT ![d] = n + 2] /\ maxStreamId' = maxStreamId
  BY DEF createStream
<1>2. CASE e # d
  BY <1>1, <1>2, StaysPut DEF IInv, Types
<1>3. CASE e = d
  <2>1. n \in OwnIds(e) /\ n \in Nat /\ n \notin Known(e) /\ n \notin Gone(e)
    <3>1. n \in OwnIds(e) /\ n \in Nat
      BY <1>1, <1>3 DEF IInv, StreamsInv, Types, OwnIds
    <3>2. n \notin Known(e)
      BY <1>3, <3>1 DEF RaisedInv
    <3> QED BY <3>1, <3>2 DEF Known, Gone
  <2>2. /\ record'[e] = [record[e] EXCEPT ![n] = "open"] /\ record[e] \in [Streams -> States]
        /\ nextStreamId'[e] = n + 2
    BY <1>1, <1>3 DEF IInv, Types
  <2>3. Known(e)' = Known(e) \cup {n} /\ Gone(e)' = Gone(e)
    BY <1>1, <2>1, <2>2 DEF Known, Gone
  <2>4. /\ {} \in SUBSET Streams /\ maxStreamId'[e] = maxStreamId[e] + 2 * Cardinality({})
        /\ n < n + 2 /\ nextStreamId[e] <= nextStreamId'[e]
    BY <1>1, <1>3, <2>1, <2>2, FS_EmptySet DEF IInv, Types
  <2> QED BY <2>1, <2>2, <2>3, <2>4 DEF Moves
<1> QED BY <1>2, <1>3

LEMMA EndMoves ==
  ASSUME IInv, NEW d \in Ends, NEW s \in Streams, EndStream(d, s) \/ removeStreamRecord(d, s),
         NEW e \in Ends
  PROVE  Moves(e)
<1>1. PICK how \in {"closing", "removed"} : record' = [record EXCEPT ![d][s] = how]
  BY DEF EndStream, removeStreamRecord
<1>2. /\ record[d][s] # "none" /\ (how = "closing" => record[d][s] = "open")
      /\ nextStreamId' = nextStreamId /\ maxStreamId' = maxStreamId
  BY <1>1 DEF EndStream, removeStreamRecord, idVars, IInv, Types
<1>3. CASE e # d
  BY <1>1, <1>2, <1>3, StaysPut DEF IInv, Types
<1>4. CASE e = d
  <2>1. record'[e] = [record[e] EXCEPT ![s] = how] /\ record[e] \in [Streams -> States]
    BY <1>1, <1>4 DEF IInv, Types
  <2>2. Known(e)' = Known(e) /\ Gone(e) \subseteq Gone(e)'
    BY <1>2, <1>4, <2>1 DEF Known, Gone
  <2>3. /\ {} \in SUBSET Streams /\ maxStreamId'[e] = maxStreamId[e] + 2 * Cardinality({})
        /\ nextStreamId[e] <= nextStreamId'[e]
    BY <1>2, FS_EmptySet DEF IInv, Types
  <2> QED BY <2>2, <2>3 DEF Moves
<1> QED BY <1>3, <1>4

\* A receiver opens what a packet has within its limit, and closes what that says.
LEMMA ArriveMoves ==
  ASSUME IInv, NEW d \in Ends, Arrive(d) \/ ArriveLate(d), NEW e \in Ends
  PROVE  Moves(e)
<1> DEFINE p == Peer(d)
           w == WithNew(d)
           f == request[d].frames
<1>1. /\ w \in Views /\ w.max = maxStreamId[p]
      /\ \A s \in Streams : w.record[s] = IF s \in Opened(d) THEN "open" ELSE record[p][s]
  BY NewStreams
<1>2. \A s \in Opened(d) : s \in OwnIds(d) /\ s <= maxStreamId[p] /\ record[p][s] = "none"
  BY OpenedAreOwn DEF Arrive, ArriveLate, Acceptable, Opened
<1>3. /\ p \in Ends /\ p # d /\ Peer(p) = d /\ (e = d \/ e = p)
      /\ nextStreamId' = nextStreamId /\ nextStreamId[p] \in Nat
  <2>1. p \in Ends /\ p # d /\ Peer(p) = d /\ (e = d \/ e = p)
    BY EndsFacts
  <2>2. nextStreamId' = nextStreamId
    BY DEF Arrive, ArriveLate, idVars
  <2> QED BY <2>1, <2>2 DEF IInv, Types
<1>4. PICK C \in SUBSET Streams :
        /\ maxStreamId' = [maxStreamId EXCEPT ![p] = w.max + 2 * Cardinality(C)]
        /\ \A s \in C : w.record[s] = "open"
        /\ \E r \in [Streams -> States] :
             /\ record' = [record EXCEPT ![p] = r]
             /\ \A s \in Streams : r[s] = IF s \in C THEN "ended" ELSE w.record[s]
  <2>1. CASE Arrive(d)
    <3> DEFINE v == handleControlFrames(w, f)
    <3>1. f \in FrameSet
      BY DEF IInv, Types
    <3>2. PICK C \in SUBSET Streams :
            /\ v.max = w.max + 2 * Cardinality(C)
            /\ \A s \in C : w.record[s] = "open"
            /\ \A s \in Streams : v.record[s] = IF s \in C THEN "ended" ELSE w.record[s]
      <4> HIDE DEF w, f
      <4> QED BY <1>1, <3>1, HandledCloses
    <3>3. v.record \in [Streams -> States]
      <4>1. w.queue.limit <= w.max
        BY NewStreams
      <4> HIDE DEF w, f
      <4> QED BY <1>1, <3>1, <4>1, HandledView DEF IsView
    <3>4. record' = [record EXCEPT ![p] = v.record] /\ maxStreamId' = [maxStreamId EXCEPT ![p] = v.max]
      BY <2>1 DEF Arrive, Apply
    <3> HIDE DEF v, w
    <3> QED BY <3>2, <3>3, <3>4
  <2>2. CASE ArriveLate(d)
    <3>1. record' = [record EXCEPT ![p] = w.record] /\ maxStreamId' = maxStreamId
      BY <2>2 DEF ArriveLate, idVars
    <3>2. {} \in SUBSET Streams /\ w.max + 2 * Cardinality({}) = maxStreamId[p]
      BY <1>1, FS_EmptySet DEF IInv, Types, Views
    <3>3. maxStreamId' = [maxStreamId EXCEPT ![p] = w.max + 2 * Cardinality({})]
      BY <3>1, <3>2 DEF IInv, Types
    <3>4. w.record \in [Streams -> States]
      BY <1>1 DEF Views
    <3> HIDE DEF w
    <3> QED BY <3>1, <3>2, <3>3, <3>4
  <2> QED BY <2>1, <2>2
<1> HIDE DEF w
<1>5. CASE e = d
  <2>1. record'[e] = record[e] /\ maxStreamId'[e] = maxStreamId[e]
    BY <1>3, <1>4, <1>5 DEF IInv, Types
  <2> QED BY <1>3, <2>1, StaysPut
<1>6. CASE e = p
  <2>1. \A s \in Streams : record'[e][s] = IF s \in C THEN "ended" ELSE w.record[s]
    BY <1>3, <1>4, <1>6 DEF IInv, Types
  <2>2. maxStreamId'[e] = maxStreamId[e] + 2 * Cardinality(C)
    BY <1>1, <1>3, <1>4, <1>6 DEF IInv, Types
  <2>3. \A s \in C : record[e][s] \in {"none", "open"}
    BY <1>1, <1>2, <1>4, <1>6
  <2>4. C \cap Gone(e) = {} /\ C \cup Gone(e) \subseteq Gone(e)'
    BY <1>1, <1>2, <1>6, <2>1, <2>3 DEF Gone
  <2>5. \A s \in Known(e)' : s \in Known(e) \/ s \in Opened(d)
    BY <1>1, <1>4, <1>6, <2>1 DEF Known
  <2> QED BY <1>2, <1>3, <1>6, <2>2, <2>4, <2>5 DEF Moves
<1> QED BY <1>3, <1>5, <1>6

\* An end closes what an answer says.
LEMMA AnsweredMoves ==
  ASSUME IInv, NEW d \in Ends, Answered(d), NEW e \in Ends
  PROVE  Moves(e)
<1> DEFINE r == response[d]
           view == View(d, record[d])
           w == IF r.fulfilled THEN view ELSE [view EXCEPT !.queue = Undone(d, @)]
           v == handleControlFrames(w, r.frames)
<1>1. /\ maxStreamId[d] \in Nat /\ remoteMaxStreamId[d] \in Nat /\ record[d] \in [Streams -> States]
      /\ queuedFrames[d] \in FrameSet /\ r.frames \in FrameSet /\ nextStreamId[d] \in Nat
  BY DEF IInv, Types
<1>2. view \in Views /\ view.record = record[d] /\ view.max = maxStreamId[d] /\ view.queue = queuedFrames[d]
  BY <1>1 DEF View, Views
<1>3. Undone(d, queuedFrames[d]) \in FrameSet
  BY <1>1 DEF Undone, FrameSet, IInv, Types
<1>4. w \in Views /\ w.record = record[d] /\ w.max = maxStreamId[d]
  <2> HIDE DEF view
  <2> QED BY <1>2, <1>3 DEF Views
<1>5. PICK C \in SUBSET Streams :
        /\ v.max = w.max + 2 * Cardinality(C)
        /\ \A s \in C : w.record[s] = "open"
        /\ \A s \in Streams : v.record[s] = IF s \in C THEN "ended" ELSE w.record[s]
  <2> HIDE DEF w, r
  <2> QED BY <1>1, <1>4, HandledCloses
<1>6. /\ record' = [record EXCEPT ![d] = v.record] /\ maxStreamId' = [maxStreamId EXCEPT ![d] = v.max]
      /\ nextStreamId' = nextStreamId
  BY DEF Answered, Apply
<1> HIDE DEF v, w, r
<1>7. CASE e # d
  BY <1>6, <1>7, StaysPut DEF IInv, Types
<1>8. CASE e = d
  <2>1. /\ maxStreamId'[e] = maxStreamId[e] + 2 * Cardinality(C)
        /\ \A s \in Streams : record'[e][s] = IF s \in C THEN "ended" ELSE record[e][s]
    BY <1>4, <1>5, <1>6, <1>8 DEF IInv, Types
  <2>2. /\ C \cap Gone(e) = {} /\ C \cup Gone(e) \subseteq Gone(e)' /\ Known(e)' \subseteq Known(e)
    BY <1>4, <1>5, <1>8, <2>1 DEF Gone, Known
  <2> QED BY <1>1, <1>6, <1>8, <2>1, <2>2 DEF Moves
<1> QED BY <1>7, <1>8

LEMMA RaisedStep ==
  ASSUME IInv, IInv', RaisedInv, [Next]_vars
  PROVE  RaisedInv'
<1> SUFFICES ASSUME NEW e \in Ends PROVE Moves(e)
  BY MovesKeep
<1>1. CASE UNCHANGED <<record, maxStreamId, nextStreamId>>
  BY <1>1, StaysPut
<1>2. CASE \E d \in Ends : createStream(d) \/ \E s \in Streams : EndStream(d, s) \/ removeStreamRecord(d, s)
  BY <1>2, createStreamMoves, EndMoves
<1>3. CASE \E d \in Ends : ArriveLate(d) \/ Arrive(d) \/ Answered(d)
  BY <1>3, ArriveMoves, AnsweredMoves
<1>4. CASE \E d \in Ends : \/ TooMany(d) \/ Accept(d) \/ Decline(d) \/ BackoffOver(d) \/ TemporaryError(d)
  BY <1>1, <1>4 DEF TooMany, Accept, Decline, BackoffOver, TemporaryError, streamVars, idVars
<1>5. CASE \E d \in Ends : \E carries : loadAndSendPacket(d, carries)
  BY <1>1, <1>5 DEF loadAndSendPacket, streamVars, idVars
<1>6. CASE \E d \in Ends : Use(d)
  BY <1>5, <1>6 DEF Use
<1>7. CASE UNCHANGED vars
  BY <1>1, <1>7 DEF vars, streamVars, idVars
<1> QED BY <1>2, <1>3, <1>4, <1>5, <1>6, <1>7 DEF Next, Progress, Application

LEMMA RaisedInit == Init => RaisedInv
<1> SUFFICES ASSUME Init, NEW e \in Ends
             PROVE  /\ maxStreamId[e] <= 2 * (Allows(e) + Cardinality(Gone(e)))
                    /\ Known(e) = {}
  BY DEF RaisedInv
<1>1. record[e] = [s \in Streams |-> "none"] /\ maxStreamId[e] = 2 * Allows(e)
  BY DEF Init
<1>2. Gone(e) = {} /\ Known(e) = {}
  BY <1>1 DEF Gone, Known
<1> QED BY <1>1, <1>2, FS_EmptySet, EndsFacts

\* One end has every other id: at most n of its own are up to 2 * n.
LEMMA OwnIdsUpTo ==
  ASSUME NEW e \in Ends, NEW n \in Nat, NEW S \in SUBSET OwnIds(e), \A s \in S : s <= 2 * n
  PROVE  IsFiniteSet(S) /\ Cardinality(S) <= n
<1> DEFINE f == [s \in S |-> (s + 1) \div 2]
<1>1. \A s \in S : s \in Nat \ {0} /\ s % 2 = First(e) % 2
  BY IdsAssumption DEF OwnIds
<1>2. f \in Injection(S, 1 .. n)
  <2>1. ASSUME NEW s \in S PROVE (s + 1) \div 2 \in 1 .. n
    BY <1>1
  <2>2. ASSUME NEW s \in S, NEW t \in S, (s + 1) \div 2 = (t + 1) \div 2 PROVE s = t
    <3>1. s % 2 = t % 2 /\ s \in Nat /\ t \in Nat
      BY <1>1
    <3> QED BY <2>2, <3>1
  <2>3. f \in [S -> 1 .. n]
    BY <2>1
  <2>4. \A s, t \in S : f[s] = f[t] => s = t
    BY <2>2
  <2> HIDE DEF f
  <2> QED BY <2>3, <2>4 DEF Injection, IsInjective
<1>3. IsFiniteSet(1 .. n) /\ Cardinality(1 .. n) = n
  BY FS_Interval
<1> HIDE DEF f
<1> QED BY <1>2, <1>3, FS_Injection

\* With any limits, losses and order of frames: an end has open at once no more of its peer's
\* streams than it allows, but for one more for each of its own that is closed.
THEOREM OpenBoundedHolds == Spec => []OpenBounded
<1>1. ASSUME IInv, RaisedInv PROVE OpenBounded
  <2> SUFFICES ASSUME NEW e \in Ends
               PROVE  Cardinality(OpenTo(e)) <= Allows(e) + Cardinality(OwnClosed(e))
    BY DEF OpenBounded
  <2> DEFINE p == Peer(e)
             theirs == {s \in OwnIds(p) : record[e][s] \in {"ended", "removed"}}
             n == Allows(e) + Cardinality(Gone(e))
  <2>1. /\ Gone(e) = OwnClosed(e) \cup theirs /\ OwnClosed(e) \cap theirs = {}
        /\ OpenTo(e) \cap theirs = {} /\ OpenTo(e) \cup theirs \in SUBSET OwnIds(p)
        /\ OpenTo(e) \cup theirs \subseteq Known(e) \cap OwnIds(p)
        /\ OpenTo(e) \in SUBSET Streams /\ OwnClosed(e) \in SUBSET Streams /\ theirs \in SUBSET Streams
    BY OwnIdsSplit DEF Gone, OwnClosed, OpenTo, Known, OwnIds
  <2>2. /\ IsFiniteSet(OpenTo(e)) /\ IsFiniteSet(OwnClosed(e)) /\ IsFiniteSet(theirs)
        /\ Cardinality(OpenTo(e)) \in Nat /\ Cardinality(OwnClosed(e)) \in Nat
        /\ Cardinality(theirs) \in Nat
    <3> HIDE DEF theirs
    <3> QED BY <2>1, FS_Subset, FS_CardinalityType, IdsAssumption
  <2>3. /\ Cardinality(Gone(e)) = Cardinality(OwnClosed(e)) + Cardinality(theirs)
        /\ Cardinality(OpenTo(e) \cup theirs) = Cardinality(OpenTo(e)) + Cardinality(theirs)
    <3> HIDE DEF theirs
    <3>1. Cardinality({}) = 0
      BY FS_EmptySet
    <3>2. Cardinality(Gone(e)) = Cardinality(OwnClosed(e)) + Cardinality(theirs) - Cardinality({})
      BY <2>1, <2>2, FS_Union
    <3>3. Cardinality(OpenTo(e) \cup theirs)
            = Cardinality(OpenTo(e)) + Cardinality(theirs) - Cardinality({})
      BY <2>1, <2>2, FS_Union
    <3> QED BY <2>2, <3>1, <3>2, <3>3
  <2>4. n \in Nat /\ \A s \in OpenTo(e) \cup theirs : s <= 2 * n
    <3>1. n \in Nat /\ maxStreamId[e] \in Nat /\ maxStreamId[e] <= 2 * n
      BY <1>1, <2>2, <2>3, EndsFacts DEF RaisedInv, IInv, Types
    <3>2. ASSUME NEW s \in OpenTo(e) \cup theirs PROVE s <= maxStreamId[e] /\ s \in Nat
      BY <1>1, <2>1, IdsAssumption DEF RaisedInv, OwnIds
    <3> HIDE DEF n, theirs
    <3> QED BY <3>1, <3>2
  <2>5. Cardinality(OpenTo(e) \cup theirs) <= n
    <3> HIDE DEF n, theirs
    <3>1. p \in Ends
      BY EndsFacts
    <3> HIDE DEF p
    <3> QED BY <2>1, <2>4, <3>1, OwnIdsUpTo
  <2> HIDE DEF theirs
  <2> QED BY <2>2, <2>3, <2>5, EndsFacts
<1>2. Init => IInv /\ RaisedInv
  BY IdsInit, RaisedInit
<1>3. IInv /\ RaisedInv /\ [Next]_vars => (IInv /\ RaisedInv)'
  BY IdsStep, RaisedStep
<1> QED BY <1>1, <1>2, <1>3, PTL DEF Spec

-----------------------------------------------------------------------------
(* What the ends know of each other's limits.                               *)

\* Frames that tell an end the latest limit of its peer are still to come.
OnTheWay(e) ==
  LET limit == maxStreamId[Peer(e)]
  IN  \/ queuedFrames[Peer(e)].limit = limit
      \/ stage[Peer(e)] = "path" /\ request[Peer(e)].frames.limit = limit
      \/ stage[e] = "answered" /\ response[e].frames.limit = limit

Told(e) == remoteMaxStreamId[e] = maxStreamId[Peer(e)] \/ e \in uninformed \/ OnTheWay(e)

\* The inductive invariant: an end knows the limit, will be told, or is on record as one that
\* was missed; and a loop that does not wait has no packet under way.
KnownInv ==
  /\ stage \in [Ends -> {"none", "path", "handling", "answered"}]
  /\ loop \in [Ends -> {"idle", "tick", "waiting", "backoff"}]
  /\ \A e \in Ends : stage[e] # "none" => loop[e] = "waiting"
  /\ \A e \in Ends : Told(e)

\* A step that is not about packets or limits.
LEMMA KnownStays ==
  ASSUME KnownInv, UNCHANGED <<maxStreamId, remoteMaxStreamId, uninformed, request, response, stage>>,
         \A d \in Ends : queuedFrames'[d].limit = queuedFrames[d].limit,
         loop' \in [Ends -> {"idle", "tick", "waiting", "backoff"}],
         \A d \in Ends : loop[d] = "waiting" => loop'[d] = "waiting"
  PROVE  KnownInv'
<1>1. \A e \in Ends : Told(e)'
  BY EndsFacts DEF KnownInv, Told, OnTheWay
<1> QED BY <1>1 DEF KnownInv

\* startSendLoop leaves a loop that waits alone.
LEMMA StartLoopWaits ==
  ASSUME KnownInv, NEW e \in Ends, StartLoop(e) \/ UNCHANGED loopVars
  PROVE  /\ loop' \in [Ends -> {"idle", "tick", "waiting", "backoff"}]
         /\ \A d \in Ends : loop[d] = "waiting" => loop'[d] = "waiting"
BY DEF StartLoop, KnownInv, loopVars

LEMMA StreamStepKnown ==
  ASSUME IInv, KnownInv, NEW e \in Ends,
         createStream(e) \/ \E s \in Streams : EndStream(e, s) \/ removeStreamRecord(e, s)
  PROVE  KnownInv'
<1>1. UNCHANGED <<maxStreamId, remoteMaxStreamId, uninformed, request, response, stage>>
  BY DEF createStream, EndStream, removeStreamRecord, idVars, history, packetVars
<1>2. \A d \in Ends : queuedFrames'[d].limit = queuedFrames[d].limit
  <2>1. CASE UNCHANGED queuedFrames
    BY <2>1
  <2>2. ASSUME NEW s \in Streams, queuedFrames' = [queuedFrames EXCEPT ![e].closes = @ \cup {s}]
        PROVE  \A d \in Ends : queuedFrames'[d].limit = queuedFrames[d].limit
    <3>1. {s} \in SUBSET Streams
      OBVIOUS
    <3> QED BY <2>2, <3>1, MoreCloses DEF IInv
  <2> QED BY <2>1, <2>2 DEF createStream, EndStream, removeStreamRecord
<1>3. StartLoop(e) \/ UNCHANGED loopVars
  BY DEF createStream, EndStream, removeStreamRecord
<1> QED BY <1>1, <1>2, <1>3, StartLoopWaits, KnownStays

\* The queue goes into the packet.
LEMMA loadKnown ==
  ASSUME IInv, KnownInv, NEW e \in Ends, NEW carries, loadAndSendPacket(e, carries),
         loop[e] # "waiting"
  PROVE  KnownInv'
<1> DEFINE p == Peer(e)
           sent == [frames |-> queuedFrames[e], mentions |-> News(e), carries |-> carries]
<1>1. p \in Ends /\ p # e /\ Peer(p) = e /\ \A d \in Ends : d = e \/ d = p
  BY EndsFacts
<1>2. /\ UNCHANGED <<maxStreamId, remoteMaxStreamId, uninformed, response>>
      /\ queuedFrames' = [queuedFrames EXCEPT ![e] = NoFrames] /\ stage[e] = "none"
  BY DEF loadAndSendPacket, idVars, history, KnownInv
<1>3. CASE /\ queuedFrames[e] = NoFrames /\ UNCHANGED <<request, stage>>
           /\ loop' = [loop EXCEPT ![e] = "idle"]
  <2>1. queuedFrames' = queuedFrames
    BY <1>2, <1>3 DEF IInv, Types
  <2> QED BY <1>2, <1>3, <2>1, KnownStays DEF KnownInv
<1>4. CASE /\ loop' = [loop EXCEPT ![e] = "waiting"] /\ stage' = [stage EXCEPT ![e] = "path"]
           /\ request' = [request EXCEPT ![e] = sent]
  <2>1. /\ stage' \in [Ends -> {"none", "path", "handling", "answered"}]
        /\ loop' \in [Ends -> {"idle", "tick", "waiting", "backoff"}]
        /\ \A d \in Ends : stage'[d] # "none" => loop'[d] = "waiting"
        /\ stage'[e] = "path" /\ stage'[p] = stage[p]
    BY <1>1, <1>4 DEF KnownInv
  <2>2. request'[e].frames = queuedFrames[e] /\ request'[p] = request[p] /\ queuedFrames'[p] = queuedFrames[p]
    BY <1>1, <1>2, <1>4 DEF IInv, Types
  <2>3. Told(e)'
    BY <1>1, <1>2, <2>1, <2>2 DEF KnownInv, Told, OnTheWay
  <2>4. Told(p)'
    BY <1>1, <1>2, <2>1, <2>2 DEF KnownInv, Told, OnTheWay
  <2> QED BY <1>1, <2>1, <2>3, <2>4 DEF KnownInv
<1> QED BY <1>3, <1>4 DEF loadAndSendPacket

\* The receiver of a packet of e answers with its queue, or keeps it while the application
\* decides.
Replies(e, queue) ==
  \/ \E fulfilled \in BOOLEAN, closes \in SUBSET Streams : Answer(e, fulfilled, closes, queue)
  \/ /\ UNCHANGED <<request, response>> /\ stage' = [stage EXCEPT ![e] = "handling"]
     /\ queuedFrames' = [queuedFrames EXCEPT ![Peer(e)] = queue]

\* It has taken the limit of the packet, or is on record as missed, or there was no news.
Learns(e) ==
  \/ Peer(e) \in uninformed'
  \/ remoteMaxStreamId'[Peer(e)] = maxStreamId[e]
  \/ /\ ~(stage[e] = "path" /\ request[e].frames.limit = maxStreamId[e])
     /\ remoteMaxStreamId'[Peer(e)] = remoteMaxStreamId[Peer(e)]
     /\ Peer(e) \in uninformed => Peer(e) \in uninformed'

\* What an answer does to the rest of the state.
LEMMA RepliesFacts ==
  ASSUME IInv, KnownInv, NEW e \in Ends, NEW queue \in FrameSet, Replies(e, queue)
  PROVE  /\ stage' \in [Ends -> {"none", "path", "handling", "answered"}]
         /\ \A d \in Ends : d # e => /\ stage'[d] = stage[d]
                                      /\ request'[d] = request[d] /\ response'[d] = response[d]
         /\ queuedFrames'[e] = queuedFrames[e]
         /\ \/ stage'[e] = "answered" /\ response'[e].frames.limit = queue.limit
            \/ stage'[e] = "handling" /\ queuedFrames'[Peer(e)].limit = queue.limit
<1>1. ASSUME NEW fulfilled \in BOOLEAN, NEW closes \in SUBSET Streams,
             Answer(e, fulfilled, closes, queue)
      PROVE  /\ stage' = [stage EXCEPT ![e] = "answered"]
             /\ response'[e].frames.limit = queue.limit /\ queuedFrames'[e] = queuedFrames[e]
             /\ \A d \in Ends : d # e => request'[d] = request[d] /\ response'[d] = response[d]
  <2>1. Types
    BY DEF IInv
  <2>2. /\ response'[e].frames.limit = queue.limit
        /\ queuedFrames'[Peer(e)].limit = 0 /\ queuedFrames'[e] = queuedFrames[e]
        /\ \A d \in Ends : d # e => request'[d] = request[d] /\ response'[d] = response[d]
    BY <1>1, <2>1, AnswerFacts
  <2> QED BY <1>1, <2>2 DEF Answer
<1>2. CASE /\ UNCHANGED <<request, response>> /\ stage' = [stage EXCEPT ![e] = "handling"]
           /\ queuedFrames' = [queuedFrames EXCEPT ![Peer(e)] = queue]
  BY <1>2, EndsFacts DEF KnownInv, IInv, Types
<1>3. CASE \E fulfilled \in BOOLEAN, closes \in SUBSET Streams : Answer(e, fulfilled, closes, queue)
  BY <1>1, <1>3 DEF KnownInv
<1> QED BY <1>2, <1>3 DEF Replies

\* The receiver of a packet goes on, and announces a limit that it has raised.
LEMMA ReceiverKnown ==
  ASSUME IInv, KnownInv, NEW e \in Ends, NEW queue \in FrameSet,
         \/ queue.limit = maxStreamId'[Peer(e)]
         \/ maxStreamId'[Peer(e)] = maxStreamId[Peer(e)] /\ queue.limit = queuedFrames[Peer(e)].limit,
         maxStreamId'[e] = maxStreamId[e], remoteMaxStreamId'[e] = remoteMaxStreamId[e],
         maxStreamId'[Peer(e)] = maxStreamId[Peer(e)] => (e \in uninformed => e \in uninformed'),
         stage[e] \in {"path", "handling"}, Replies(e, queue), Learns(e),
         StartLoop(Peer(e)) \/ UNCHANGED loopVars
  PROVE  KnownInv'
<1> DEFINE p == Peer(e)
<1>1. p \in Ends /\ p # e /\ Peer(p) = e /\ \A d \in Ends : d = e \/ d = p
  BY EndsFacts
<1>2. /\ stage' \in [Ends -> {"none", "path", "handling", "answered"}]
      /\ stage'[p] = stage[p] /\ queuedFrames'[e] = queuedFrames[e]
      /\ request'[p] = request[p] /\ response'[p] = response[p]
      /\ \/ stage'[e] = "answered" /\ response'[e].frames.limit = queue.limit
         \/ stage'[e] = "handling" /\ queuedFrames'[p].limit = queue.limit
  BY <1>1, RepliesFacts
<1>3. /\ loop' \in [Ends -> {"idle", "tick", "waiting", "backoff"}]
      /\ \A d \in Ends : loop[d] = "waiting" => loop'[d] = "waiting"
  BY <1>1, StartLoopWaits
<1>4. \A d \in Ends : stage'[d] # "none" => loop'[d] = "waiting"
  BY <1>1, <1>2, <1>3 DEF KnownInv
<1>5. Told(p)'
  BY <1>1, <1>2 DEF KnownInv, Told, OnTheWay, Learns
<1>6. Told(e)'
  BY <1>1, <1>2 DEF KnownInv, Told, OnTheWay
<1> QED BY <1>1, <1>2, <1>3, <1>4, <1>5, <1>6 DEF KnownInv

LEMMA DecideKnown ==
  ASSUME IInv, KnownInv, NEW e \in Ends, Accept(e) \/ Decline(e)
  PROVE  KnownInv'
<1>1. /\ UNCHANGED <<maxStreamId, remoteMaxStreamId, uninformed, loopVars>> /\ stage[e] = "handling"
  BY DEF Accept, Decline, idVars, history
<1>2. Replies(e, queuedFrames[Peer(e)])
  <2>1. CASE Accept(e)
    <3>1. Closing(record[Peer(e)], told[Peer(e)]) \in SUBSET Streams
      BY DEF Closing
    <3> QED BY <2>1, <3>1 DEF Accept, Fulfill, Replies
  <2>2. CASE Decline(e)
    BY <2>2 DEF Decline, Replies
  <2> QED BY <2>1, <2>2
<1>3. queuedFrames[Peer(e)] \in FrameSet
  BY EndsFacts DEF IInv, Types
<1>4. Learns(e)
  BY <1>1 DEF Learns
<1> QED BY <1>1, <1>2, <1>3, <1>4, ReceiverKnown

LEMMA ArriveLateKnown ==
  ASSUME IInv, KnownInv, NEW e \in Ends, ArriveLate(e)
  PROVE  KnownInv'
<1> DEFINE p == Peer(e)
           v == WithNew(e)
           r == CHOOSE s \in Refused(e) : \A t \in Refused(e) : s <= t
<1>1. v.queue \in FrameSet /\ v.queue.limit \in {maxStreamId[p], queuedFrames[p].limit}
  BY NewStreams DEF Views
<1>2. {r} \in SUBSET Streams
  <2>1. Refused(e) \in SUBSET Streams /\ Refused(e) # {}
    BY DEF ArriveLate, Refused, IInv, Types
  <2> QED BY <2>1, SmallestStream
<1>3. /\ UNCHANGED <<maxStreamId, remoteMaxStreamId, loopVars>> /\ stage[e] = "path"
      /\ Answer(e, FALSE, {r}, v.queue) /\ uninformed' = Missed(e, request[e].frames, uninformed)
  BY DEF ArriveLate, Acceptable, idVars
<1> HIDE DEF v, r
<1>4. /\ uninformed \subseteq uninformed'
      /\ p \in uninformed' \/ ~(request[e].frames.limit = maxStreamId[e])
  BY <1>3 DEF Missed
<1>5. Replies(e, v.queue)
  BY <1>2, <1>3 DEF Replies
<1>6. Learns(e)
  BY <1>3, <1>4, EndsFacts DEF Learns
<1> DEFINE queue == v.queue
<1>7. /\ queue \in FrameSet /\ Replies(e, queue)
      /\ \/ queue.limit = maxStreamId'[Peer(e)]
         \/ maxStreamId'[Peer(e)] = maxStreamId[Peer(e)] /\ queue.limit = queuedFrames[Peer(e)].limit
      /\ maxStreamId'[e] = maxStreamId[e] /\ remoteMaxStreamId'[e] = remoteMaxStreamId[e]
      /\ e \in uninformed => e \in uninformed'
      /\ stage[e] \in {"path", "handling"} /\ UNCHANGED loopVars
  <2>1. /\ \/ v.queue.limit = maxStreamId'[p]
           \/ maxStreamId'[p] = maxStreamId[p] /\ v.queue.limit = queuedFrames[p].limit
        /\ maxStreamId'[e] = maxStreamId[e] /\ remoteMaxStreamId'[e] = remoteMaxStreamId[e]
    BY <1>1, <1>3
  <2>2. e \in uninformed => e \in uninformed'
    BY <1>4
  <2>3. stage[e] \in {"path", "handling"} /\ UNCHANGED loopVars
    BY <1>3
  <2>4. v.queue \in FrameSet /\ Replies(e, v.queue)
    BY <1>1, <1>5
  <2> QED BY <2>1, <2>2, <2>3, <2>4
<1> HIDE DEF queue
<1> QED BY <1>6, <1>7, ReceiverKnown

\* What Apply makes of who knows the latest limits.
LEMMA ApplyKnown ==
  ASSUME IInv, NEW e \in Ends, NEW v, NEW frames \in FrameSet,
         uninformed' = Uninformed(e, frames, v)
  PROVE  /\ v.max = maxStreamId[e] => (Peer(e) \in uninformed => Peer(e) \in uninformed')
         /\ \/ e \in uninformed'
            \/ frames.limit = maxStreamId[Peer(e)]
            \/ frames.limit = 0 /\ (e \in uninformed => e \in uninformed')
         /\ maxStreamId[Peer(e)] # 0
<1>1. Peer(e) \in Ends /\ Peer(e) # e
  BY EndsFacts
<1>2. maxStreamId[Peer(e)] # 0
  <2>1. Allows(Peer(e)) \in Nat \ {0}
    BY <1>1, IdsAssumption DEF Allows
  <2> QED BY <1>1, <2>1 DEF IInv, BudgetInv, Types
<1> QED BY <1>1, <1>2 DEF Uninformed

LEMMA ArriveKnown ==
  ASSUME IInv, KnownInv, NEW e \in Ends, Arrive(e)
  PROVE  KnownInv'
<1> DEFINE p == Peer(e)
           w == WithNew(e)
           f == request[e].frames
           v == handleControlFrames(w, f)
<1>1. /\ w \in Views /\ w.queue.limit <= w.max
      /\ w.queue.limit \in {maxStreamId[p], queuedFrames[p].limit}
      /\ w.max = maxStreamId[p] /\ w.remote = remoteMaxStreamId[p]
  BY NewStreams
<1>2. f \in FrameSet /\ p \in Ends /\ p # e /\ Peer(p) = e
  BY EndsFacts DEF IInv, Types
<1>3. IsView(v) /\ v.remote = IF f.limit = 0 THEN w.remote ELSE f.limit
  <2> HIDE DEF w, f
  <2> QED BY <1>1, <1>2, HandledView
<1>4. PICK C \in SUBSET Streams :
        /\ v.max = w.max + 2 * Cardinality(C)
        /\ v.queue.limit = IF C # {} THEN v.max ELSE w.queue.limit
  <2> HIDE DEF w, f
  <2> QED BY <1>1, <1>2, HandledCloses
<1>5. /\ maxStreamId' = [maxStreamId EXCEPT ![p] = v.max]
      /\ remoteMaxStreamId' = [remoteMaxStreamId EXCEPT ![p] = v.remote]
      /\ uninformed' = Uninformed(p, f, v) /\ stage[e] = "path"
      /\ StartLoop(p) \/ UNCHANGED loopVars
  BY DEF Arrive, Apply, Acceptable
<1>6. Replies(e, v.queue)
  <2> HIDE DEF v
  <2>1. CASE Fulfill(e, v.record, v.queue)
    <3>1. Closing(v.record, told[p]) \in SUBSET Streams
      BY DEF Closing
    <3> QED BY <2>1, <3>1 DEF Fulfill, Replies
  <2>2. CASE \E s \in request[e].carries : Answer(e, FALSE, {s}, v.queue)
    BY <2>2 DEF IInv, Types, Replies
  <2>3. CASE /\ UNCHANGED <<request, response>> /\ stage' = [stage EXCEPT ![e] = "handling"]
             /\ queuedFrames' = [queuedFrames EXCEPT ![p] = v.queue]
    BY <2>3 DEF Replies
  <2> USE DEF v
  <2> QED BY <2>1, <2>2, <2>3 DEF Arrive
<1> HIDE DEF w, v, f
<1>7. /\ maxStreamId'[p] = v.max /\ maxStreamId'[e] = maxStreamId[e]
      /\ remoteMaxStreamId'[p] = v.remote /\ remoteMaxStreamId'[e] = remoteMaxStreamId[e]
  BY <1>2, <1>5 DEF IInv, Types
<1>8. /\ v.max = maxStreamId[p] => (e \in uninformed => e \in uninformed')
      /\ \/ p \in uninformed'
         \/ f.limit = maxStreamId[e]
         \/ f.limit = 0 /\ (p \in uninformed => p \in uninformed')
      /\ maxStreamId[e] # 0
  BY <1>2, <1>5, ApplyKnown
<1>9. \/ v.queue.limit = maxStreamId'[p]
      \/ maxStreamId'[p] = maxStreamId[p] /\ v.queue.limit = queuedFrames[p].limit
  <2>1. CASE C # {}
    BY <1>4, <1>7, <2>1
  <2>2. CASE C = {}
    <3>1. Cardinality(C) = 0 /\ maxStreamId[p] \in Nat
      BY <1>2, <2>2, FS_EmptySet DEF IInv, Types
    <3>2. v.max = maxStreamId[p]
      BY <1>1, <1>4, <3>1
    <3> QED BY <1>1, <1>4, <1>7, <2>2, <3>2
  <2> QED BY <2>1, <2>2
<1>10. Learns(e)
  BY <1>1, <1>3, <1>7, <1>8 DEF f, Learns
<1>11. v.queue \in FrameSet
  BY <1>3 DEF IsView
<1> DEFINE queue == v.queue
<1>12. /\ queue \in FrameSet /\ Replies(e, queue)
       /\ \/ queue.limit = maxStreamId'[Peer(e)]
          \/ maxStreamId'[Peer(e)] = maxStreamId[Peer(e)] /\ queue.limit = queuedFrames[Peer(e)].limit
       /\ maxStreamId'[e] = maxStreamId[e] /\ remoteMaxStreamId'[e] = remoteMaxStreamId[e]
       /\ maxStreamId'[Peer(e)] = maxStreamId[Peer(e)] => (e \in uninformed => e \in uninformed')
       /\ stage[e] \in {"path", "handling"} /\ (StartLoop(Peer(e)) \/ UNCHANGED loopVars)
  <2>1. /\ \/ v.queue.limit = maxStreamId'[p]
           \/ maxStreamId'[p] = maxStreamId[p] /\ v.queue.limit = queuedFrames[p].limit
        /\ maxStreamId'[e] = maxStreamId[e] /\ remoteMaxStreamId'[e] = remoteMaxStreamId[e]
    BY <1>7, <1>9
  <2>2. maxStreamId'[p] = maxStreamId[p] => (e \in uninformed => e \in uninformed')
    BY <1>7, <1>8
  <2>3. stage[e] \in {"path", "handling"} /\ (StartLoop(p) \/ UNCHANGED loopVars)
    BY <1>5
  <2>4. v.queue \in FrameSet /\ Replies(e, v.queue)
    BY <1>6, <1>11
  <2> QED BY <2>1, <2>2, <2>3, <2>4
<1> HIDE DEF queue
<1> QED BY <1>10, <1>12, ReceiverKnown

\* The answer is taken, with the limit that it announces.
LEMMA AnsweredKnown ==
  ASSUME IInv, KnownInv, NEW e \in Ends, Answered(e)
  PROVE  KnownInv'
<1> DEFINE p == Peer(e)
           r == response[e]
           view == View(e, record[e])
           w == IF r.fulfilled THEN view ELSE [view EXCEPT !.queue = Undone(e, @)]
           v == handleControlFrames(w, r.frames)
<1>1. /\ p \in Ends /\ p # e /\ Peer(p) = e /\ \A d \in Ends : d = e \/ d = p
      /\ maxStreamId[e] \in Nat /\ remoteMaxStreamId[e] \in Nat
      /\ record[e] \in [Streams -> States]
      /\ queuedFrames[e] \in FrameSet /\ queuedFrames[e].limit <= maxStreamId[e]
      /\ r.frames \in FrameSet
  BY EndsFacts DEF IInv, Types, LimitsInv
<1>2. /\ view \in Views /\ view.record = record[e] /\ view.max = maxStreamId[e]
      /\ view.remote = remoteMaxStreamId[e] /\ view.queue = queuedFrames[e]
  BY <1>1 DEF View, Views
<1>3. Undone(e, queuedFrames[e]) \in FrameSet
      /\ Undone(e, queuedFrames[e]).limit = queuedFrames[e].limit
  BY <1>1 DEF Undone, FrameSet, IInv, Types
<1>4. /\ w \in Views /\ w.max = maxStreamId[e] /\ w.queue.limit = queuedFrames[e].limit
      /\ w.remote = remoteMaxStreamId[e] /\ w.queue.limit <= w.max
  <2> HIDE DEF view
  <2> QED BY <1>1, <1>2, <1>3 DEF Views
<1>5. IsView(v) /\ v.remote = IF r.frames.limit = 0 THEN w.remote ELSE r.frames.limit
  <2> HIDE DEF w, r
  <2> QED BY <1>1, <1>4, HandledView
<1>6. PICK C \in SUBSET Streams :
        /\ v.max = w.max + 2 * Cardinality(C)
        /\ \A s \in C : w.record[s] = "open"
        /\ \A s \in Streams : v.record[s] = IF s \in C THEN "ended" ELSE w.record[s]
        /\ v.queue.limit = IF C # {} THEN v.max ELSE w.queue.limit
  <2> HIDE DEF w, r
  <2> QED BY <1>1, <1>4, HandledCloses
<1>7. /\ maxStreamId' = [maxStreamId EXCEPT ![e] = v.max]
      /\ remoteMaxStreamId' = [remoteMaxStreamId EXCEPT ![e] = v.remote]
      /\ uninformed' = Uninformed(e, r.frames, v) /\ stage[e] = "answered"
      /\ queuedFrames' = [queuedFrames EXCEPT ![e] = v.queue]
      /\ stage' = [stage EXCEPT ![e] = "none"]
      /\ request' = [request EXCEPT ![e] = NoPacket] /\ response' = [response EXCEPT ![e] = NoResponse]
      /\ \E how \in {"tick", "idle"} : loop' = [loop EXCEPT ![e] = how]
  BY DEF Answered, Apply, Settled
<1> HIDE DEF v, w, view
<1>8. /\ v.max = maxStreamId[e] => (p \in uninformed => p \in uninformed')
      /\ \/ e \in uninformed'
         \/ r.frames.limit = maxStreamId[p]
         \/ r.frames.limit = 0 /\ (e \in uninformed => e \in uninformed')
      /\ maxStreamId[p] # 0
  <2> HIDE DEF r
  <2> QED BY <1>1, <1>7, ApplyKnown
<1>9. /\ maxStreamId'[e] = v.max /\ maxStreamId'[p] = maxStreamId[p]
      /\ remoteMaxStreamId'[e] = v.remote /\ remoteMaxStreamId'[p] = remoteMaxStreamId[p]
      /\ queuedFrames'[e] = v.queue /\ queuedFrames'[p] = queuedFrames[p]
      /\ request'[p] = request[p] /\ response'[p] = response[p]
      /\ stage'[e] = "none" /\ stage'[p] = stage[p]
  BY <1>1, <1>7 DEF IInv, Types, KnownInv
<1>10. /\ stage' \in [Ends -> {"none", "path", "handling", "answered"}]
       /\ loop' \in [Ends -> {"idle", "tick", "waiting", "backoff"}]
       /\ \A d \in Ends : stage'[d] # "none" => loop'[d] = "waiting"
  BY <1>1, <1>7 DEF KnownInv
<1>11. Told(e)'
  BY <1>1, <1>4, <1>5, <1>7, <1>8, <1>9 DEF KnownInv, Told, OnTheWay
<1>12. Told(p)'
  <2>1. CASE C # {}
    BY <1>1, <1>6, <1>9, <2>1 DEF Told, OnTheWay
  <2>2. CASE C = {}
    <3>1. Cardinality(C) = 0
      BY <2>2, FS_EmptySet
    <3>2. v.max = maxStreamId[e] /\ v.queue.limit = queuedFrames[e].limit
      BY <1>1, <1>4, <1>6, <2>2, <3>1
    <3> QED BY <1>1, <1>7, <1>8, <1>9, <3>2 DEF KnownInv, Told, OnTheWay
  <2> QED BY <2>1, <2>2
<1> QED BY <1>1, <1>10, <1>11, <1>12 DEF KnownInv

\* Frames that are lost are on record, if they had the latest limit.
LEMMA TemporaryErrorKnown ==
  ASSUME IInv, KnownInv, NEW e \in Ends, TemporaryError(e)
  PROVE  KnownInv'
<1> DEFINE p == Peer(e)
<1>1. p \in Ends /\ p # e /\ Peer(p) = e /\ \A d \in Ends : d = e \/ d = p
  BY EndsFacts
<1>2. /\ UNCHANGED <<maxStreamId, remoteMaxStreamId>>
      /\ queuedFrames' = [queuedFrames EXCEPT ![e].closes = @ \cup request[e].frames.closes]
      /\ request' = [request EXCEPT ![e] = NoPacket] /\ response' = [response EXCEPT ![e] = NoResponse]
      /\ stage' = [stage EXCEPT ![e] = "none"] /\ loop' = [loop EXCEPT ![e] = "backoff"]
  BY DEF TemporaryError, Settled, Undone, idVars, IInv, Types, FrameSet
<1>3. \A d \in Ends : queuedFrames'[d].limit = queuedFrames[d].limit
  <2>1. request[e].frames.closes \in SUBSET Streams
    BY DEF IInv, Types, FrameSet
  <2> QED BY <1>2, <2>1, MoreCloses DEF IInv
<1>4. /\ request'[p] = request[p] /\ response'[p] = response[p]
      /\ stage'[e] = "none" /\ stage'[p] = stage[p]
  BY <1>1, <1>2 DEF IInv, Types, KnownInv
<1>5. /\ uninformed \subseteq uninformed'
      /\ \/ stage[e] = "path" /\ (request[e].frames.limit = maxStreamId[e] => p \in uninformed')
         \/ stage[e] = "answered" /\ (response[e].frames.limit = maxStreamId[p] => e \in uninformed')
  BY <1>1 DEF TemporaryError, Missed
<1>6. /\ stage' \in [Ends -> {"none", "path", "handling", "answered"}]
      /\ loop' \in [Ends -> {"idle", "tick", "waiting", "backoff"}]
      /\ \A d \in Ends : stage'[d] # "none" => loop'[d] = "waiting"
  BY <1>1, <1>2 DEF KnownInv
<1>7. Told(e)' /\ Told(p)'
  BY <1>1, <1>2, <1>3, <1>4, <1>5 DEF KnownInv, Told, OnTheWay
<1> QED BY <1>1, <1>6, <1>7 DEF KnownInv

LEMMA KnownStep ==
  ASSUME IInv, KnownInv, [Next]_vars
  PROVE  KnownInv'
<1>1. CASE \E e \in Ends : createStream(e) \/ \E s \in Streams : EndStream(e, s) \/ removeStreamRecord(e, s)
  BY <1>1, StreamStepKnown
<1>2. CASE \E e \in Ends : \E carries : loop[e] # "waiting" /\ loadAndSendPacket(e, carries)
  BY <1>2, loadKnown
<1>3. CASE \E e \in Ends : ArriveLate(e) \/ Arrive(e) \/ Accept(e) \/ Decline(e) \/ Answered(e)
                           \/ TemporaryError(e)
  BY <1>3, ArriveLateKnown, ArriveKnown, DecideKnown, AnsweredKnown, TemporaryErrorKnown
<1>4. CASE UNCHANGED vars \/ \E e \in Ends : TooMany(e) \/ BackoffOver(e)
  <2>1. UNCHANGED <<maxStreamId, remoteMaxStreamId, uninformed, request, response, stage, queuedFrames>>
    BY <1>4 DEF TooMany, BackoffOver, idVars, history, packetVars, vars
  <2>2. /\ loop' \in [Ends -> {"idle", "tick", "waiting", "backoff"}]
        /\ \A d \in Ends : loop[d] = "waiting" => loop'[d] = "waiting"
    BY <1>4 DEF TooMany, BackoffOver, loopVars, vars, KnownInv
  <2> QED BY <2>1, <2>2, KnownStays
<1>5. ASSUME NEW e \in Ends, Use(e)
      PROVE  \E carries : loop[e] # "waiting" /\ loadAndSendPacket(e, carries)
  BY <1>5 DEF Use
<1> QED BY <1>1, <1>2, <1>3, <1>4, <1>5 DEF Next, Progress, Application

LEMMA KnownInit == Init => KnownInv
<1> SUFFICES ASSUME Init PROVE KnownInv
  OBVIOUS
<1>1. /\ maxStreamId["client"] = 2 * ClientAllows /\ maxStreamId["server"] = 2 * ServerAllows
      /\ remoteMaxStreamId["client"] = 2 * ServerAllows /\ remoteMaxStreamId["server"] = 2 * Default
  BY DEF Init, Ends, Allows
<1>2. Told("client")
  BY <1>1 DEF Told, Peer
<1>3. Told("server")
  BY <1>1 DEF Init, Told, Peer
<1> QED BY <1>2, <1>3 DEF Init, KnownInv, Ends

\* When nothing is under way each end knows the latest limit of its peer, unless that was lost
\* or overtaken: with any limits, number of streams and losses.
THEOREM LimitKnownHolds == Spec => []LimitKnown
<1>1. ASSUME IInv, KnownInv PROVE LimitKnown
  <2> SUFFICES ASSUME AtRest, NEW e \in Ends
               PROVE  remoteMaxStreamId[e] = maxStreamId[Peer(e)] \/ e \in uninformed
    BY DEF LimitKnown
  <2>1. /\ Peer(e) \in Ends /\ stage[e] = "none" /\ stage[Peer(e)] = "none"
        /\ queuedFrames[Peer(e)].limit = 0
    BY <1>1, EndsFacts, EmptyFacts DEF AtRest, KnownInv
  <2>2. maxStreamId[Peer(e)] # 0
    <3>1. Allows(Peer(e)) \in Nat \ {0}
      BY <2>1, IdsAssumption DEF Allows
    <3> QED BY <1>1, <2>1, <3>1 DEF IInv, BudgetInv, Types
  <2> QED BY <1>1, <2>1, <2>2 DEF KnownInv, Told, OnTheWay
<1>2. Init => IInv /\ KnownInv
  BY IdsInit, KnownInit
<1>3. IInv /\ KnownInv /\ [Next]_vars => (IInv /\ KnownInv)'
  BY IdsStep, KnownStep
<1> QED BY <1>1, <1>2, <1>3, PTL DEF Spec
=============================================================================
