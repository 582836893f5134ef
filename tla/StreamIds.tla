----------------------------- MODULE StreamIds -----------------------------
(***************************************************************************)
(* The streams of a connection as both ends know them: how streams are     *)
(* opened, ended and forgotten, and the limits on their ids, which each    *)
(* end raises and announces.  The connection is set up, so that the client *)
(* has been told the server's limit (connection.ts:759).                   *)
(*                                                                         *)
(* Each end has a send loop with one packet at a time, and answers the     *)
(* packets of the other; the two directions do not wait for each other.    *)
(* Frames wait in queuedFrames for the next packet or the next answer,     *)
(* whichever comes first.  Ids count as in the code: odd ones are the      *)
(* client's, even ones the server's.  ConnectionStreamIdBlocked frames,    *)
(* which are only logged, are left out, as is the end of a connection.     *)
(***************************************************************************)
EXTENDS Integers, FiniteSets

CONSTANTS
  Streams,        \* the ids that may be used
  Ending,         \* those that the applications end
  Default,        \* DEFAULT_MAX_REMOTE_STREAMS (10)
  ClientAllows,   \* maxRemoteStreams of the client, and of the server
  ServerAllows,
  MaxCarried,     \* bound on the packets with money or data
  MaxFaults       \* bound on packets and answers that are lost

ASSUME IdsAssumption ==
  /\ {Default, ClientAllows, ServerAllows} \subseteq Nat \ {0}
  /\ Streams \subseteq Nat \ {0} /\ IsFiniteSet(Streams) /\ Ending \subseteq Streams
  /\ {MaxCarried, MaxFaults} \subseteq Nat

Ends == {"client", "server"}
Peer(e) == IF e = "client" THEN "server" ELSE "client"
Allows(e) == IF e = "client" THEN ClientAllows ELSE ServerAllows
First(e) == IF e = "client" THEN 1 ELSE 2
OwnIds(e) == {s \in Streams : s % 2 = First(e) % 2}

VARIABLES
  record,       \* of each end's streams: "none", "open"; "closing": closed, with its record
                \* still there; "ended": closed by the peer; "removed": in closedStreams
  told,         \* streams with _remoteClosed set by an answer
  nextStreamId, maxStreamId, remoteMaxStreamId,
  queuedFrames, \* those about streams
  loop, sending,
  request,      \* the packet under way
  stage,        \* where it is: "none", "path", "handling", "answered"
  response,
  refused,      \* 0, or the stream for which the connection is closed
  carried, faults,
  unclosed,     \* history: streams whose StreamClose was lost with an answer, or came before
                \* the stream was known
  uninformed,   \* history: ends that the peer's latest limit has not reached
  assuming,     \* history: ends that no limit has reached
  hasty         \* history: streams that such an end has created

streamVars == <<record, told>>
idVars     == <<nextStreamId, maxStreamId, remoteMaxStreamId>>
loopVars   == <<loop, sending>>
packetVars == <<request, stage, response>>
boundVars  == <<carried, faults>>
history    == <<unclosed, uninformed, assuming, hasty>>
vars == <<streamVars, idVars, queuedFrames, loopVars, packetVars, refused, boundVars, history>>

\* The frames about streams in a queue, a packet or an answer: what they close, and the last
\* ConnectionMaxStreamId (0: none), which is the highest.
Frames(closes, limit) == [closes |-> closes, limit |-> limit]
NoFrames == Frames({}, 0)

NoPacket == [frames |-> NoFrames, mentions |-> {}, carries |-> {}]
NoResponse == [fulfilled |-> FALSE, frames |-> NoFrames]

Init ==
  /\ record = [e \in Ends |-> [s \in Streams |-> "none"]]
  /\ told = [e \in Ends |-> {}]
  /\ nextStreamId = [e \in Ends |-> First(e)]
  /\ maxStreamId = [e \in Ends |-> 2 * Allows(e)]
  /\ remoteMaxStreamId = [client |-> 2 * ServerAllows, server |-> 2 * Default]
  /\ queuedFrames = [e \in Ends |-> NoFrames]
  /\ loop = [e \in Ends |-> "idle"] /\ sending = [e \in Ends |-> FALSE]
  /\ request = [e \in Ends |-> NoPacket] /\ stage = [e \in Ends |-> "none"]
  /\ response = [e \in Ends |-> NoResponse]
  /\ refused = 0 /\ carried = 0 /\ faults = 0
  /\ unclosed = {} /\ assuming = {"server"} /\ hasty = {}
  /\ uninformed = IF ClientAllows = Default THEN {} ELSE {"server"}
-----------------------------------------------------------------------------
(* The application and the streams.                                         *)

\* startSendLoop.
StartLoop(e) ==
  /\ sending' = [sending EXCEPT ![e] = TRUE]
  /\ loop' = IF loop[e] = "idle" THEN [loop EXCEPT ![e] = "tick"] ELSE loop

\* Mutant: one stream more than the peer allows.
MayCreateOneMore(e) == nextStreamId[e] <= remoteMaxStreamId[e] + 2

MayCreate(e) == nextStreamId[e] <= remoteMaxStreamId[e]

\* The other side is not informed.
createStream(e) ==
  /\ refused = 0 /\ MayCreate(e) /\ nextStreamId[e] \in Streams
  /\ record' = [record EXCEPT ![e][nextStreamId[e]] = "open"]
  /\ nextStreamId' = [nextStreamId EXCEPT ![e] = @ + 2]
  /\ hasty' = IF e \in assuming THEN hasty \cup {nextStreamId[e]} ELSE hasty
  /\ UNCHANGED <<told, maxStreamId, remoteMaxStreamId, queuedFrames, loopVars, packetVars, refused,
                 boundVars, unclosed, uninformed, assuming>>

\* The application ends or destroys a stream, and _final or _destroy has closed it.
EndStream(e, s) ==
  /\ refused = 0 /\ s \in Ending /\ record[e][s] = "open"
  /\ record' = [record EXCEPT ![e][s] = "closing"]
  /\ UNCHANGED <<told, idVars, queuedFrames, loopVars, packetVars, refused, boundVars, history>>

\* 'close' is emitted a setImmediate later.
removeStreamRecord(e, s) ==
  /\ refused = 0 /\ record[e][s] \in {"closing", "ended"}
  /\ record' = [record EXCEPT ![e][s] = "removed"]
  /\ IF record[e][s] = "closing"
     THEN queuedFrames' = [queuedFrames EXCEPT ![e].closes = @ \cup {s}] /\ StartLoop(e)
     ELSE UNCHANGED <<queuedFrames, loopVars>>
  /\ told' = [told EXCEPT ![e] = @ \ {s}]
  /\ UNCHANGED <<idVars, packetVars, refused, boundVars, history>>
-----------------------------------------------------------------------------
(* Frames.                                                                  *)

\* What handleControlFrames works on: an end's streams, its limits and its queue, whether it
\* starts the send loop, and the closes that found no record.
View(e, streams) == [record |-> streams, max |-> maxStreamId[e], remote |-> remoteMaxStreamId[e],
                     queue |-> queuedFrames[e], wake |-> FALSE, ignored |-> {}]

\* handleStreamClose: the frames that are not ignored.
Closed(v, closes) == {s \in closes : v.record[s] = "open"}

\* Mutant: the limit is raised and not announced.
handleStreamClosesSilent(v, closes) ==
  [v EXCEPT !.record = [s \in Streams |-> IF s \in Closed(v, closes) THEN "ended" ELSE @[s]],
            !.max = @ + 2 * Cardinality(Closed(v, closes))]

\* The limit is raised by the close of any stream, whoever opened it, and announced.
handleStreamCloses(v, closes) ==
  LET raised == v.max + 2 * Cardinality(Closed(v, closes))
  IN  [v EXCEPT !.record = [s \in Streams |-> IF s \in Closed(v, closes) THEN "ended" ELSE @[s]],
                !.max = raised,
                !.queue.limit = IF Closed(v, closes) # {} THEN raised ELSE @,
                !.wake = Closed(v, closes) # {},
                !.ignored = {s \in closes : v.record[s] = "none"}]

\* The limit is taken as it comes.
LimitTaken(v, limit) == IF limit = 0 THEN v ELSE [v EXCEPT !.remote = limit]

handleControlFrames(view, frames) == handleStreamCloses(LimitTaken(view, frames.limit), frames.closes)

\* Which ends know the peer's latest limit, once e has applied frames.
Uninformed(e, frames, v) ==
  LET raised  == IF v.max # maxStreamId[e] THEN uninformed \ {Peer(e)} ELSE uninformed
  IN  IF frames.limit = 0 THEN raised
      ELSE IF frames.limit = maxStreamId[Peer(e)] THEN raised \ {e}
      ELSE raised \cup {e}

\* The end e goes on from v, having taken the frames of a packet or an answer.
Apply(e, v, frames) ==
  /\ record' = [record EXCEPT ![e] = v.record]
  /\ maxStreamId' = [maxStreamId EXCEPT ![e] = v.max]
  /\ remoteMaxStreamId' = [remoteMaxStreamId EXCEPT ![e] = v.remote]
  /\ unclosed' = unclosed \cup v.ignored
  /\ uninformed' = Uninformed(e, frames, v)
  /\ assuming' = IF frames.limit = 0 THEN assuming ELSE assuming \ {e}

\* The ends that do not know the peer's limit, when frames of p do not get through.
Missed(p, frames, ends) == IF frames.limit = maxStreamId[p] THEN ends \cup {Peer(p)} ELSE ends
-----------------------------------------------------------------------------
(* A packet of the end e and its answer by p, the peer.                     *)

\* Open streams have frames in every packet; those count that are news to the peer.
Mentioned(e) == {s \in Streams : record[e][s] = "open"}
News(e) == {s \in Mentioned(e) : record[Peer(e)][s] = "none"}

\* loadAndSendPacket: the queue, what every open stream can receive, money and data.
loadAndSendPacket(e, carries) ==
  /\ refused = 0
  /\ Cardinality(carries) <= MaxCarried - carried
  /\ \A s \in carries : record[e][s] \in {"open", "closing"}
  /\ carried' = carried + Cardinality(carries)
  /\ LET empty == queuedFrames[e] = NoFrames /\ Mentioned(e) = {} /\ carries = {}
     IN  IF empty
         THEN /\ loop' = [loop EXCEPT ![e] = "idle"] /\ UNCHANGED <<request, stage>>
         ELSE /\ loop' = [loop EXCEPT ![e] = "waiting"] /\ stage' = [stage EXCEPT ![e] = "path"]
              /\ request' = [request EXCEPT ![e] = [frames |-> queuedFrames[e],
                               mentions |-> News(e), carries |-> carries]]
  /\ sending' = [sending EXCEPT ![e] = carries # {} \/ queuedFrames[e].closes # {}]
  /\ queuedFrames' = [queuedFrames EXCEPT ![e] = NoFrames]
  /\ UNCHANGED <<streamVars, idVars, response, refused, faults, history>>

\* handleNewStream for every frame of a stream, in their order, up to one with money or data
\* of a stream that was removed.
Refused(e) == {s \in request[e].carries : record[Peer(e)][s] = "removed"}
Opened(e) ==
  {s \in request[e].mentions \cup request[e].carries :
     /\ record[Peer(e)][s] = "none"
     /\ s \in request[e].mentions \/ \A r \in Refused(e) : s < r}

\* Three quarters of the limit are used.
Nearly(p, s) == 3 * maxStreamId[p] < 4 * s

WithNew(e) ==
  LET p == Peer(e)
  IN  [View(p, [s \in Streams |-> IF s \in Opened(e) THEN "open" ELSE record[p][s]])
         EXCEPT !.queue.limit = IF \E s \in Opened(e) : Nearly(p, s) THEN maxStreamId[p] ELSE @]

\* An answer takes the queue along.  Of the packet only what may have to be undone counts now.
Answer(e, fulfilled, closes, queue) ==
  /\ request' = [request EXCEPT ![e] = [NoPacket EXCEPT !.frames.closes = request[e].frames.closes]]
  /\ response' = [response EXCEPT ![e] = [fulfilled |-> fulfilled,
                                          frames |-> [queue EXCEPT !.closes = @ \cup closes]]]
  /\ stage' = [stage EXCEPT ![e] = "answered"]
  /\ queuedFrames' = [queuedFrames EXCEPT ![Peer(e)] = NoFrames]

TooMany(e) ==
  /\ refused = 0 /\ stage[e] = "path"
  /\ refused' \in {s \in Opened(e) : s > maxStreamId[Peer(e)]}
  /\ UNCHANGED <<streamVars, idVars, queuedFrames, loopVars, packetVars, boundVars, history>>

\* Mutant: any stream is taken.
AcceptableAny(e) == refused = 0 /\ stage[e] = "path"

Acceptable(e) == refused = 0 /\ stage[e] = "path" /\ \A s \in Opened(e) : s <= maxStreamId[Peer(e)]

\* Money or data for a stream that was removed: nothing but new streams is taken.
ArriveLate(e) ==
  LET p == Peer(e)
      v == WithNew(e)
      r == CHOOSE s \in Refused(e) : \A t \in Refused(e) : s <= t
  IN  /\ Acceptable(e) /\ Refused(e) # {}
      /\ record' = [record EXCEPT ![p] = v.record]
      /\ uninformed' = Missed(e, request[e].frames, uninformed)
      /\ Answer(e, FALSE, {r}, v.queue)
      /\ UNCHANGED <<told, idVars, loopVars, refused, boundVars, unclosed, assuming, hasty>>

Closing(streams, known) == {s \in Streams : streams[s] = "closing"} \ known

\* Fulfilled, with the closes that the peer has not been told of.
Fulfill(e, streams, queue) ==
  LET p == Peer(e)
      S == Closing(streams, told[p])
  IN  /\ Answer(e, TRUE, S, queue)
      /\ told' = [told EXCEPT ![p] = @ \cup S]

\* Otherwise the frames are applied.  Then money for a stream that is closed is refused, and
\* the application is asked to accept other money (shouldFulfill).
Arrive(e) ==
  LET p == Peer(e)
      v == handleControlFrames(WithNew(e), request[e].frames)
  IN  /\ Acceptable(e) /\ Refused(e) = {}
      /\ Apply(p, v, request[e].frames)
      /\ IF v.wake THEN StartLoop(p) ELSE UNCHANGED loopVars
      /\ \/ Fulfill(e, v.record, v.queue)
         \/ /\ request[e].carries # {} /\ stage' = [stage EXCEPT ![e] = "handling"]
            /\ queuedFrames' = [queuedFrames EXCEPT ![p] = v.queue]
            /\ UNCHANGED <<told, request, response>>
         \/ \E s \in request[e].carries :
              v.record[s] # "open" /\ Answer(e, FALSE, {s}, v.queue) /\ UNCHANGED told
      /\ UNCHANGED <<nextStreamId, refused, boundVars, hasty>>

Accept(e) ==
  /\ refused = 0 /\ stage[e] = "handling"
  /\ Fulfill(e, record[Peer(e)], queuedFrames[Peer(e)])
  /\ UNCHANGED <<record, idVars, loopVars, refused, boundVars, history>>

Decline(e) ==
  /\ refused = 0 /\ stage[e] = "handling"
  /\ Answer(e, FALSE, {}, queuedFrames[Peer(e)])
  /\ UNCHANGED <<streamVars, idVars, loopVars, refused, boundVars, history>>

\* Mutant: a StreamClose is sent once.
UndoneNot(e, queue) == queue

\* undoRejectedPacket: of the frames about streams only StreamClose is sent again.
Undone(e, queue) == [queue EXCEPT !.closes = @ \cup request[e].frames.closes]

Settled(e) ==
  /\ stage' = [stage EXCEPT ![e] = "none"]
  /\ request' = [request EXCEPT ![e] = NoPacket]
  /\ response' = [response EXCEPT ![e] = NoResponse]

Answered(e) ==
  LET r == response[e]
      view == View(e, record[e])
      v == handleControlFrames(IF r.fulfilled THEN view ELSE [view EXCEPT !.queue = Undone(e, @)],
                               r.frames)
  IN  /\ refused = 0 /\ stage[e] = "answered"
      /\ Apply(e, v, r.frames)
      /\ queuedFrames' = [queuedFrames EXCEPT ![e] = v.queue]
      /\ sending' = [sending EXCEPT ![e] = @ \/ v.wake]
      /\ loop' = [loop EXCEPT ![e] = IF sending'[e] THEN "tick" ELSE "idle"]
      /\ Settled(e)
      /\ UNCHANGED <<told, nextStreamId, refused, boundVars, hasty>>

\* A connector gives a temporary error for the packet, before or after it has arrived.
TemporaryError(e) ==
  /\ refused = 0 /\ faults < MaxFaults /\ faults' = faults + 1
  /\ \/ stage[e] = "path" /\ uninformed' = Missed(e, request[e].frames, uninformed) /\ UNCHANGED unclosed
     \/ /\ stage[e] = "answered" /\ uninformed' = Missed(Peer(e), response[e].frames, uninformed)
        /\ unclosed' = unclosed \cup response[e].frames.closes
  /\ queuedFrames' = [queuedFrames EXCEPT ![e] = Undone(e, @)]
  /\ loop' = [loop EXCEPT ![e] = "backoff"]
  /\ Settled(e)
  /\ UNCHANGED <<streamVars, idVars, sending, refused, carried, assuming, hasty>>

BackoffOver(e) ==
  /\ refused = 0 /\ loop[e] = "backoff"
  /\ loop' = [loop EXCEPT ![e] = IF sending[e] THEN "tick" ELSE "idle"]
  /\ UNCHANGED <<streamVars, idVars, queuedFrames, sending, packetVars, refused, boundVars, history>>
-----------------------------------------------------------------------------
\* The application has money or data sent, or limits (setReceiveMax): the loop is started.
Use(e) ==
  /\ loop[e] = "idle"
  /\ \/ \E s \in Mentioned(e) : loadAndSendPacket(e, {s})
     \/ News(e) # {} /\ loadAndSendPacket(e, {})

Progress ==
  \E e \in Ends :
    \/ loop[e] = "tick" /\ \E carries \in {{}} \cup {{s} : s \in Streams} : loadAndSendPacket(e, carries)
    \/ TooMany(e) \/ ArriveLate(e) \/ Arrive(e) \/ Accept(e) \/ Decline(e)
    \/ Answered(e) \/ BackoffOver(e)
    \/ \E s \in Streams : removeStreamRecord(e, s)

Application == \E e \in Ends : createStream(e) \/ Use(e) \/ \E s \in Streams : EndStream(e, s)

Next == Progress \/ Application \/ \E e \in Ends : TemporaryError(e)

Spec == Init /\ [][Next]_vars

\* Packets are answered and the ends go on.  The bounds leave no way to do so for ever.
FairSpec == Spec /\ WF_vars(Progress)
-----------------------------------------------------------------------------
(* Properties.                                                              *)

OpenTo(e) == {s \in OwnIds(Peer(e)) : record[e][s] = "open"}
OwnClosed(e) == {s \in OwnIds(e) : record[e][s] \in {"ended", "removed"}}

\* The connection is closed for a stream too many only when the peer allows fewer than the
\* default and the stream was created before any limit was known: whatever limits are lost,
\* late or out of order.
NeverTooMany == refused # 0 => refused \in hasty /\ \E e \in Ends : Allows(e) < Default

\* An end has no more of the peer's streams open at once than it allows, but for one more
\* for each of its own that is closed: their limit is raised by the close of any stream
\* (connection.ts:967).
OpenBounded == \A e \in Ends : Cardinality(OpenTo(e)) <= Allows(e) + Cardinality(OwnClosed(e))

AtRest ==
  \A e \in Ends :
    /\ loop[e] = "idle" /\ queuedFrames[e] = NoFrames
    /\ \A s \in Streams : record[e][s] \notin {"closing", "ended"}

\* When nothing is under way each end knows the peer's limit, unless the latest was lost or
\* overtaken by an earlier one.
LimitKnown ==
  AtRest /\ refused = 0 =>
    \A e \in Ends : remoteMaxStreamId[e] = maxStreamId[Peer(e)] \/ e \in uninformed

\* A stream that one end has removed is at last closed at the other, unless the frame that
\* says so was lost with an answer or came before the stream was known.
Zombie(e, s) == record[e][s] = "removed" /\ record[Peer(e)][s] = "open"
ClosedAtLast ==
  <>[](refused # 0 \/ \A e \in Ends, s \in Streams : Zombie(e, s) => s \in unclosed)
=============================================================================
