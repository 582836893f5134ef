------------------------ MODULE ConnectionLifecycle ------------------------
(***************************************************************************)
(* How one end of a connection is set up and taken down: connect(), end()  *)
(* and destroy(), the ConnectionClose frames that come and go, the send    *)
(* loop that end() waits for, and the idle timer.                          *)
(*                                                                         *)
(* end() and destroy() are asynchronous and nothing keeps two runs of them *)
(* apart: the application's, those that frames of the peer start, the      *)
(* destroy() of a loop that failed and that of the idle timer all go on    *)
(* side by side, and the loop goes on sending meanwhile.  The connection   *)
(* is a record, and what a method does at once is an operator on it.       *)
(*                                                                         *)
(* The peer is the environment: it answers packets, ends streams, closes   *)
(* the connection with frames of either kind and is gone after.  Which ids *)
(* streams have and what they carry is left to StreamIds, DataTransfer and *)
(* MoneySender: here a stream is open or not and may have money to send.   *)
(* The streams that packets open have the ids they should.                 *)
(***************************************************************************)
EXTENDS Integers, FiniteSets

CONSTANTS
  Streams,     \* that may be opened
  MaxCalls,    \* bound on the application's calls of end() and destroy()
  MaxFrames,   \* bound on the ConnectionClose frames of the peer
  MaxFaults    \* bound on packets that are lost and failures of the path

ASSUME LifecycleAssumption ==
  IsFiniteSet(Streams) /\ {MaxCalls, MaxFrames, MaxFaults} \subseteq Nat

VARIABLES
  isServer,
  conn,
  peerGone,   \* the peer has closed: a client cannot be reached then, a server answers by a
              \* new connection
  heard,      \* history: what became of the ConnectionClose frames sent: the peer got "NoError" or
              \* "error", one was "lost", or there was no "address" to send it to
  late,       \* history: streams opened while the connection was closing, or closed
  calls, frames, faults

boundVars == <<calls, frames, faults>>
lifeVars == <<isServer, conn, peerGone, heard, late, boundVars>>

NoPacket == [pays |-> {}, closes |-> FALSE, close |-> FALSE]

\* connecting: "no", "waiting", "yes", "failed": connect() of the client.
\* knows: _destinationAccount is set.  connected: the exchange rate is known.
\* loop: "idle", "probing", "next" (about to load a packet), "waiting" (for its answer).
\* streams: "none", "open", "ending" (end() was called), "closing" (closed, the events to
\* come), "gone".  owing: those with sendMax above totalSent.
\* queued: StreamClose frames wait in queuedFrames.  wake: a startSendLoop is due.
\* runs: of end() and destroy(), with where they are.
Fresh(server) ==
  [ connecting |-> IF server THEN "no" ELSE "waiting",
    knows      |-> ~server,
    closed |-> TRUE, remoteState |-> "Init", done |-> FALSE,
    connected |-> FALSE,
    sending |-> ~server,
    loop    |-> IF server THEN "idle" ELSE "probing",
    request |-> NoPacket,
    streams |-> [s \in Streams |-> "none"], owing |-> {}, endedByPeer |-> {},
    queued  |-> FALSE, wake |-> FALSE,
    runs    |-> {},
    idle    |-> "none",    \* the idle timer, until it is "armed", and "off" when cleared
    errors  |-> 0, ends |-> 0, closes |-> 0 ]    \* events emitted, counted up to 2

LifeInit ==
  /\ isServer \in BOOLEAN
  /\ conn = Fresh(isServer)
  /\ peerGone = FALSE /\ heard = {} /\ late = {}
  /\ calls = 0 /\ frames = 0 /\ faults = 0
-----------------------------------------------------------------------------
(* What the methods do at once, on the record c of an end.                  *)

Count(n) == IF n = 2 THEN 2 ELSE n + 1

\* A run of end() or destroy(): at "loop" waiting for the loop, at "streams" for streams to
\* close, "telling" the peer, "told", or "rejected".
Run(c, method, by, at, waits) ==
  LET ids == {r.id : r \in c.runs}
  IN [id |-> CHOOSE n \in 1..Cardinality(ids) + 1 : n \notin ids,
      method |-> method, by |-> by, at |-> at, waits |-> waits]

Move(c, r, at) == [c EXCEPT !.runs = (@ \ {r}) \cup {[r EXCEPT !.at = at]}]

MoveAll(c, from, to) ==
  [c EXCEPT !.runs = {IF r.at = from THEN [r EXCEPT !.at = to] ELSE r : r \in @}]

\* '_send_loop_finished' is emitted on the connection.
LoopFinished(c) == MoveAll(c, "loop", "streams")

\* Mutant: a loop that cannot start does not say that it has finished.
startSendLoopMute(c) ==
  IF c.loop # "idle" \/ c.remoteState = "Closed" \/ ~c.knows THEN [c EXCEPT !.sending = TRUE]
  ELSE [c EXCEPT !.sending = TRUE, !.loop = IF c.connected THEN "next" ELSE "probing"]

\* A loop that runs is told to go on; one that has no one to send to is over at once.
startSendLoop(c) ==
  CASE c.loop # "idle" -> [c EXCEPT !.sending = TRUE]
    [] c.loop = "idle" /\ (c.remoteState = "Closed" \/ ~c.knows) -> LoopFinished(c)
    [] OTHER -> [c EXCEPT !.sending = TRUE,
                          !.loop = IF c.connected THEN "next" ELSE "probing"]

OpenStreams(c) == {s \in Streams : c.streams[s] \in {"open", "ending"}}
Records(c)     == {s \in Streams : c.streams[s] \notin {"none", "gone"}}

\* _final does not wait when the peer has ended the stream or there is no money left to send.
Ending(c, s) == IF s \in c.owing \ c.endedByPeer THEN "ending" ELSE "closing"

end(c, by) ==
  LET waits == OpenStreams(c)
  IN startSendLoop(
       [c EXCEPT !.streams = [s \in Streams |-> IF s \in waits THEN Ending(c, s) ELSE @[s]],
                 !.runs = @ \cup {Run(c, "end", by, "loop", waits)}])

\* 'error' is emitted: every end() that still waits for the loop rejects, and connect() too,
\* which stops the timers.  The end() that a frame started calls destroy() then.
EmitError(c) ==
  [c EXCEPT !.errors = Count(@),
            !.runs = {IF r.at = "loop" THEN [r EXCEPT !.at = "rejected"] ELSE r :
                        r \in {q \in @ : ~(q.at = "loop" /\ q.by = "app")}},
            !.connecting = IF @ = "waiting" THEN "failed" ELSE @,
            !.done = @ \/ c.connecting = "waiting"]

\* Mutant: the peer is not told.
KillSilently(c) ==
  [c EXCEPT !.streams = [s \in Streams |-> IF s \in Records(c) THEN "closing" ELSE @[s]],
            !.runs = @ \cup {Run(c, "destroy", "any", "streams", Records(c))}]

\* destroy() closes every stream and tells the peer, before it waits for them.
Kill(c) ==
  [c EXCEPT !.streams = [s \in Streams |-> IF s \in Records(c) THEN "closing" ELSE @[s]],
            !.runs = @ \cup {Run(c, "destroy", "any",
                                 IF c.remoteState = "Closed" THEN "streams" ELSE "telling",
                                 Records(c))}]

\* Mutant: done is not looked at.
destroyAgain(c, error) == Kill(IF error THEN EmitError(c) ELSE c)

destroy(c, error) ==
  IF c.done THEN c ELSE Kill(IF error THEN EmitError(c) ELSE c)

\* 'close' is emitted, for end() after 'end', and the timers are stopped, which sets done.
Close(c, r) ==
  [c EXCEPT !.runs = @ \ {r},
            !.ends = IF r.method = "end" THEN Count(@) ELSE @,
            !.closes = Count(@),
            !.connecting = IF @ = "waiting" THEN "failed" ELSE @,
            !.idle = IF @ = "armed" THEN "off" ELSE @,
            !.done = TRUE]

\* 'connect' is emitted.
Connect(c) ==
  [c EXCEPT !.idle = IF @ = "none" THEN "armed" ELSE @,
            !.closed = @ /\ c.connecting # "waiting",
            !.connecting = IF @ = "waiting" THEN "yes" ELSE @]

\* The peer's account is known, for the first time.
Introduced(c) == IF c.knows THEN c ELSE Connect([c EXCEPT !.knows = TRUE, !.closed = FALSE])

\* A ConnectionClose frame comes, with an error or without.
Closing(c, error) ==
  LET d == [c EXCEPT !.sending = FALSE, !.closed = TRUE, !.remoteState = "Closed"]
  IN IF error THEN destroy(d, TRUE) ELSE end(d, "peer")

\* The loop goes round again or finishes, which the streams are told as well.
Around(c) ==
  IF c.sending
  THEN [c EXCEPT !.request = NoPacket, !.loop = IF c.connected THEN "next" ELSE "probing"]
  ELSE LoopFinished(
         [c EXCEPT !.request = NoPacket, !.loop = "idle",
                   !.streams = [s \in Streams |-> IF @[s] = "ending" THEN "closing" ELSE @[s]]])

\* Mutant: the error of the loop is lost.
LoopStops(c) == [c EXCEPT !.request = NoPacket, !.loop = "idle"]

\* The loop is left by an error.
LoopFails(c) == destroy([c EXCEPT !.request = NoPacket, !.loop = "idle"], TRUE)
-----------------------------------------------------------------------------
(* The application.                                                         *)

\* It has the connection: createConnection has returned, or the server's pool has emitted it.
Held  == conn.connecting \notin {"waiting", "failed"}
Ended == conn.closes > 0

CallEnd ==
  /\ Held /\ calls < MaxCalls
  /\ conn' = end(conn, "app")
  /\ calls' = calls + 1
  /\ UNCHANGED <<isServer, peerGone, heard, late, frames, faults>>

CallDestroy ==
  /\ Held /\ calls < MaxCalls
  /\ \E error \in BOOLEAN : conn' = destroy(conn, error)
  /\ calls' = calls + 1
  /\ UNCHANGED <<isServer, peerGone, heard, late, frames, faults>>

\* A stream is opened, by the application or by a packet; it may have money to send.  Nothing
\* looks at whether the connection is closing, or closed.
OpenStream(s) ==
  /\ Held /\ conn.streams[s] = "none"
  /\ \E owes \in SUBSET {s} :
       conn' = startSendLoop([conn EXCEPT !.streams[s] = "open", !.owing = @ \cup owes])
  /\ late' = IF conn.runs = {} /\ ~Ended THEN late ELSE late \cup {s}
  /\ UNCHANGED <<isServer, peerGone, heard, boundVars>>

Application == CallEnd \/ CallDestroy \/ \E s \in Streams : OpenStream(s)
-----------------------------------------------------------------------------
(* The peer.                                                                *)

\* It ends a stream.
StreamEndedByPeer(s) ==
  /\ ~peerGone /\ s \in OpenStreams(conn) \ conn.endedByPeer
  /\ conn' = startSendLoop([conn EXCEPT !.streams[s] = "closing",
                                        !.endedByPeer = @ \cup {s}])
  /\ UNCHANGED <<isServer, peerGone, heard, late, boundVars>>

\* It introduces itself.  The packet for which the server's pool made the connection has the
\* account of a client that is new; one that has told it already, to an earlier connection of
\* the same token, does not tell it again.
Introduce ==
  /\ ~conn.knows
  /\ conn' = Introduced(conn)
  /\ UNCHANGED <<isServer, peerGone, heard, late, boundVars>>

\* It closes the connection.  Runs of its own that race send the frame more than once.
PeerCloses ==
  /\ conn.knows /\ ~peerGone /\ frames < MaxFrames
  /\ \E error \in BOOLEAN : conn' = Closing(conn, error)
  /\ frames' = frames + 1
  /\ UNCHANGED <<isServer, peerGone, heard, late, calls, faults>>

PeerLeaves ==
  /\ ~peerGone /\ (frames > 0 \/ heard \cap {"NoError", "error"} # {})
  /\ peerGone' = TRUE
  /\ UNCHANGED <<isServer, conn, heard, late, boundVars>>

Environment ==
  PeerCloses \/ PeerLeaves \/ Introduce \/ \E s \in Streams : StreamEndedByPeer(s)
-----------------------------------------------------------------------------
(* Streams close, and runs of end() and destroy() go on.                    *)

\* 'end' and 'close' are emitted and the record is removed; the peer is to be told.
removeStreamRecord(s) ==
  /\ conn.streams[s] = "closing"
  /\ LET c == [conn EXCEPT !.streams[s] = "gone", !.owing = @ \ {s}, !.endedByPeer = @ \ {s}]
     IN conn' = IF s \in conn.endedByPeer THEN c ELSE [c EXCEPT !.queued = TRUE, !.wake = TRUE]
  /\ UNCHANGED <<isServer, peerGone, heard, late, boundVars>>

\* The startSendLoop that removeStreamRecord has put off.
Wake ==
  /\ conn.wake
  /\ conn' = startSendLoop([conn EXCEPT !.wake = FALSE])
  /\ UNCHANGED <<isServer, peerGone, heard, late, boundVars>>

\* A packet is lost, or the path fails.
Failure == faults < MaxFaults /\ faults' = faults + 1

\* Mutant: the streams are not waited for.
NotWaiting(r) == FALSE

\* A run of end() or destroy() waits for the streams it found.
Waiting(r) == \E s \in r.waits : conn.streams[s] # "gone"

\* The streams of an end() have ended: the peer is told, unless it has closed itself.
StreamsEnded(r) ==
  /\ r.method = "end" /\ r.at = "streams" /\ ~Waiting(r)
  /\ LET c == [conn EXCEPT !.closed = TRUE]
     IN conn' = IF c.remoteState = "Closed" THEN Close(c, r) ELSE Move(c, r, "telling")
  /\ UNCHANGED <<isServer, peerGone, heard, late, boundVars>>

StreamsDestroyed(r) ==
  /\ r.method = "destroy" /\ r.at = "streams" /\ ~Waiting(r)
  /\ conn' = Close(conn, r)
  /\ UNCHANGED <<isServer, peerGone, heard, late, boundVars>>

\* The ConnectionClose packet of a run reaches the peer.
Told(r) ==
  /\ r.at = "telling" /\ conn.knows
  /\ conn' = Move(conn, r, "told")
  /\ heard' = heard \cup {IF r.method = "end" THEN "NoError" ELSE "error"}
  /\ UNCHANGED <<isServer, peerGone, late, boundVars>>

\* It is lost, or rejected, which is not looked at; or there is no address to send it to.
NotTold(r) ==
  /\ r.at = "telling"
  /\ \/ ~conn.knows /\ heard' = heard \cup {"address"} /\ UNCHANGED faults
     \/ conn.knows /\ heard' = heard \cup {"lost"} /\ Failure
  /\ conn' = Move(conn, r, "told")
  /\ UNCHANGED <<isServer, peerGone, late, calls, frames>>

\* Its answer is in.
HasTold(r) ==
  /\ r.at = "told"
  /\ LET c == [conn EXCEPT !.remoteState = "Closed"]
     IN conn' = IF r.method = "end" THEN Close(c, r) ELSE Move(c, r, "streams")
  /\ UNCHANGED <<isServer, peerGone, heard, late, boundVars>>

\* The end() that a frame of the peer started has been rejected.
Rejected(r) ==
  /\ r.at = "rejected"
  /\ conn' = destroy([conn EXCEPT !.runs = @ \ {r}], FALSE)
  /\ UNCHANGED <<isServer, peerGone, heard, late, boundVars>>

\* What follows at once, before any event of the loop, the path or the application.
AtOnce == \E r \in conn.runs : StreamsEnded(r) \/ StreamsDestroyed(r) \/ Rejected(r)
Settled == \A r \in conn.runs : r.at # "rejected" /\ (r.at = "streams" => Waiting(r))

RunSteps == \E r \in conn.runs : Told(r) \/ (~conn.knows /\ NotTold(r)) \/ HasTold(r)
-----------------------------------------------------------------------------
(* The send loop.                                                           *)

setupExchangeRate ==
  /\ conn.loop = "probing" /\ ~peerGone
  /\ conn' = Around(Connect([conn EXCEPT !.connected = TRUE]))
  /\ UNCHANGED <<isServer, peerGone, heard, late, boundVars>>

\* A server has no way to a client that has gone.
PeerUnreachable == isServer /\ peerGone

\* No rate is found.
ProbeFails ==
  /\ conn.loop = "probing"
  /\ \/ peerGone /\ UNCHANGED faults
     \/ Failure
  /\ conn' = LoopFails(conn)
  /\ UNCHANGED <<isServer, peerGone, heard, late, calls, frames>>

Payable(c) == {s \in c.owing : c.streams[s] \in {"open", "ending"}}
AddsClose(c) == c.closed /\ c.remoteState = "Connected"

\* A packet takes the StreamClose frames, a ConnectionClose frame if the connection is closed,
\* and as much of the money as the peer accepts.  The loop rests when there are only limits
\* to send, or nothing.
loadAndSendPacket ==
  /\ conn.loop = "next"
  /\ \E pays \in SUBSET Payable(conn) :
       LET rests  == pays = {} /\ ~conn.queued
           loaded == [conn EXCEPT !.sending = @ /\ ~rests]
       IN conn' = IF rests /\ ~AddsClose(conn) /\ OpenStreams(conn) = {}
                  THEN Around(loaded)
                  ELSE [loaded EXCEPT
                          !.request = [pays |-> pays, closes |-> conn.queued,
                                       close |-> AddsClose(conn)],
                          !.queued = FALSE, !.loop = "waiting",
                          !.remoteState = IF AddsClose(conn) THEN "Closed" ELSE @]
  /\ UNCHANGED <<isServer, peerGone, heard, late, boundVars>>

\* The ConnectionClose frame of the packet under way, if it has one, has come to this.
Tells(what) == heard' = IF conn.request.close THEN heard \cup {what} ELSE heard

\* The packet is answered by the peer.
Answer ==
  /\ conn.loop = "waiting" /\ ~PeerUnreachable
  /\ LET paid == conn.request.pays
     IN conn' = Around([conn EXCEPT !.remoteState = IF @ = "Init" THEN "Connected" ELSE @,
                                    !.owing = @ \ paid,
                                    !.streams = [s \in Streams |->
                                      IF s \in paid /\ @[s] = "ending" THEN "closing" ELSE @[s]]])
  /\ Tells("NoError")
  /\ UNCHANGED <<isServer, peerGone, late, boundVars>>

\* Of a packet that is rejected, the money and the StreamClose frames come back.
Returned(c) == [c EXCEPT !.queued = @ \/ c.request.closes]

TemporaryError ==
  /\ conn.loop = "waiting" /\ Failure
  /\ conn' = Around(Returned(conn))
  /\ Tells("lost")
  /\ UNCHANGED <<isServer, peerGone, late, calls, frames>>

\* Any other error destroys the connection; it may be the answer only that was lost.
FinalError ==
  /\ conn.loop = "waiting"
  /\ \/ PeerUnreachable /\ UNCHANGED faults
     \/ Failure
  /\ conn' = LoopFails(Returned(conn))
  /\ \E what \in {"NoError", "lost"} : Tells(what)
  /\ UNCHANGED <<isServer, peerGone, late, calls, frames>>

\* The idle time may pass while a run or the loop waits for an answer or for its next try.
testIdle ==
  /\ conn.idle = "armed"
  /\ conn' = destroy([conn EXCEPT !.idle = "off"], TRUE)
  /\ UNCHANGED <<isServer, peerGone, heard, late, boundVars>>

Events ==
  \/ RunSteps \/ Wake \/ setupExchangeRate \/ loadAndSendPacket \/ Answer \/ testIdle
  \/ \E s \in Streams : removeStreamRecord(s)
  \/ (peerGone /\ ProbeFails) \/ (PeerUnreachable /\ FinalError)

Faults == ProbeFails \/ TemporaryError \/ FinalError \/ \E r \in conn.runs : NotTold(r)

LifeProgress == AtOnce \/ (Settled /\ Events)

LifeNext == LifeProgress \/ (Settled /\ (Application \/ Environment \/ Faults))

LifeSpec == LifeInit /\ [][LifeNext]_lifeVars

\* The end goes on and packets are answered; when nothing is under way the idle time passes.
LifeFairSpec == LifeSpec /\ WF_lifeVars(LifeProgress)
-----------------------------------------------------------------------------
(* Properties.                                                              *)

\* When 'close' is emitted every stream is closed, but for those opened while the connection
\* was closing, or after.
StreamsCloseFirst == Ended => OpenStreams(conn) \subseteq late

\* A packet with a ConnectionClose frame is under way, that of a run or of the loop.
BeingTold ==
  \/ \E r \in conn.runs : r.at = "telling"
  \/ conn.loop = "waiting" /\ conn.request.close

\* However it was closed, by end(), destroy(), the loop's failure or the idle timer, the peer
\* was told: it closed the connection itself, or it got a ConnectionClose frame, or is getting
\* one, or such a frame was lost on its way, or there was no address to send it to.
PeerIsTold == Ended => heard # {} \/ frames > 0 \/ BeingTold

\* 'error' is not emitted after 'close'.
NoErrorAfterClose == [][Ended => conn'.errors = conn.errors]_lifeVars

\* A server that has not been introduced to its client, with a stream that is to send its money
\* before it ends: no loop runs to finish it, and there is no idle timer yet.
Unintroduced == ~conn.knows /\ \E s \in Streams : conn.streams[s] = "ending"

\* A connection that is being closed emits 'close' at last, unless it waits for its client for
\* ever.
ClosesAtLast == conn.runs # {} ~> (Ended \/ []Unintroduced)

\* connect() settles.
ConnectSettles == conn.connecting = "waiting" ~> conn.connecting # "waiting"
=============================================================================
