----------------------------- MODULE ServerPool -----------------------------
(***************************************************************************)
(* The server and its pool: how prepares find the connection they are for, *)
(* or make it, and how the server is closed and listens again.  Each       *)
(* listen() makes a pool of its own, and the handler it registers first    *)
(* works with the pool before it until then.                               *)
(*                                                                         *)
(* handleData and getConnection run for many prepares at once.  What they  *)
(* do between two awaits is one step: the first prepare for an id looks    *)
(* the shared secret up and makes the connection, those that come          *)
(* meanwhile wait for the same promise, and the first is handled one tick  *)
(* of the event loop after them.  A connection takes prepares, is closed   *)
(* by its peer or its application, and leaves the pool when it emits       *)
(* 'close'; its inner life is in ConnectionLifecycle.                      *)
(***************************************************************************)
EXTENDS Integers, FiniteSets

CONSTANTS
  Ids,          \* tokens that the server has generated
  Foreign,      \* and one that it has not
  MaxRequests,  \* bound on prepares
  MaxCloses,    \* bound on calls of close()
  MaxListens    \* bound on calls of listen() that do not return at once

ASSUME PoolAssumption ==
  Foreign \notin Ids /\ {MaxRequests, MaxCloses, MaxListens} \subseteq Nat

Requests == 1..MaxRequests
Pools == 1..MaxListens           \* in the order they are made
Connections == Requests          \* each has the number of the prepare it is made for
Tokens == Ids \cup {Foreign}

VARIABLES
  handler,     \* of the plugin: "handleData", "refuse" (T99), "none"
  plugin,      \* whether it is connected
  connected,
  connecting, fetching,   \* how many calls of listen() wait for the plugin, and for ILDCP
  closing,     \* close(): "no", "requests" and "connections" (waits for those), "plugin", "failed"
  awaited,     \* the prepares, then the connections, that it waits for
  pool,        \* the server's pool, 0 for none
  activeConnections, pendingConnections,   \* of each pool, by id; 0 for none
  request,     \* of each prepare: its id, whether its token's secret does not decrypt it (a
               \* foreign token's never does), the pool it went to, where it is and on what
               \* it waits, and its answer
  connection,  \* of each connection: its id, pool and state
  overlap,     \* history: whether listen() and close() have been under way together
  arrived, closes, listened

poolVars   == <<activeConnections, pendingConnections>>
listenVars == <<connecting, fetching, listened, pool>>
closeVars  == <<closing, awaited, closes>>
serverVars == <<handler, plugin, connected, overlap, listenVars, closeVars>>
vars == <<serverVars, poolVars, request, connection, arrived>>

NoRequest    == [id |-> Foreign, garbled |-> FALSE, pool |-> 0, at |-> "none", on |-> 0, answer |-> "none"]
NoConnection == [id |-> Foreign, pool |-> 0, state |-> "none"]

Init ==
  /\ handler = "none" /\ plugin = FALSE /\ connected = FALSE /\ overlap = FALSE
  /\ connecting = 0 /\ fetching = 0 /\ listened = 0 /\ pool = 0
  /\ closing = "no" /\ awaited = {} /\ closes = 0
  /\ activeConnections = [p \in Pools |-> [i \in Tokens |-> 0]]
  /\ pendingConnections = [p \in Pools |-> [i \in Tokens |-> 0]]
  /\ request = [r \in Requests |-> NoRequest]
  /\ connection = [c \in Connections |-> NoConnection]
  /\ arrived = 0
-----------------------------------------------------------------------------
(* Prepares.                                                                *)

\* Mutant: getConnection looks at the connections only.
LookupActive(r, p, i) ==
  IF activeConnections[p][i] # 0 THEN [at |-> "handling", on |-> activeConnections[p][i]]
  ELSE [at |-> "making", on |-> r]

\* Where getConnection leaves a prepare at once: with the connection, on the promise of
\* another prepare, or with a promise of its own.
Lookup(r, p, i) ==
  IF activeConnections[p][i] # 0 THEN [at |-> "handling", on |-> activeConnections[p][i]]
  ELSE IF pendingConnections[p][i] # 0 THEN [at |-> "waiting", on |-> pendingConnections[p][i]]
  ELSE [at |-> "making", on |-> r]

Comes(h) == plugin /\ handler = h /\ arrived < MaxRequests /\ arrived' = arrived + 1

handleData ==
  /\ Comes("handleData") /\ pool # 0
  /\ \E i \in Tokens, garbled \in BOOLEAN :
       LET r == arrived'
           found == Lookup(r, pool, i)
       IN /\ i = Foreign => garbled
          /\ request' = [request EXCEPT ![r] = [id |-> i, garbled |-> garbled, pool |-> pool,
                                                at |-> found.at, on |-> found.on, answer |-> "none"]]
          /\ pendingConnections' = IF found.at = "making" THEN [pendingConnections EXCEPT ![pool][i] = r]
                                   ELSE pendingConnections
  /\ UNCHANGED <<serverVars, activeConnections, connection>>

Refused(code) == [NoRequest EXCEPT !.at = "answered", !.answer = code]

\* The handler of the first listen() has no pool yet.
handleWithoutPool ==
  /\ Comes("handleData") /\ pool = 0
  /\ request' = [request EXCEPT ![arrived'] = Refused("F00")]
  /\ UNCHANGED <<serverVars, poolVars, connection>>

\* While the server closes, every prepare is refused.
Refuse ==
  /\ Comes("refuse")
  /\ request' = [request EXCEPT ![arrived'] = Refused("T99")]
  /\ UNCHANGED <<serverVars, poolVars, connection>>

\* The prepares that wait for the promise of r.
WaitingFor(r) == {q \in Requests : request[q].at = "waiting" /\ request[q].on = r}

\* The prepare can be read: the connection is made and its handler called, which may close it
\* at once.  The others are handled, and r a tick later.
getConnection(r) ==
  /\ request[r].at = "making" /\ ~request[r].garbled
  /\ LET i == request[r].id
         p == request[r].pool
     IN /\ connection' = [connection EXCEPT ![r] = [id |-> i, pool |-> p, state |-> "open"]]
        /\ activeConnections' = [activeConnections EXCEPT ![p][i] = r]
        /\ pendingConnections' = [pendingConnections EXCEPT ![p][i] = 0]
        /\ request' = [q \in Requests |->
             CASE q = r -> [request[q] EXCEPT !.at = "made"]
               [] q \in WaitingFor(r) -> [request[q] EXCEPT !.at = "handling"]
               [] OTHER -> request[q]]
  /\ UNCHANGED <<serverVars, arrived>>

AnswerUnreachable(R) ==
  request' = [q \in Requests |-> IF q \in R THEN [request[q] EXCEPT !.at = "answered", !.answer = "F02"]
                                 ELSE request[q]]

\* Mutant: a promise that rejects is kept, and rejects for those who come later.
UnreachableKept(r) ==
  /\ \/ request[r].at = "making" /\ request[r].garbled /\ AnswerUnreachable({r} \cup WaitingFor(r))
     \/ \E q \in Requests : /\ r \in WaitingFor(q) /\ request[q].answer = "F02"
                            /\ AnswerUnreachable({r})
  /\ UNCHANGED <<serverVars, poolVars, connection, arrived>>

\* Otherwise r and those that wait for its promise are unreachable, and the promise is deleted.
Unreachable(r) ==
  /\ request[r].at = "making" /\ request[r].garbled
  /\ pendingConnections' = [pendingConnections EXCEPT ![request[r].pool][request[r].id] = 0]
  /\ AnswerUnreachable({r} \cup WaitingFor(r))
  /\ UNCHANGED <<serverVars, activeConnections, connection, arrived>>

NextTick(r) ==
  /\ request[r].at = "made"
  /\ request' = [request EXCEPT ![r].at = "handling"]
  /\ UNCHANGED <<serverVars, poolVars, connection, arrived>>

AnswerOf(r) == IF request[r].garbled THEN "F06" ELSE "connection"

\* Mutant: a connection that has closed does not answer.
handlePrepareOpen(r) ==
  /\ request[r].at = "handling" /\ connection[request[r].on].state # "closed"
  /\ request' = [request EXCEPT ![r].at = "answered", ![r].answer = AnswerOf(r)]
  /\ UNCHANGED <<serverVars, poolVars, connection, arrived>>

\* The connection answers, whatever its state.
handlePrepare(r) ==
  /\ request[r].at = "handling"
  /\ request' = [request EXCEPT ![r].at = "answered", ![r].answer = AnswerOf(r)]
  /\ UNCHANGED <<serverVars, poolVars, connection, arrived>>
-----------------------------------------------------------------------------
(* Connections.                                                             *)

\* end() or destroy() is called, by the application or for a frame of the peer.
BeginClose(c) ==
  /\ connection[c].state = "open"
  /\ connection' = [connection EXCEPT ![c].state = "closing"]
  /\ UNCHANGED <<serverVars, poolVars, request, arrived>>

\* 'close' is emitted, and its pool forgets what it has for the id.
Closed(c) ==
  /\ connection[c].state = "closing"
  /\ connection' = [connection EXCEPT ![c].state = "closed"]
  /\ LET i == connection[c].id
         p == connection[c].pool
     IN /\ activeConnections' = [activeConnections EXCEPT ![p][i] = 0]
        /\ pendingConnections' = [pendingConnections EXCEPT ![p][i] = 0]
  /\ UNCHANGED <<serverVars, request, arrived>>
-----------------------------------------------------------------------------
(* The server is closed.                                                    *)

PendingRequests == {r \in Requests : request[r].at \notin {"none", "answered"}}
CloseUnderWay == closing \notin {"no", "failed"}

close ==
  /\ ~CloseUnderWay /\ closes < MaxCloses
  /\ closes' = closes + 1
  /\ handler' = "refuse" /\ closing' = "requests" /\ awaited' = PendingRequests
  /\ overlap' = (overlap \/ connecting + fetching > 0)
  /\ UNCHANGED <<plugin, connected, listenVars, poolVars, request, connection, arrived>>

EndAll(C) == [c \in Connections |-> IF c \in C THEN [connection[c] EXCEPT !.state = "closing"]
                                    ELSE connection[c]]
InPool == {activeConnections[pool][i] : i \in Tokens} \ {0}

\* Mutants: the requests are not waited for; the connections are not ended.
PoolCloseAtOnce ==
  /\ closing = "requests" /\ pool # 0
  /\ awaited' = InPool /\ connection' = EndAll(InPool)
  /\ closing' = "connections"
  /\ UNCHANGED <<handler, plugin, connected, overlap, listenVars, closes, poolVars, request, arrived>>


\* The requests are done, and the delay has passed: pool.close() ends what is in the pool.
PoolClose ==
  /\ closing = "requests" /\ awaited \cap PendingRequests = {} /\ pool # 0
  /\ awaited' = InPool /\ connection' = EndAll(InPool)
  /\ closing' = "connections"
  /\ UNCHANGED <<handler, plugin, connected, overlap, listenVars, closes, poolVars, request, arrived>>

\* close() rejects: there is no pool, or the end() of a connection has rejected, as it does when
\* the connection has an error meanwhile.
CloseRejects ==
  /\ \/ closing = "requests" /\ awaited \cap PendingRequests = {} /\ pool = 0
     \/ closing = "connections" /\ \E c \in awaited : connection[c].state = "closing"
  /\ closing' = "failed" /\ awaited' = {}
  /\ UNCHANGED <<handler, plugin, connected, overlap, listenVars, closes, poolVars, request, connection,
                 arrived>>

\* They have closed: the plugin is disconnected, and then the server.
Disconnect ==
  /\ closing = "connections" /\ \A c \in awaited : connection[c].state = "closed"
  /\ handler' = "none" /\ plugin' = FALSE
  /\ closing' = "plugin" /\ awaited' = {}
  /\ UNCHANGED <<connected, overlap, listenVars, closes, poolVars, request, connection, arrived>>

Disconnected ==
  /\ closing = "plugin"
  /\ closing' = "no" /\ connected' = FALSE
  /\ UNCHANGED <<handler, plugin, overlap, listenVars, awaited, closes, poolVars, request, connection,
                 arrived>>

\* The plugin loses its connection.
PluginLost ==
  /\ plugin /\ plugin' = FALSE
  /\ UNCHANGED <<handler, connected, overlap, listenVars, closeVars, poolVars, request, connection, arrived>>
-----------------------------------------------------------------------------
(* The server listens.  Nothing keeps two calls apart (acceptConnection     *)
(* makes one each time), nor one from a close() that is under way.          *)

\* It registers its handler, and waits for the plugin.  A server that is connected, or whose
\* close() has failed, is taken to be listening still.
listen ==
  /\ ~(connected /\ plugin) /\ listened < MaxListens
  /\ listened' = listened + 1
  /\ handler' = "handleData" /\ connecting' = connecting + 1
  /\ overlap' = (overlap \/ CloseUnderWay)
  /\ UNCHANGED <<plugin, connected, fetching, pool, closeVars, poolVars, request, connection, arrived>>

PluginConnects ==
  /\ connecting > 0
  /\ connecting' = connecting - 1 /\ plugin' = TRUE /\ fetching' = fetching + 1
  /\ UNCHANGED <<handler, connected, overlap, listened, pool, closeVars, poolVars, request, connection,
                 arrived>>

\* The address has come: the server has another pool, whatever is in the old one.
Listening ==
  /\ fetching > 0
  /\ fetching' = fetching - 1 /\ connected' = TRUE /\ pool' = pool + 1
  /\ UNCHANGED <<handler, plugin, overlap, connecting, listened, closeVars, poolVars, request, connection,
                 arrived>>

\* One of the awaits rejects; the handler stays.
ListenFails ==
  /\ \/ connecting > 0 /\ connecting' = connecting - 1 /\ UNCHANGED fetching
     \/ fetching > 0 /\ fetching' = fetching - 1 /\ UNCHANGED connecting
  /\ UNCHANGED <<handler, plugin, connected, overlap, listened, pool, closeVars, poolVars, request,
                 connection, arrived>>

Progress ==
  \/ \E r \in Requests : getConnection(r) \/ Unreachable(r) \/ NextTick(r) \/ handlePrepare(r)
  \/ \E c \in Connections : Closed(c)
  \/ PoolClose \/ CloseRejects \/ Disconnect \/ Disconnected

Next ==
  \/ Progress \/ handleData \/ handleWithoutPool \/ Refuse \/ close \/ PluginLost
  \/ listen \/ PluginConnects \/ Listening \/ ListenFails
  \/ \E c \in Connections : BeginClose(c)

Spec == Init /\ [][Next]_vars

\* The cryptography, the connections' answers and their closing come to an end, and what
\* close() awaits with them.
FairSpec == Spec /\ WF_vars(Progress)
-----------------------------------------------------------------------------
(* Properties.                                                              *)

Open == {c \in Connections : connection[c].state \in {"open", "closing"}}

\* The variables keep their types: a pool has the connection of an id or the promise of one,
\* never both, only pools that were made have any, and no prepare is answered twice.
TypeOK ==
  /\ handler \in {"handleData", "refuse", "none"}
  /\ closing \in {"no", "requests", "connections", "plugin", "failed"}
  /\ pool + connecting + fetching <= listened /\ listened <= MaxListens
  /\ \A p \in Pools, i \in Tokens :
       /\ activeConnections[p][i] # 0 => pendingConnections[p][i] = 0 /\ p <= pool
       /\ pendingConnections[p][i] # 0 => p <= pool
  /\ \A r \in Requests : request[r].answer # "none" <=> request[r].at = "answered"

\* An id has one connection at a time in a pool, and the pool knows it: two that are open for
\* the same id were made in different pools.
OneConnection == \A c \in Open : activeConnections[connection[c].pool][connection[c].id] = c

\* A server that has closed and has not listened since has left no connection of its last pool,
\* and no prepare without an answer, if no listen() was under way together with a close().
\* Connections of the pools before it may be open: close() does not know them.
NothingLeft ==
  handler = "none" /\ ~overlap =>
    PendingRequests = {} /\ \A c \in Open : connection[c].pool # pool

\* A prepare that the server could read is called unreachable only by the promise it came to
\* wait for, while another of its id that the server cannot read is being looked up: once that
\* one is answered, nothing of it is left that could.
Condemned(r) ==
  \E q \in Requests \ {r} :
    /\ request[q].at = "making" /\ request[q].garbled
    /\ r \in WaitingFor(q) /\ request[q].id = request[r].id /\ request[q].pool = request[r].pool
BecomesUnreachable(r) ==
  request[r].answer # "F02" /\ request'[r].answer = "F02"
UnreachableForCause ==
  [][\A r \in Requests : BecomesUnreachable(r) => request'[r].garbled \/ Condemned(r)]_vars

\* Every prepare is answered.
Answered == \A r \in Requests : arrived >= r ~> request[r].at = "answered"

=============================================================================
