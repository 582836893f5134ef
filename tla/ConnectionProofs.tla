-------------------------- MODULE ConnectionProofs --------------------------
(***************************************************************************)
(* How connections come and go.                                            *)
(*                                                                         *)
(* The server and its pools, for any number of prepares, tokens and calls  *)
(* of listen() and close(): in a pool an id has one connection at a time,  *)
(* a closed server has left nothing of its last pool, and a prepare that   *)
(* can be read is unreachable only for one that cannot.                    *)
(*                                                                         *)
(* One end in its own life, for any number of streams, calls, frames and   *)
(* faults: streams close before the connection does, its peer is told, and *)
(* no error comes after.                                                   *)
(*                                                                         *)
(* The exchange rate probe that connecting waits for, on any path: it      *)
(* gives up for a cause, and reports a rate as precise as the path allows. *)
(***************************************************************************)
EXTENDS ServerPool, ConnectionLifecycle, RateProbe, LongArithProofs

\* What a prepare and a connection can be, and what a pool has for each id.
Prepare ==
  [id : Tokens, garbled : BOOLEAN, pool : 0..MaxListens, on : 0..MaxRequests,
   at : {"none", "making", "waiting", "made", "handling", "answered"},
   answer : {"none", "connection", "F00", "F02", "F06", "T99"}]
Made == [id : Tokens, pool : 0..MaxListens, state : {"none", "open", "closing", "closed"}]
Table == [Pools -> [Tokens -> 0..MaxRequests]]

ServerKinds ==
  /\ handler \in {"handleData", "refuse", "none"}
  /\ plugin \in BOOLEAN /\ connected \in BOOLEAN /\ overlap \in BOOLEAN
  /\ closing \in {"no", "requests", "connections", "plugin", "failed"}
  /\ {connecting, fetching, listened, pool} \subseteq Nat
  /\ pool + connecting + fetching <= listened /\ listened <= MaxListens

Types ==
  /\ ServerKinds
  /\ activeConnections \in Table /\ pendingConnections \in Table
  /\ request \in [Requests -> Prepare] /\ connection \in [Connections -> Made]
  /\ arrived \in 0..MaxRequests

\* A promise is that of the one prepare that makes the connection of its id in its pool, and
\* there an id has a connection or a promise.
PromisesAgree ==
  /\ \A p \in Pools, i \in Tokens : pendingConnections[p][i] # 0 =>
       /\ activeConnections[p][i] = 0
       /\ request[pendingConnections[p][i]].at = "making"
       /\ request[pendingConnections[p][i]].id = i /\ request[pendingConnections[p][i]].pool = p
  /\ \A r \in Requests : request[r].at = "making" =>
       request[r].pool \in Pools /\ pendingConnections[request[r].pool][request[r].id] = r

\* The pools' connections are the open ones.
PoolAgrees ==
  /\ \A c \in Open : connection[c].pool \in Pools /\ activeConnections[connection[c].pool][connection[c].id] = c
  /\ \A p \in Pools, i \in Tokens : activeConnections[p][i] # 0 =>
       /\ activeConnections[p][i] \in Open
       /\ connection[activeConnections[p][i]].id = i /\ connection[activeConnections[p][i]].pool = p

\* Prepares are numbered as they come; one that waits does so for one that makes a connection
\* for its id in its pool, and one that still does has none.
InOrder ==
  /\ \A r \in Requests : r > arrived => request[r] = NoRequest
  /\ \A r \in Requests : request[r].at = "waiting" =>
       /\ request[r].on \in Requests /\ request[request[r].on].at = "making"
       /\ request[request[r].on].id = request[r].id /\ request[request[r].on].pool = request[r].pool
  /\ \A r \in Requests : request[r].at \in {"none", "making"} => connection[r].state = "none"

\* No pool is used before it is made.
InPools ==
  /\ \A r \in Requests : request[r].pool <= pool
  /\ \A c \in Connections : connection[c].pool <= pool

\* While a server closes and does not listen, its pool stays what it is and no prepare comes to
\* it; those in progress are awaited, and then the connections of the pool are.
OpenInPool == {c \in Open : connection[c].pool = pool}
ClosingInv ==
  ~ overlap =>
    /\ CloseUnderWay \/ handler = "none" => connecting = 0 /\ fetching = 0
    /\ closing \in {"requests", "connections"} => handler = "refuse"
    /\ closing = "requests" => PendingRequests \subseteq awaited
    /\ closing = "connections" => PendingRequests = {} /\ OpenInPool \subseteq awaited
    /\ handler = "none" => PendingRequests = {} /\ OpenInPool = {}

AnswersAgree == \A r \in Requests : request[r].answer # "none" <=> request[r].at = "answered"

\* The inductive invariant.
IInv == Types /\ AnswersAgree /\ PromisesAgree /\ PoolAgrees /\ InOrder /\ InPools /\ ClosingInv
-----------------------------------------------------------------------------
(* Prepares.                                                                *)

LEMMA BoundIsNat == MaxRequests \in Nat /\ MaxListens \in Nat
BY PoolAssumption

\* A pool's entry for an id is set.
Changed(g, f, p, i, x) ==
  g \in Table /\ \A q \in Pools, k \in Tokens : g[q][k] = IF q = p /\ k = i THEN x ELSE f[q][k]

LEMMA TableChanged ==
  ASSUME NEW f \in Table, NEW p \in Pools, NEW i \in Tokens, NEW x \in 0..MaxRequests
  PROVE  Changed([f EXCEPT ![p][i] = x], f, p, i, x)
<1> DEFINE g == [f EXCEPT ![p][i] = x]
<1>1. \A q \in Pools : g[q] = IF q = p THEN [f[p] EXCEPT ![i] = x] ELSE f[q]
  BY DEF Table
<1>2. \A q \in Pools : f[q] \in [Tokens -> 0..MaxRequests]
  BY DEF Table
<1>3. [f[p] EXCEPT ![i] = x] \in [Tokens -> 0..MaxRequests]
  BY <1>2
<1>4. \A k \in Tokens : [f[p] EXCEPT ![i] = x][k] = IF k = i THEN x ELSE f[p][k]
  BY <1>2
<1>5. g = [q \in Pools |-> g[q]]
  BY DEF Table
<1> HIDE DEF g
<1>6. g \in Table
  BY <1>1, <1>2, <1>3, <1>5 DEF Table
<1>7. \A q \in Pools, k \in Tokens : g[q][k] = IF q = p /\ k = i THEN x ELSE f[q][k]
  BY <1>1, <1>4
<1> QED BY <1>6, <1>7 DEF Changed, g

\* A prepare arrives.
LEMMA handleDataKeeps ==
  ASSUME IInv, handleData
  PROVE  IInv'
<1> DEFINE r == arrived + 1
<1>0. Types /\ AnswersAgree /\ PromisesAgree /\ PoolAgrees /\ InOrder /\ InPools /\ ClosingInv
  BY DEF IInv
<1>1. /\ arrived' = r /\ arrived < MaxRequests /\ handler = "handleData" /\ pool # 0
      /\ UNCHANGED <<serverVars, activeConnections, connection>>
  BY DEF handleData, Comes
<1>2. PICK i \in Tokens, garbled \in BOOLEAN :
        /\ request' = [request EXCEPT ![r] = [id |-> i, garbled |-> garbled, pool |-> pool,
                                              at |-> Lookup(r, pool, i).at, on |-> Lookup(r, pool, i).on,
                                              answer |-> "none"]]
        /\ pendingConnections' = IF Lookup(r, pool, i).at = "making"
                                 THEN [pendingConnections EXCEPT ![pool][i] = r] ELSE pendingConnections
  BY <1>1 DEF handleData
<1>3. /\ handler' = handler /\ plugin' = plugin /\ connected' = connected /\ overlap' = overlap
      /\ connecting' = connecting /\ fetching' = fetching /\ listened' = listened /\ pool' = pool
      /\ closing' = closing /\ awaited' = awaited
      /\ activeConnections' = activeConnections /\ connection' = connection
  BY <1>1 DEF serverVars, listenVars, closeVars
<1>4. /\ r \in Requests /\ r # 0 /\ r \in 0..MaxRequests /\ arrived \in Nat
      /\ request[r].at = "none" /\ connection[r].state = "none"
  BY <1>0, <1>1, BoundIsNat DEF Types, InOrder, Requests, NoRequest
<1>5. pool \in Pools /\ pool \in 0..MaxListens
  <2>1. pool \in Nat /\ connecting \in Nat /\ fetching \in Nat /\ listened \in Nat
        /\ pool + connecting + fetching <= listened /\ listened <= MaxListens
    BY <1>0 DEF Types, ServerKinds
  <2> QED BY <2>1, <1>1, BoundIsNat DEF Pools
<1> DEFINE a == activeConnections[pool][i]
           b == pendingConnections[pool][i]
           x == Lookup(r, pool, i)
<1>6. a \in 0..MaxRequests /\ b \in 0..MaxRequests
  BY <1>0, <1>5 DEF Types, Table
<1>7. \/ a # 0 /\ x.at = "handling" /\ x.on = a
      \/ a = 0 /\ b # 0 /\ x.at = "waiting" /\ x.on = b
      \/ a = 0 /\ b = 0 /\ x.at = "making" /\ x.on = r
  BY DEF Lookup
<1> HIDE DEF r, x
<1>8. /\ request'[r] = [id |-> i, garbled |-> garbled, pool |-> pool, at |-> x.at, on |-> x.on, answer |-> "none"]
      /\ \A q \in Requests : q # r => request'[q] = request[q]
      /\ request' = [q \in Requests |-> request'[q]]
  BY <1>0, <1>2, <1>4 DEF Types, x
<1>9. request'[r] \in Prepare
  BY <1>4, <1>5, <1>6, <1>7, <1>8 DEF Prepare
<1>10. request' \in [Requests -> Prepare]
  <2>1. \A q \in Requests : request'[q] \in Prepare
    BY <1>0, <1>8, <1>9 DEF Types
  <2> QED BY <2>1, <1>8
<1>11. \/ x.at = "making" /\ Changed(pendingConnections', pendingConnections, pool, i, r)
       \/ x.at # "making" /\ pendingConnections' = pendingConnections
  <2>1. Changed([pendingConnections EXCEPT ![pool][i] = r], pendingConnections, pool, i, r)
    BY <1>0, <1>4, <1>5, TableChanged DEF Types
  <2> QED BY <2>1, <1>2 DEF x
<1>12. Types'
  <2>1. pendingConnections' \in Table
    BY <1>0, <1>11 DEF Types, Changed
  <2>2. arrived' \in 0..MaxRequests
    BY <1>1, <1>4
  <2>3. ServerKinds'
    BY <1>0, <1>3 DEF Types, ServerKinds
  <2> QED BY <1>0, <1>3, <1>10, <2>1, <2>2, <2>3 DEF Types
<1>13. AnswersAgree'
  BY <1>0, <1>7, <1>8 DEF AnswersAgree
<1>14. PromisesAgree'
  <2>1. \A p \in Pools, k \in Tokens : pendingConnections[p][k] # 0 =>
          pendingConnections[p][k] \in Requests /\ pendingConnections[p][k] # r
    BY <1>0, <1>4, BoundIsNat DEF Types, Table, Requests, PromisesAgree
  <2>2. ASSUME NEW p \in Pools, NEW k \in Tokens, pendingConnections'[p][k] # 0
        PROVE  /\ activeConnections[p][k] = 0
               /\ request'[pendingConnections'[p][k]].at = "making"
               /\ request'[pendingConnections'[p][k]].id = k /\ request'[pendingConnections'[p][k]].pool = p
    <3>1. CASE pendingConnections'[p][k] = pendingConnections[p][k]
      BY <1>0, <1>8, <2>1, <2>2, <3>1 DEF PromisesAgree
    <3>2. CASE x.at = "making" /\ p = pool /\ k = i /\ pendingConnections'[p][k] = r
      BY <1>7, <1>8, <3>2
    <3> QED BY <1>11, <3>1, <3>2 DEF Changed
  <2>3. ASSUME NEW q \in Requests, request'[q].at = "making"
        PROVE  request'[q].pool \in Pools /\ pendingConnections'[request'[q].pool][request'[q].id] = q
    <3>1. CASE q = r
      BY <1>5, <1>8, <1>11, <2>3, <3>1 DEF Changed
    <3>2. CASE q # r
      <4>1. /\ request'[q] = request[q] /\ request[q].pool \in Pools /\ request[q].id \in Tokens
            /\ pendingConnections[request[q].pool][request[q].id] = q /\ q # 0
        BY <1>0, <1>8, <2>3, <3>2, BoundIsNat DEF PromisesAgree, Types, Prepare, Requests
      <4>2. x.at = "making" => ~ (request[q].pool = pool /\ request[q].id = i)
        BY <4>1, <1>7
      <4> QED BY <4>1, <4>2, <1>11 DEF Changed
    <3> QED BY <3>1, <3>2
  <2> QED BY <1>3, <2>2, <2>3 DEF PromisesAgree
<1>15. PoolAgrees'
  BY <1>0, <1>3 DEF PoolAgrees, Open
<1>16. InOrder'
  <2>1. \A q \in Requests : q > arrived' => request'[q] = NoRequest
    <3>1. \A q \in Requests : q > arrived' => q > arrived /\ q # r
      BY <1>1, <1>4 DEF Requests, r
    <3> QED BY <3>1, <1>0, <1>8 DEF InOrder
  <2>2. ASSUME NEW q \in Requests, request'[q].at = "waiting"
        PROVE  /\ request'[q].on \in Requests /\ request'[request'[q].on].at = "making"
               /\ request'[request'[q].on].id = request'[q].id
               /\ request'[request'[q].on].pool = request'[q].pool
    <3>1. CASE q = r
      <4>1. a = 0 /\ b # 0 /\ request'[q].on = b /\ request'[q].id = i /\ request'[q].pool = pool
        BY <1>7, <1>8, <2>2, <3>1
      <4>2. request[b].at = "making" /\ request[b].id = i /\ request[b].pool = pool
        BY <4>1, <1>0, <1>5 DEF PromisesAgree
      <4>3. b \in Requests /\ b # r
        BY <4>1, <4>2, <1>4, <1>6 DEF Requests
      <4> QED BY <4>1, <4>2, <4>3, <1>8
    <3>2. CASE q # r
      <4>1. /\ request'[q] = request[q] /\ request[q].on \in Requests /\ request[request[q].on].at = "making"
            /\ request[request[q].on].id = request[q].id /\ request[request[q].on].pool = request[q].pool
        BY <1>0, <1>8, <2>2, <3>2 DEF InOrder
      <4>2. request[q].on # r
        BY <4>1, <1>4
      <4> QED BY <4>1, <4>2, <1>8
    <3> QED BY <3>1, <3>2
  <2>3. \A q \in Requests : request'[q].at \in {"none", "making"} => connection'[q].state = "none"
    BY <1>0, <1>3, <1>4, <1>8 DEF InOrder
  <2> QED BY <2>1, <2>2, <2>3 DEF InOrder
<1>17. InPools'
  <2>1. pool \in Nat
    BY <1>0 DEF Types, ServerKinds
  <2> QED BY <2>1, <1>0, <1>3, <1>8 DEF InPools
<1>18. ClosingInv'
  BY <1>0, <1>1, <1>3 DEF ClosingInv, CloseUnderWay
<1> QED BY <1>12, <1>13, <1>14, <1>15, <1>16, <1>17, <1>18 DEF IInv

\* A prepare is refused.
LEMMA RefuseKeeps ==
  ASSUME IInv, handleWithoutPool \/ Refuse
  PROVE  IInv'
<1> DEFINE r == arrived + 1
<1>0. Types /\ AnswersAgree /\ PromisesAgree /\ PoolAgrees /\ InOrder /\ InPools /\ ClosingInv
  BY DEF IInv
<1>1. /\ arrived' = r /\ arrived < MaxRequests
      /\ UNCHANGED serverVars /\ UNCHANGED poolVars /\ connection' = connection
  BY DEF handleWithoutPool, Refuse, Comes
<1>2. PICK code \in {"F00", "T99"} : request' = [request EXCEPT ![r] = Refused(code)]
  BY <1>1 DEF handleWithoutPool, Refuse
<1>3. /\ handler' = handler /\ plugin' = plugin /\ connected' = connected /\ overlap' = overlap
      /\ connecting' = connecting /\ fetching' = fetching /\ listened' = listened /\ pool' = pool
      /\ closing' = closing /\ awaited' = awaited
      /\ activeConnections' = activeConnections /\ pendingConnections' = pendingConnections
  BY <1>1 DEF serverVars, listenVars, closeVars, poolVars
<1>4. r \in Requests /\ arrived \in Nat /\ request[r] = NoRequest /\ request[r].at = "none"
  <2>1. r \in Requests /\ arrived \in Nat /\ r > arrived
    BY <1>0, <1>1, BoundIsNat DEF Types, Requests
  <2>2. request[r] = NoRequest
    BY <2>1, <1>0 DEF InOrder
  <2> QED BY <2>1, <2>2 DEF NoRequest
<1> HIDE DEF r
<1>5. /\ request'[r] = Refused(code) /\ request' = [q \in Requests |-> request'[q]]
      /\ \A q \in Requests : q # r => request'[q] = request[q]
  BY <1>0, <1>2, <1>4 DEF Types
<1>6. Refused(code) \in Prepare /\ Refused(code).at = "answered" /\ Refused(code).answer = code
      /\ Refused(code).pool = 0
  <2>1. NoRequest \in Prepare /\ NoRequest.pool = 0
    BY BoundIsNat DEF NoRequest, Prepare, Tokens
  <2> QED BY <2>1 DEF Refused, Prepare
<1>7. Types'
  <2>1. \A q \in Requests : request'[q] \in Prepare
    BY <1>0, <1>5, <1>6 DEF Types
  <2>2. request' \in [Requests -> Prepare]
    BY <2>1, <1>5
  <2>3. arrived' \in 0..MaxRequests
    BY <1>1, <1>4, BoundIsNat DEF Requests
  <2>4. ServerKinds'
    BY <1>0, <1>3 DEF Types, ServerKinds
  <2> QED BY <1>0, <1>1, <1>3, <2>2, <2>3, <2>4 DEF Types
<1>8. AnswersAgree'
  BY <1>0, <1>5, <1>6 DEF AnswersAgree
<1>9. PromisesAgree'
  <2>1. \A p \in Pools, k \in Tokens : pendingConnections[p][k] # 0 =>
          pendingConnections[p][k] \in Requests /\ pendingConnections[p][k] # r
    BY <1>0, <1>4, BoundIsNat DEF Types, Table, Requests, PromisesAgree
  <2> QED BY <2>1, <1>0, <1>3, <1>5, <1>6 DEF PromisesAgree
<1>10. PoolAgrees'
  BY <1>0, <1>1, <1>3 DEF PoolAgrees, Open
<1>11. InOrder'
  <2>1. \A q \in Requests : q > arrived' => request'[q] = NoRequest
    <3>1. \A q \in Requests : q > arrived' => q > arrived /\ q # r
      BY <1>1, <1>4 DEF Requests, r
    <3> QED BY <3>1, <1>0, <1>5 DEF InOrder
  <2>2. \A q \in Requests : request[q].at = "waiting" => request[q].on # r
    BY <1>0, <1>4 DEF InOrder
  <2> QED BY <2>1, <2>2, <1>0, <1>1, <1>5, <1>6 DEF InOrder
<1>12. InPools'
  <2>1. pool \in Nat
    BY <1>0 DEF Types, ServerKinds
  <2> QED BY <2>1, <1>0, <1>1, <1>3, <1>5, <1>6 DEF InPools
<1>13. ClosingInv'
  <2>1. PendingRequests' = PendingRequests
    BY <1>4, <1>5, <1>6 DEF PendingRequests
  <2> QED BY <2>1, <1>0, <1>1, <1>3 DEF ClosingInv, CloseUnderWay, OpenInPool, Open
<1> QED BY <1>7, <1>8, <1>9, <1>10, <1>11, <1>12, <1>13 DEF IInv

\* A prepare is moved to another place, and nothing else of it changes but the answer.
Moved(q, to, answer) ==
  /\ request'[q] \in Prepare
  /\ request'[q].id = request[q].id /\ request'[q].garbled = request[q].garbled
  /\ request'[q].on = request[q].on /\ request'[q].pool = request[q].pool
  /\ request'[q].at = to /\ request'[q].answer = answer

\* What is left to show once it is known where prepares go: some that waited or made their
\* connection go on.
LEMMA MovesInOrder ==
  ASSUME IInv, UNCHANGED arrived, NEW R, R \subseteq Requests,
         \A q \in Requests \ R : request'[q] = request[q],
         \A q \in R : \E to \in {"made", "handling", "answered"} : \E answer : Moved(q, to, answer),
         \A q \in R : request[q].at \notin {"none", "answered"},
         \A q \in Requests \ R : request[q].at = "waiting" => request[q].on \notin R,
         \A q \in Requests : connection'[q] = connection[q] \/ q \in R,
         \A q \in Connections : connection'[q].pool <= pool, pool' = pool
  PROVE  InOrder' /\ InPools' /\ PendingRequests' \subseteq PendingRequests
<1>0. Types /\ InOrder /\ InPools /\ ServerKinds
  BY DEF IInv, Types
<1>1. \A q \in Requests : /\ request'[q].id = request[q].id /\ request'[q].pool = request[q].pool
                          /\ request'[q].on = request[q].on
                          /\ q \in R => request'[q].at \in {"made", "handling", "answered"}
  BY DEF Moved
<1>2. \A q \in Requests : q > arrived => q \notin R /\ request[q] = NoRequest
  <2>1. \A q \in Requests : q > arrived => request[q] = NoRequest
    BY <1>0 DEF InOrder
  <2>2. NoRequest.at = "none"
    BY DEF NoRequest
  <2> QED BY <2>1, <2>2
<1>3. \A q \in Requests : q > arrived' => request'[q] = NoRequest
  BY <1>2
<1>4. ASSUME NEW q \in Requests, request'[q].at = "waiting"
      PROVE  /\ request'[q].on \in Requests /\ request'[request'[q].on].at = "making"
             /\ request'[request'[q].on].id = request'[q].id
             /\ request'[request'[q].on].pool = request'[q].pool
  <2>1. q \notin R
    BY <1>1, <1>4
  <2>2. /\ request'[q] = request[q] /\ request[q].on \in Requests /\ request[request[q].on].at = "making"
        /\ request[request[q].on].id = request[q].id /\ request[request[q].on].pool = request[q].pool
    BY <1>0, <1>4, <2>1 DEF InOrder
  <2>3. request[q].on \notin R
    BY <1>4, <2>1, <2>2
  <2> QED BY <2>2, <2>3
<1>5. \A q \in Requests : request'[q].at \in {"none", "making"} => connection'[q].state = "none"
  BY <1>0, <1>1 DEF InOrder
<1>6. InPools'
  <2>2. \A q \in Connections : connection'[q].pool <= pool
    OBVIOUS
  <2>3. \A q \in Requests : request'[q].pool <= pool
    BY <1>0, <1>1 DEF InPools
  <2> QED BY <2>2, <2>3 DEF InPools
<1>7. PendingRequests' \subseteq PendingRequests
  <2>1. ASSUME NEW q \in Requests, request'[q].at \notin {"none", "answered"}
        PROVE  request[q].at \notin {"none", "answered"}
    <3>1. CASE q \in R
      BY <3>1
    <3>2. CASE q \notin R
      BY <2>1, <3>2
    <3> QED BY <3>1, <3>2
  <2> QED BY <2>1 DEF PendingRequests
<1> QED BY <1>3, <1>4, <1>5, <1>6, <1>7 DEF InOrder

\* The connection of a prepare is made.
LEMMA getConnectionKeeps ==
  ASSUME IInv, NEW r \in Requests, getConnection(r)
  PROVE  IInv'
<1> DEFINE i == request[r].id
           p == request[r].pool
           R == {r} \cup WaitingFor(r)
           c == [id |-> i, pool |-> p, state |-> "open"]
<1>0. Types /\ AnswersAgree /\ PromisesAgree /\ PoolAgrees /\ InOrder /\ InPools /\ ClosingInv
  BY DEF IInv
<1>1. /\ request[r].at = "making"
      /\ UNCHANGED serverVars /\ arrived' = arrived
      /\ connection' = [connection EXCEPT ![r] = c]
      /\ activeConnections' = [activeConnections EXCEPT ![p][i] = r]
      /\ pendingConnections' = [pendingConnections EXCEPT ![p][i] = 0]
  BY DEF getConnection
<1>2. /\ handler' = handler /\ plugin' = plugin /\ connected' = connected /\ overlap' = overlap
      /\ connecting' = connecting /\ fetching' = fetching /\ listened' = listened /\ pool' = pool
      /\ closing' = closing /\ awaited' = awaited
  BY <1>1 DEF serverVars, listenVars, closeVars
<1>3. /\ i \in Tokens /\ p \in Pools /\ p \in 0..MaxListens /\ p <= pool
      /\ r # 0 /\ r \in 0..MaxRequests /\ 0 \in 0..MaxRequests
      /\ pendingConnections[p][i] = r /\ connection[r].state = "none"
  BY <1>0, <1>1, BoundIsNat DEF PromisesAgree, InOrder, InPools, Types, Prepare, Requests
<1>4. activeConnections[p][i] = 0
  BY <1>0, <1>3 DEF PromisesAgree
<1>5. /\ Changed(activeConnections', activeConnections, p, i, r)
      /\ Changed(pendingConnections', pendingConnections, p, i, 0)
  BY <1>0, <1>1, <1>3, TableChanged DEF Types
<1>6. \A q \in Requests : request[q] \in Prepare
  BY <1>0 DEF Types
<1>7. /\ request'[r] = [request[r] EXCEPT !.at = "made"] /\ r \notin WaitingFor(r)
      /\ \A q \in WaitingFor(r) : q \in Requests /\ request'[q] = [request[q] EXCEPT !.at = "handling"]
      /\ \A q \in Requests \ R : request'[q] = request[q]
      /\ request' = [q \in Requests |-> request'[q]]
  <2>1. r \notin WaitingFor(r)
    BY <1>1 DEF WaitingFor
  <2> QED BY <2>1 DEF getConnection, WaitingFor
<1>8. /\ Moved(r, "made", request[r].answer)
      /\ \A q \in WaitingFor(r) : Moved(q, "handling", request[q].answer)
  <2>1. Moved(r, "made", request[r].answer)
    BY <1>6, <1>7 DEF Prepare, Moved
  <2>2. ASSUME NEW q \in WaitingFor(r)
        PROVE  Moved(q, "handling", request[q].answer)
    <3>1. request[q] \in Prepare /\ request'[q] = [request[q] EXCEPT !.at = "handling"]
      BY <1>6, <1>7
    <3> QED BY <3>1 DEF Prepare, Moved
  <2> QED BY <2>1, <2>2
<1>9. \A q \in R : q \in Requests /\ request[q].at \in {"making", "waiting"} /\ q \in PendingRequests
  BY <1>1 DEF WaitingFor, PendingRequests
<1>10. r \in R /\ R \subseteq Requests /\ \A q \in Requests \ R : request[q].at = "waiting" => request[q].on # r
  BY <1>9 DEF WaitingFor
<1>11. /\ connection'[r] = c /\ connection' = [q \in Connections |-> connection'[q]]
       /\ \A q \in Connections : q # r => connection'[q] = connection[q]
  BY <1>0, <1>1 DEF Types, Connections
<1>12. Types'
  <2>1. \A q \in Requests : request'[q] \in Prepare
    BY <1>6, <1>7, <1>8, <1>9 DEF Moved
  <2>2. request' \in [Requests -> Prepare]
    BY <2>1, <1>7
  <2>3. \A q \in Connections : connection'[q] \in Made
    BY <1>0, <1>3, <1>11 DEF Types, Made
  <2>4. connection' \in [Connections -> Made]
    BY <2>3, <1>11
  <2>5. ServerKinds'
    BY <1>0, <1>2 DEF Types, ServerKinds
  <2> QED BY <1>0, <1>1, <1>5, <2>2, <2>4, <2>5 DEF Types, Changed
<1>13. AnswersAgree'
  <2>1. ASSUME NEW q \in Requests
        PROVE  request'[q].answer # "none" <=> request'[q].at = "answered"
    <3>1. request[q].answer # "none" <=> request[q].at = "answered"
      BY <1>0 DEF AnswersAgree
    <3>2. CASE q \in R
      BY <1>8, <1>9, <3>1, <3>2 DEF Moved
    <3>3. CASE q \notin R
      BY <1>7, <3>1, <3>3
    <3> QED BY <3>2, <3>3
  <2> QED BY <2>1 DEF AnswersAgree
<1>14. \A q \in R : \E to \in {"made", "handling", "answered"} : \E answer : Moved(q, to, answer)
  BY <1>8
<1>15. InOrder' /\ InPools' /\ PendingRequests' \subseteq PendingRequests
  <2>1. \A q \in Requests \ R : request[q].at = "waiting" => request[q].on \notin R
    <3>1. \A q \in Requests : request[q].at = "waiting" => request[request[q].on].at = "making"
      BY <1>0 DEF InOrder
    <3>2. \A q \in WaitingFor(r) : request[q].at = "waiting"
      BY DEF WaitingFor
    <3> QED BY <3>1, <3>2, <1>10
  <2>2. \A q \in Requests : connection'[q] = connection[q] \/ q \in R
    BY <1>10, <1>11 DEF Connections
  <2>3. \A q \in Connections : connection'[q].pool <= pool
    BY <1>0, <1>3, <1>11 DEF InPools
  <2>4. \A q \in R : request[q].at \notin {"none", "answered"}
    BY <1>9
  <2> HIDE DEF R
  <2> QED BY <1>1, <1>2, <1>7, <1>10, <1>14, <2>1, <2>2, <2>3, <2>4, MovesInOrder
<1>16. PromisesAgree'
  <2>1. ASSUME NEW q \in Pools, NEW k \in Tokens, pendingConnections'[q][k] # 0
        PROVE  /\ activeConnections'[q][k] = 0
               /\ request'[pendingConnections'[q][k]].at = "making"
               /\ request'[pendingConnections'[q][k]].id = k /\ request'[pendingConnections'[q][k]].pool = q
    <3>1. ~ (q = p /\ k = i) /\ pendingConnections'[q][k] = pendingConnections[q][k]
          /\ activeConnections'[q][k] = activeConnections[q][k]
      BY <1>5, <2>1 DEF Changed
    <3> DEFINE x == pendingConnections[q][k]
    <3>2. /\ activeConnections[q][k] = 0 /\ request[x].at = "making" /\ request[x].id = k /\ request[x].pool = q
          /\ x \in Requests
      BY <1>0, <2>1, <3>1, BoundIsNat DEF PromisesAgree, Types, Table, Requests
    <3>3. x \notin R
      <4>1. x # r
        BY <3>1, <3>2
      <4>2. x \notin WaitingFor(r)
        BY <3>2 DEF WaitingFor
      <4> QED BY <4>1, <4>2
    <3> HIDE DEF x, R
    <3>4. request'[x] = request[x]
      BY <1>7, <3>2, <3>3
    <3> QED BY <3>1, <3>2, <3>4 DEF x
  <2>2. ASSUME NEW q \in Requests, request'[q].at = "making"
        PROVE  request'[q].pool \in Pools /\ pendingConnections'[request'[q].pool][request'[q].id] = q
    <3>1. q \notin R
      BY <1>8, <2>2 DEF Moved
    <3>2. /\ request'[q] = request[q] /\ request[q].pool \in Pools /\ request[q].id \in Tokens
          /\ pendingConnections[request[q].pool][request[q].id] = q /\ q # r
      BY <1>0, <1>6, <1>7, <1>10, <2>2, <3>1 DEF PromisesAgree, Prepare
    <3>3. ~ (request[q].pool = p /\ request[q].id = i)
      BY <3>2, <1>3
    <3> QED BY <3>2, <3>3, <1>5 DEF Changed
  <2> QED BY <2>1, <2>2 DEF PromisesAgree
<1>17. Open' = Open \cup {r} /\ r \notin Open
  BY <1>3, <1>11 DEF Open, Connections
<1>18. PoolAgrees'
  <2>1. ASSUME NEW d \in Open'
        PROVE  connection'[d].pool \in Pools /\ activeConnections'[connection'[d].pool][connection'[d].id] = d
    <3>1. CASE d = r
      BY <1>3, <1>5, <1>11, <3>1 DEF Changed
    <3>2. CASE d \in Open
      <4>1. /\ d \in Connections /\ connection'[d] = connection[d] /\ connection[d].pool \in Pools
            /\ connection[d].id \in Tokens /\ d # 0
            /\ activeConnections[connection[d].pool][connection[d].id] = d
        BY <1>0, <1>11, <1>17, <3>2, BoundIsNat DEF PoolAgrees, Open, Types, Made, Connections, Requests
      <4>2. ~ (connection[d].pool = p /\ connection[d].id = i)
        BY <4>1, <1>4
      <4> QED BY <4>1, <4>2, <1>5 DEF Changed
    <3> QED BY <3>1, <3>2, <1>17
  <2>2. ASSUME NEW q \in Pools, NEW k \in Tokens, activeConnections'[q][k] # 0
        PROVE  /\ activeConnections'[q][k] \in Open'
               /\ connection'[activeConnections'[q][k]].id = k /\ connection'[activeConnections'[q][k]].pool = q
    <3>1. CASE q = p /\ k = i
      BY <1>5, <1>11, <1>17, <3>1 DEF Changed
    <3>2. CASE ~ (q = p /\ k = i)
      <4>1. activeConnections'[q][k] = activeConnections[q][k]
        BY <1>5, <3>2 DEF Changed
      <4> DEFINE d == activeConnections[q][k]
      <4>2. d \in Open /\ connection[d].id = k /\ connection[d].pool = q
        BY <1>0, <2>2, <4>1 DEF PoolAgrees
      <4>3. d \in Connections /\ d # r
        BY <1>17, <4>2 DEF Open
      <4> HIDE DEF d
      <4>4. connection'[d] = connection[d]
        BY <1>11, <4>3
      <4> QED BY <1>17, <4>1, <4>2, <4>4 DEF d
    <3> QED BY <3>1, <3>2
  <2> QED BY <2>1, <2>2 DEF PoolAgrees
<1>19. ClosingInv'
  <2>1. r \in PendingRequests
    BY <1>9, <1>10
  <2> QED BY <2>1, <1>0, <1>2, <1>15 DEF ClosingInv, CloseUnderWay
<1> QED BY <1>12, <1>13, <1>15, <1>16, <1>18, <1>19 DEF IInv

\* The promise of a prepare rejects.
LEMMA UnreachableKeeps ==
  ASSUME IInv, NEW r \in Requests, Unreachable(r)
  PROVE  IInv'
<1> DEFINE i == request[r].id
           p == request[r].pool
           R == {r} \cup WaitingFor(r)
<1>0. Types /\ AnswersAgree /\ PromisesAgree /\ PoolAgrees /\ InOrder /\ InPools /\ ClosingInv
  BY DEF IInv
<1>1. /\ request[r].at = "making"
      /\ UNCHANGED serverVars /\ arrived' = arrived /\ connection' = connection
      /\ activeConnections' = activeConnections
      /\ pendingConnections' = [pendingConnections EXCEPT ![p][i] = 0]
      /\ AnswerUnreachable(R)
  BY DEF Unreachable
<1>2. /\ handler' = handler /\ plugin' = plugin /\ connected' = connected /\ overlap' = overlap
      /\ connecting' = connecting /\ fetching' = fetching /\ listened' = listened /\ pool' = pool
      /\ closing' = closing /\ awaited' = awaited
  BY <1>1 DEF serverVars, listenVars, closeVars
<1>3. /\ i \in Tokens /\ p \in Pools /\ 0 \in 0..MaxRequests /\ pendingConnections[p][i] = r
  BY <1>0, <1>1, BoundIsNat DEF PromisesAgree, Types, Prepare
<1>5. Changed(pendingConnections', pendingConnections, p, i, 0)
  BY <1>0, <1>1, <1>3, TableChanged DEF Types
<1>6. \A q \in Requests : request[q] \in Prepare
  BY <1>0 DEF Types
<1>9. \A q \in R : q \in Requests /\ request[q].at \in {"making", "waiting"} /\ q \in PendingRequests
  BY <1>1 DEF WaitingFor, PendingRequests
<1>10. r \in R /\ R \subseteq Requests /\ \A q \in Requests \ R : request[q].at = "waiting" => request[q].on # r
  BY <1>9 DEF WaitingFor
<1>11. \A q \in WaitingFor(r) : request[q].at = "waiting"
  BY DEF WaitingFor
<1>12. \A q \in R : q = r \/ q \in WaitingFor(r)
  OBVIOUS
<1> HIDE DEF R
<1>7. /\ \A q \in R : request'[q] = [request[q] EXCEPT !.at = "answered", !.answer = "F02"]
      /\ \A q \in Requests \ R : request'[q] = request[q]
      /\ request' = [q \in Requests |-> request'[q]]
  BY <1>1, <1>10 DEF AnswerUnreachable
<1>8. \A q \in R : Moved(q, "answered", "F02")
  <2>1. TAKE q \in R
  <2>2. request[q] \in Prepare /\ request'[q] = [request[q] EXCEPT !.at = "answered", !.answer = "F02"]
    BY <1>6, <1>7, <1>9
  <2> QED BY <2>2 DEF Prepare, Moved
<1>13. Types'
  <2>1. \A q \in Requests : request'[q] \in Prepare
    BY <1>6, <1>7, <1>8 DEF Moved
  <2>2. request' \in [Requests -> Prepare]
    BY <2>1, <1>7
  <2>3. ServerKinds'
    BY <1>0, <1>2 DEF Types, ServerKinds
  <2> QED BY <1>0, <1>1, <1>5, <2>2, <2>3 DEF Types, Changed
<1>14. AnswersAgree'
  BY <1>0, <1>7, <1>8 DEF AnswersAgree, Moved
<1>15. InOrder' /\ InPools' /\ PendingRequests' \subseteq PendingRequests
  <2>1. \A q \in Requests \ R : request[q].at = "waiting" => request[q].on \notin R
    <3>1. \A q \in Requests : request[q].at = "waiting" => request[request[q].on].at = "making"
      BY <1>0 DEF InOrder
    <3> QED BY <3>1, <1>10, <1>11, <1>12
  <2>2. \A q \in Connections : connection'[q].pool <= pool
    BY <1>0, <1>1 DEF InPools
  <2>3. \A q \in R : \E to \in {"made", "handling", "answered"} : \E answer : Moved(q, to, answer)
    BY <1>8
  <2>4. \A q \in R : request[q].at \notin {"none", "answered"}
    BY <1>9
  <2> QED BY <1>1, <1>2, <1>7, <1>10, <2>1, <2>2, <2>3, <2>4, MovesInOrder
<1>16. PromisesAgree'
  <2>1. ASSUME NEW q \in Pools, NEW k \in Tokens, pendingConnections'[q][k] # 0
        PROVE  /\ activeConnections'[q][k] = 0
               /\ request'[pendingConnections'[q][k]].at = "making"
               /\ request'[pendingConnections'[q][k]].id = k /\ request'[pendingConnections'[q][k]].pool = q
    <3>1. ~ (q = p /\ k = i) /\ pendingConnections'[q][k] = pendingConnections[q][k]
      BY <1>5, <2>1 DEF Changed
    <3> DEFINE x == pendingConnections[q][k]
    <3>2. /\ activeConnections[q][k] = 0 /\ request[x].at = "making" /\ request[x].id = k /\ request[x].pool = q
          /\ x \in Requests
      BY <1>0, <2>1, <3>1, BoundIsNat DEF PromisesAgree, Types, Table, Requests
    <3>3. x \notin R
      <4>1. x # r
        BY <3>1, <3>2
      <4>2. x \notin WaitingFor(r)
        BY <3>2, <1>11
      <4> QED BY <4>1, <4>2, <1>12
    <3> HIDE DEF x
    <3>4. request'[x] = request[x]
      BY <1>7, <3>2, <3>3
    <3> QED BY <1>1, <3>1, <3>2, <3>4 DEF x
  <2>2. ASSUME NEW q \in Requests, request'[q].at = "making"
        PROVE  request'[q].pool \in Pools /\ pendingConnections'[request'[q].pool][request'[q].id] = q
    <3>1. q \notin R
      BY <1>8, <2>2 DEF Moved
    <3>2. /\ request'[q] = request[q] /\ request[q].pool \in Pools /\ request[q].id \in Tokens
          /\ pendingConnections[request[q].pool][request[q].id] = q /\ q # r
      BY <1>0, <1>6, <1>7, <1>10, <2>2, <3>1 DEF PromisesAgree, Prepare
    <3>3. ~ (request[q].pool = p /\ request[q].id = i)
      BY <3>2, <1>3
    <3> QED BY <3>2, <3>3, <1>5 DEF Changed
  <2> QED BY <2>1, <2>2 DEF PromisesAgree
<1>17. Open' = Open /\ PoolAgrees'
  BY <1>0, <1>1 DEF PoolAgrees, Open
<1>18. ClosingInv'
  BY <1>0, <1>1, <1>2, <1>15, <1>17 DEF ClosingInv, CloseUnderWay, OpenInPool
<1> QED BY <1>13, <1>14, <1>15, <1>16, <1>17, <1>18 DEF IInv

\* A prepare that is in progress stays there or is answered.
LEMMA ProgressKeeps ==
  ASSUME IInv, NEW r \in Requests, NextTick(r) \/ handlePrepare(r)
  PROVE  IInv'
<1>0. Types /\ AnswersAgree /\ PromisesAgree /\ PoolAgrees /\ InOrder /\ InPools /\ ClosingInv
  BY DEF IInv
<1>1. /\ request[r].at \in {"made", "handling"} /\ request[r] \in Prepare
      /\ UNCHANGED serverVars /\ UNCHANGED poolVars /\ arrived' = arrived /\ connection' = connection
  BY <1>0 DEF NextTick, handlePrepare, Types
<1>2. /\ handler' = handler /\ plugin' = plugin /\ connected' = connected /\ overlap' = overlap
      /\ connecting' = connecting /\ fetching' = fetching /\ listened' = listened /\ pool' = pool
      /\ closing' = closing /\ awaited' = awaited
      /\ activeConnections' = activeConnections /\ pendingConnections' = pendingConnections
  BY <1>1 DEF serverVars, listenVars, closeVars, poolVars
<1>3. /\ \A q \in Requests : q # r => request'[q] = request[q]
      /\ request' = [q \in Requests |-> request'[q]]
  BY <1>0 DEF NextTick, handlePrepare, Types
<1>4. \/ Moved(r, "handling", "none")
      \/ Moved(r, "answered", "F06") \/ Moved(r, "answered", "connection")
  <2>1. CASE NextTick(r)
    <3>1. request[r].at = "made" /\ request'[r] = [request[r] EXCEPT !.at = "handling"]
      BY <1>0, <2>1 DEF NextTick, Types
    <3>2. request[r].answer = "none"
      BY <1>0, <3>1 DEF AnswersAgree
    <3> QED BY <1>1, <3>1, <3>2 DEF Prepare, Moved
  <2>2. CASE handlePrepare(r)
    <3> DEFINE code == AnswerOf(r)
    <3>1. code \in {"F06", "connection"}
      BY DEF AnswerOf
    <3>2. request'[r] = [request[r] EXCEPT !.at = "answered", !.answer = code]
      BY <1>0, <2>2 DEF handlePrepare, Types
    <3> HIDE DEF code
    <3> QED BY <1>1, <3>1, <3>2 DEF Prepare, Moved
  <2> QED BY <1>1, <2>1, <2>2
<1>5. PICK to \in {"handling", "answered"}, answer \in {"none", "F06", "connection"} :
        Moved(r, to, answer) /\ (answer # "none" <=> to = "answered")
  BY <1>4
<1>6. Types'
  <2>1. \A q \in Requests : request'[q] \in Prepare
    BY <1>0, <1>3, <1>5 DEF Types, Moved
  <2>2. request' \in [Requests -> Prepare]
    BY <2>1, <1>3
  <2>3. ServerKinds'
    BY <1>0, <1>2 DEF Types, ServerKinds
  <2> QED BY <1>0, <1>1, <1>2, <2>2, <2>3 DEF Types
<1>7. AnswersAgree'
  BY <1>0, <1>3, <1>5 DEF AnswersAgree, Moved
<1>8. InOrder' /\ InPools' /\ PendingRequests' \subseteq PendingRequests
  <2> DEFINE R == {r}
  <2>1. R \subseteq Requests /\ \A q \in Requests \ R : request'[q] = request[q]
    BY <1>3
  <2>2. \A q \in R : \E k \in {"made", "handling", "answered"} : \E x : Moved(q, k, x)
    BY <1>5
  <2>3. \A q \in R : request[q].at \notin {"none", "answered"}
    BY <1>1
  <2>4. \A q \in Requests \ R : request[q].at = "waiting" => request[q].on \notin R
    BY <1>0, <1>1 DEF InOrder
  <2>5. \A q \in Requests : connection'[q] = connection[q] \/ q \in R
    BY <1>1
  <2>6. \A q \in Connections : connection'[q].pool <= pool
    BY <1>0, <1>1 DEF InPools
  <2> HIDE DEF R
  <2> QED BY <1>1, <1>2, <2>1, <2>2, <2>3, <2>4, <2>5, <2>6, MovesInOrder
<1>9. PromisesAgree'
  <2>1. \A q \in Requests : request[q].at = "making" \/ request'[q].at = "making" => q # r
    BY <1>1, <1>5 DEF Moved
  <2>2. \A p \in Pools, k \in Tokens : pendingConnections[p][k] # 0 =>
          pendingConnections[p][k] \in Requests /\ pendingConnections[p][k] # r
    BY <1>0, <1>1, BoundIsNat DEF Types, Table, Requests, PromisesAgree
  <2> QED BY <1>0, <1>2, <1>3, <2>1, <2>2 DEF PromisesAgree
<1>10. PoolAgrees' /\ Open' = Open
  BY <1>0, <1>1, <1>2 DEF PoolAgrees, Open
<1>11. ClosingInv'
  BY <1>0, <1>1, <1>2, <1>8, <1>10 DEF ClosingInv, CloseUnderWay, OpenInPool
<1> QED BY <1>6, <1>7, <1>8, <1>9, <1>10, <1>11 DEF IInv
-----------------------------------------------------------------------------
(* Connections and the server.                                              *)

\* What is said of prepares stays as it is while they do, and the promises with them.
LEMMA PreparesUntouched ==
  ASSUME IInv, UNCHANGED <<request, arrived>>
  PROVE  AnswersAgree' /\ PendingRequests' = PendingRequests /\ (UNCHANGED poolVars => PromisesAgree')
BY DEF IInv, AnswersAgree, PendingRequests, PromisesAgree, poolVars

\* A connection begins to close.
LEMMA BeginCloseKeeps ==
  ASSUME IInv, NEW c \in Connections, BeginClose(c)
  PROVE  IInv'
<1>0. Types /\ PoolAgrees /\ InOrder /\ InPools /\ ClosingInv
  BY DEF IInv
<1>1. /\ UNCHANGED <<request, arrived>> /\ UNCHANGED poolVars /\ UNCHANGED serverVars
      /\ AnswersAgree' /\ PendingRequests' = PendingRequests /\ PromisesAgree'
  BY PreparesUntouched DEF BeginClose
<1>2. /\ handler' = handler /\ plugin' = plugin /\ connected' = connected /\ overlap' = overlap
      /\ connecting' = connecting /\ fetching' = fetching /\ listened' = listened /\ pool' = pool
      /\ closing' = closing /\ awaited' = awaited
      /\ activeConnections' = activeConnections /\ pendingConnections' = pendingConnections
  BY <1>1 DEF serverVars, listenVars, closeVars, poolVars
<1>3. /\ connection[c].state = "open" /\ connection' = [q \in Connections |-> connection'[q]]
      /\ \A q \in Connections : /\ connection'[q] \in Made
                                /\ connection'[q].id = connection[q].id
                                /\ connection'[q].pool = connection[q].pool
                                /\ connection'[q].state = IF q = c THEN "closing" ELSE connection[q].state
  BY <1>0 DEF BeginClose, Types, Made
<1>4. Open' = Open
  BY <1>3 DEF Open
<1>5. Types'
  <2>1. ServerKinds'
    BY <1>0, <1>2 DEF Types, ServerKinds
  <2>2. connection' \in [Connections -> Made]
    BY <1>3
  <2> QED BY <1>0, <1>1, <1>2, <2>1, <2>2 DEF Types
<1>6. PoolAgrees'
  <2>1. Open \subseteq Connections
    BY DEF Open
  <2> QED BY <1>0, <1>2, <1>3, <1>4, <2>1 DEF PoolAgrees
<1>7. InOrder'
  BY <1>0, <1>1, <1>3 DEF InOrder, Connections
<1>8. InPools'
  BY <1>0, <1>1, <1>2, <1>3 DEF InPools
<1>9. ClosingInv'
  <2>1. OpenInPool' = OpenInPool
    BY <1>2, <1>3, <1>4 DEF OpenInPool, Open
  <2> QED BY <1>0, <1>1, <1>2, <2>1 DEF ClosingInv, CloseUnderWay
<1> QED BY <1>1, <1>5, <1>6, <1>7, <1>8, <1>9 DEF IInv

\* A connection has closed: it was its pool's, which has no promise for its id.
LEMMA ClosedKeeps ==
  ASSUME IInv, NEW c \in Connections, Closed(c)
  PROVE  IInv'
<1> DEFINE i == connection[c].id
           p == connection[c].pool
<1>0. Types /\ PromisesAgree /\ PoolAgrees /\ InOrder /\ InPools /\ ClosingInv
  BY DEF IInv
<1>1. /\ UNCHANGED <<request, arrived>> /\ UNCHANGED serverVars /\ connection[c].state = "closing"
      /\ AnswersAgree' /\ PendingRequests' = PendingRequests
      /\ activeConnections' = [activeConnections EXCEPT ![p][i] = 0]
      /\ pendingConnections' = [pendingConnections EXCEPT ![p][i] = 0]
  BY PreparesUntouched DEF Closed
<1>2. /\ handler' = handler /\ plugin' = plugin /\ connected' = connected /\ overlap' = overlap
      /\ connecting' = connecting /\ fetching' = fetching /\ listened' = listened /\ pool' = pool
      /\ closing' = closing /\ awaited' = awaited
  BY <1>1 DEF serverVars, listenVars, closeVars
<1>3. /\ c \in Open /\ i \in Tokens /\ p \in Pools /\ activeConnections[p][i] = c /\ c # 0
      /\ pendingConnections[p][i] = 0 /\ 0 \in 0..MaxRequests
  <2>1. c \in Open /\ i \in Tokens /\ c # 0 /\ 0 \in 0..MaxRequests
    BY <1>0, <1>1, BoundIsNat DEF Open, Types, Made, Connections, Requests
  <2>2. p \in Pools /\ activeConnections[p][i] = c
    BY <1>0, <2>1 DEF PoolAgrees
  <2>3. pendingConnections[p][i] = 0
    BY <1>0, <2>1, <2>2 DEF PromisesAgree
  <2> QED BY <2>1, <2>2, <2>3
<1>4. /\ Changed(activeConnections', activeConnections, p, i, 0)
      /\ Changed(pendingConnections', pendingConnections, p, i, 0)
  BY <1>0, <1>1, <1>3, TableChanged DEF Types
<1>5. /\ connection' = [q \in Connections |-> connection'[q]]
      /\ \A q \in Connections : /\ connection'[q] \in Made
                                /\ connection'[q].id = connection[q].id
                                /\ connection'[q].pool = connection[q].pool
                                /\ connection'[q].state = IF q = c THEN "closed" ELSE connection[q].state
  BY <1>0 DEF Closed, Types, Made
<1>6. Open' = Open \ {c}
  BY <1>5 DEF Open
<1>7. Types'
  <2>1. ServerKinds'
    BY <1>0, <1>2 DEF Types, ServerKinds
  <2>2. connection' \in [Connections -> Made]
    BY <1>5
  <2> QED BY <1>0, <1>1, <1>4, <2>1, <2>2 DEF Types, Changed
<1>8. PromisesAgree'
  <2>1. \A q \in Pools, k \in Tokens : pendingConnections'[q][k] = pendingConnections[q][k]
    BY <1>3, <1>4 DEF Changed
  <2>2. \A q \in Pools, k \in Tokens : activeConnections[q][k] = 0 => activeConnections'[q][k] = 0
    BY <1>4 DEF Changed
  <2>3. \A r \in Requests : request[r].id \in Tokens
    BY <1>0 DEF Types, Prepare
  <2> QED BY <1>0, <1>1, <2>1, <2>2, <2>3 DEF PromisesAgree
<1>9. PoolAgrees'
  <2>1. ASSUME NEW d \in Open'
        PROVE  connection'[d].pool \in Pools /\ activeConnections'[connection'[d].pool][connection'[d].id] = d
    <3>1. /\ d \in Connections /\ connection'[d].pool = connection[d].pool /\ connection'[d].id = connection[d].id
          /\ connection[d].pool \in Pools /\ connection[d].id \in Tokens /\ d # c
          /\ activeConnections[connection[d].pool][connection[d].id] = d
      BY <1>0, <1>5, <1>6 DEF PoolAgrees, Open, Types, Made
    <3>2. ~ (connection[d].pool = p /\ connection[d].id = i)
      BY <1>3, <3>1
    <3> QED BY <1>4, <3>1, <3>2 DEF Changed
  <2>2. ASSUME NEW q \in Pools, NEW k \in Tokens, activeConnections'[q][k] # 0
        PROVE  /\ activeConnections'[q][k] \in Open'
               /\ connection'[activeConnections'[q][k]].id = k /\ connection'[activeConnections'[q][k]].pool = q
    <3> DEFINE d == activeConnections[q][k]
    <3>1. activeConnections'[q][k] = d /\ ~ (q = p /\ k = i)
      BY <1>4, <2>2 DEF Changed
    <3>2. d \in Open /\ connection[d].id = k /\ connection[d].pool = q
      BY <1>0, <2>2, <3>1 DEF PoolAgrees
    <3>3. d # c /\ d \in Connections
      BY <3>1, <3>2 DEF Open
    <3> HIDE DEF d
    <3> QED BY <1>5, <1>6, <3>1, <3>2, <3>3
  <2> QED BY <2>1, <2>2 DEF PoolAgrees
<1>10. InOrder'
  BY <1>0, <1>1, <1>5, <1>3 DEF InOrder, Connections
<1>11. InPools'
  BY <1>0, <1>1, <1>2, <1>5 DEF InPools
<1>12. ClosingInv'
  <2>1. OpenInPool' \subseteq OpenInPool
    BY <1>2, <1>5, <1>6 DEF OpenInPool, Open
  <2> QED BY <1>0, <1>1, <1>2, <2>1 DEF ClosingInv, CloseUnderWay
<1> QED BY <1>1, <1>7, <1>8, <1>9, <1>10, <1>11, <1>12 DEF IInv

\* The pool is closed: the connections it has are all of its that are open.
LEMMA PoolCloseKeeps ==
  ASSUME IInv, PoolClose
  PROVE  IInv'
<1>0. Types /\ PoolAgrees /\ InOrder /\ InPools /\ ClosingInv
  BY DEF IInv
<1>1. /\ UNCHANGED <<request, arrived>> /\ UNCHANGED poolVars /\ closing = "requests" /\ pool # 0
      /\ awaited \cap PendingRequests = {} /\ awaited' = InPool /\ connection' = EndAll(InPool)
      /\ closing' = "connections"
      /\ handler' = handler /\ plugin' = plugin /\ connected' = connected /\ overlap' = overlap
      /\ connecting' = connecting /\ fetching' = fetching /\ listened' = listened /\ pool' = pool
  BY DEF PoolClose, listenVars
<1>2. AnswersAgree' /\ PendingRequests' = PendingRequests /\ PromisesAgree'
  BY <1>1, PreparesUntouched
<1>3. activeConnections' = activeConnections /\ pendingConnections' = pendingConnections
  BY <1>1 DEF poolVars
<1>4. pool \in Pools
  <2>1. pool \in Nat /\ connecting \in Nat /\ fetching \in Nat /\ listened \in Nat
        /\ pool + connecting + fetching <= listened /\ listened <= MaxListens
    BY <1>0 DEF Types, ServerKinds
  <2> QED BY <2>1, <1>1, BoundIsNat DEF Pools
<1>5. InPool \subseteq Open
  BY <1>0, <1>4 DEF InPool, PoolAgrees
<1>6. OpenInPool \subseteq InPool
  <2>1. ASSUME NEW c \in OpenInPool
        PROVE  c \in InPool
    <3>1. c \in Open /\ connection[c].pool = pool /\ connection[c].id \in Tokens /\ c # 0
      BY <1>0 DEF OpenInPool, Open, Types, Made, Connections, Requests
    <3>2. activeConnections[pool][connection[c].id] = c
      BY <1>0, <3>1 DEF PoolAgrees
    <3> QED BY <3>1, <3>2 DEF InPool
  <2> QED BY <2>1
<1>7. /\ connection' = [q \in Connections |-> connection'[q]]
      /\ \A q \in Connections : /\ connection'[q] \in Made
                                /\ connection'[q].id = connection[q].id
                                /\ connection'[q].pool = connection[q].pool
                                /\ connection'[q].state = IF q \in InPool THEN "closing" ELSE connection[q].state
  <2> HIDE DEF InPool
  <2> QED BY <1>0, <1>1 DEF EndAll, Types, Made
<1>8. Open' = Open
  BY <1>5, <1>7 DEF Open
<1>9. Types'
  <2>1. ServerKinds'
    BY <1>0, <1>1 DEF Types, ServerKinds
  <2>2. connection' \in [Connections -> Made]
    BY <1>7
  <2> QED BY <1>0, <1>1, <1>3, <2>1, <2>2 DEF Types
<1>10. PoolAgrees'
  <2>1. Open \subseteq Connections
    BY DEF Open
  <2> QED BY <1>0, <1>3, <1>7, <1>8, <2>1 DEF PoolAgrees
<1>11. InOrder'
  <2>1. \A c \in Connections : connection[c].state = "none" => c \notin InPool
    BY <1>5 DEF Open
  <2> QED BY <1>0, <1>1, <1>7, <2>1 DEF InOrder, Connections
<1>12. InPools'
  BY <1>0, <1>1, <1>7 DEF InPools
<1>13. ClosingInv'
  <2>1. OpenInPool' = OpenInPool
    BY <1>1, <1>7, <1>8 DEF OpenInPool, Open
  <2>2. ~ overlap => PendingRequests = {}
    <3>1. PendingRequests \subseteq awaited \/ overlap
      BY <1>0, <1>1 DEF ClosingInv
    <3> QED BY <1>1, <3>1
  <2> QED BY <1>0, <1>1, <1>2, <1>6, <2>1, <2>2 DEF ClosingInv, CloseUnderWay
<1> QED BY <1>2, <1>9, <1>10, <1>11, <1>12, <1>13 DEF IInv

\* What is left to show when prepares, connections and the tables stay.
LEMMA ServerOnly ==
  ASSUME IInv, UNCHANGED <<request, arrived, connection>>, UNCHANGED poolVars,
         ServerKinds', pool <= pool', ClosingInv'
  PROVE  IInv'
<1>1. AnswersAgree' /\ PromisesAgree'
  BY PreparesUntouched
<1>2. Types'
  BY DEF IInv, Types, poolVars
<1>3. PoolAgrees' /\ InOrder'
  BY DEF IInv, PoolAgrees, InOrder, Open, poolVars
<1>4. InPools'
  <2>1. pool \in Nat /\ pool' \in Nat
    BY DEF IInv, Types, ServerKinds
  <2>2. /\ \A r \in Requests : request[r].pool \in Int /\ request[r].pool <= pool
        /\ \A c \in Connections : connection[c].pool \in Int /\ connection[c].pool <= pool
    BY BoundIsNat DEF IInv, InPools, Types, Prepare, Made
  <2> QED BY <2>1, <2>2 DEF InPools
<1> QED BY <1>1, <1>2, <1>3, <1>4 DEF IInv

\* close() begins, fails or ends.
LEMMA closeKeeps ==
  ASSUME IInv, close \/ CloseRejects \/ Disconnect \/ Disconnected \/ PluginLost
  PROVE  IInv'
<1>0. Types /\ ClosingInv /\ ServerKinds
  BY DEF IInv, Types
<1>1. UNCHANGED <<request, arrived, connection>> /\ UNCHANGED poolVars /\ UNCHANGED listenVars
  BY DEF close, CloseRejects, Disconnect, Disconnected, PluginLost
<1>2. pool' = pool /\ connecting' = connecting /\ fetching' = fetching /\ listened' = listened
  BY <1>1 DEF listenVars
<1>3. PendingRequests' = PendingRequests /\ OpenInPool' = OpenInPool /\ Open' = Open
  BY <1>1, <1>2 DEF PendingRequests, OpenInPool, Open
<1>4. ServerKinds'
  BY <1>0, <1>2 DEF ServerKinds, close, CloseRejects, Disconnect, Disconnected, PluginLost, closeVars
<1>5. pool <= pool'
  BY <1>0, <1>2 DEF ServerKinds
<1>6. connecting \in Nat /\ fetching \in Nat
  BY <1>0 DEF ServerKinds
<1>7. ClosingInv'
  <2>1. CASE close
    <3>1. /\ handler' = "refuse" /\ closing' = "requests" /\ awaited' = PendingRequests
          /\ (~ overlap' => ~ overlap /\ connecting = 0 /\ fetching = 0)
      <4>1. ~ (connecting + fetching > 0) => connecting = 0 /\ fetching = 0
        BY <1>6
      <4>2. /\ handler' = "refuse" /\ closing' = "requests" /\ awaited' = PendingRequests
            /\ overlap' = (overlap \/ connecting + fetching > 0)
        BY <2>1 DEF close
      <4> QED BY <4>1, <4>2, Zenon
    <3> QED BY <1>0, <1>2, <1>3, <3>1 DEF ClosingInv
  <2>2. CASE CloseRejects
    BY <1>0, <1>2, <1>3, <2>2 DEF ClosingInv, CloseRejects, CloseUnderWay
  <2>3. CASE Disconnect
    <3>1. /\ closing = "connections" /\ \A c \in awaited : connection[c].state = "closed"
          /\ handler' = "none" /\ closing' = "plugin" /\ overlap' = overlap
      BY <2>3 DEF Disconnect
    <3>2. ~ overlap => PendingRequests = {} /\ OpenInPool = {}
      BY <1>0, <3>1 DEF ClosingInv, OpenInPool, Open
    <3> QED BY <1>0, <1>2, <1>3, <3>1, <3>2 DEF ClosingInv, CloseUnderWay
  <2>4. CASE Disconnected \/ PluginLost
    BY <1>0, <1>2, <1>3, <2>4 DEF ClosingInv, CloseUnderWay, Disconnected, PluginLost, closeVars
  <2> QED BY <2>1, <2>2, <2>3, <2>4
<1> QED BY <1>1, <1>4, <1>5, <1>7, ServerOnly

\* A call of listen() begins, goes on, fails or ends.
LEMMA listenKeeps ==
  ASSUME IInv, listen \/ PluginConnects \/ Listening \/ ListenFails
  PROVE  IInv'
<1>0. Types /\ ClosingInv /\ ServerKinds /\ InPools
  BY DEF IInv, Types
<1>1. UNCHANGED <<request, arrived, connection>> /\ UNCHANGED poolVars /\ UNCHANGED closeVars
  BY DEF listen, PluginConnects, Listening, ListenFails
<1>2. closing' = closing /\ awaited' = awaited
  BY <1>1 DEF closeVars
<1>3. /\ pool \in Nat /\ connecting \in Nat /\ fetching \in Nat /\ listened \in Nat
      /\ pool + connecting + fetching <= listened /\ listened <= MaxListens
  BY <1>0 DEF ServerKinds
<1>4. ServerKinds' /\ pool <= pool'
  <2>1. CASE listen
    BY <1>0, <1>1, <1>3, <2>1, BoundIsNat DEF listen, ServerKinds, closeVars
  <2>2. CASE PluginConnects
    BY <1>0, <1>1, <1>3, <2>2 DEF PluginConnects, ServerKinds, closeVars
  <2>3. CASE Listening
    BY <1>0, <1>1, <1>3, <2>3 DEF Listening, ServerKinds, closeVars
  <2>4. CASE ListenFails
    BY <1>0, <1>1, <1>3, <2>4 DEF ListenFails, ServerKinds, closeVars
  <2> QED BY <2>1, <2>2, <2>3, <2>4
<1>5. PendingRequests' = PendingRequests /\ Open' = Open
  BY <1>1 DEF PendingRequests, Open
<1>6. CASE listen
  <2>1. handler' = "handleData" /\ pool' = pool /\ (~ overlap' => ~ overlap /\ ~ CloseUnderWay)
    BY <1>6 DEF listen
  <2>2. ClosingInv'
    BY <1>0, <1>2, <2>1 DEF ClosingInv, CloseUnderWay
  <2> QED BY <1>1, <1>4, <2>2, ServerOnly
<1>7. CASE PluginConnects \/ Listening \/ ListenFails
  <2>1. /\ handler' = handler /\ overlap' = overlap
        /\ (connecting > 0 \/ fetching > 0)
    BY <1>7 DEF PluginConnects, Listening, ListenFails
  <2>2. ~ overlap => ~ CloseUnderWay /\ handler # "none"
    BY <1>0, <1>3, <2>1 DEF ClosingInv
  <2>3. ClosingInv'
    BY <1>2, <2>1, <2>2 DEF ClosingInv, CloseUnderWay
  <2> QED BY <1>1, <1>4, <2>3, ServerOnly
<1> QED BY <1>6, <1>7
-----------------------------------------------------------------------------
(* The theorems.                                                            *)

\* The invariant holds at first.
LEMMA InvInit == Init => IInv
<1> SUFFICES ASSUME Init PROVE IInv
  OBVIOUS
<1>1. /\ NoRequest \in Prepare /\ NoRequest.at = "none" /\ NoRequest.answer = "none" /\ NoRequest.pool = 0
      /\ NoConnection \in Made /\ NoConnection.state = "none" /\ NoConnection.pool = 0
  BY BoundIsNat DEF NoRequest, Prepare, NoConnection, Made, Tokens
<1>2. /\ \A r \in Requests : request[r] = NoRequest
      /\ \A c \in Connections : connection[c] = NoConnection
      /\ \A p \in Pools, i \in Tokens : activeConnections[p][i] = 0 /\ pendingConnections[p][i] = 0
  BY DEF Init
<1>3. Types
  <2>1. activeConnections \in Table /\ pendingConnections \in Table
    BY BoundIsNat DEF Init, Table
  <2>2. ServerKinds
    <3>1. /\ handler = "none" /\ plugin = FALSE /\ connected = FALSE /\ overlap = FALSE /\ closing = "no"
          /\ connecting = 0 /\ fetching = 0 /\ listened = 0 /\ pool = 0
      BY DEF Init
    <3>2. pool + connecting + fetching <= listened /\ listened <= MaxListens
      BY <3>1, BoundIsNat
    <3>3. {connecting, fetching, listened, pool} \subseteq Nat
      BY <3>1
    <3>4. plugin \in BOOLEAN /\ connected \in BOOLEAN /\ overlap \in BOOLEAN
      BY <3>1, Zenon
    <3>5. handler \in {"handleData", "refuse", "none"}
          /\ closing \in {"no", "requests", "connections", "plugin", "failed"}
      BY <3>1
    <3> QED BY <3>2, <3>3, <3>4, <3>5, Zenon DEF ServerKinds
  <2>3. request \in [Requests -> Prepare] /\ connection \in [Connections -> Made]
    BY <1>1 DEF Init
  <2>4. arrived \in 0..MaxRequests
    BY BoundIsNat DEF Init
  <2> QED BY <2>1, <2>2, <2>3, <2>4 DEF Types
<1>4. Open = {} /\ PendingRequests = {}
  BY <1>1, <1>2 DEF Open, PendingRequests
<1>5. AnswersAgree /\ PromisesAgree
  BY <1>1, <1>2 DEF AnswersAgree, PromisesAgree
<1>6. PoolAgrees /\ InOrder
  BY <1>1, <1>2, <1>4 DEF PoolAgrees, InOrder, Requests, Connections
<1>7. InPools
  BY <1>1, <1>2 DEF Init, InPools
<1>8. ClosingInv
  BY <1>4 DEF Init, ClosingInv, OpenInPool
<1> QED BY <1>3, <1>5, <1>6, <1>7, <1>8 DEF IInv

\* Every step keeps it.
LEMMA InvStep == IInv /\ [Next]_vars => IInv'
<1> SUFFICES ASSUME IInv, [Next]_vars PROVE IInv'
  OBVIOUS
<1>1. CASE UNCHANGED vars
  <2>1. /\ UNCHANGED <<request, arrived, connection>> /\ UNCHANGED poolVars
        /\ handler' = handler /\ plugin' = plugin /\ connected' = connected /\ overlap' = overlap
        /\ connecting' = connecting /\ fetching' = fetching /\ listened' = listened /\ pool' = pool
        /\ closing' = closing /\ awaited' = awaited
    BY <1>1 DEF vars, serverVars, listenVars, closeVars
  <2>2. ServerKinds' /\ pool <= pool'
    BY <2>1 DEF IInv, Types, ServerKinds
  <2>3. ClosingInv'
    BY <2>1 DEF IInv, ClosingInv, CloseUnderWay, PendingRequests, OpenInPool, Open
  <2> QED BY <2>1, <2>2, <2>3, ServerOnly
<1>2. CASE handleData \/ handleWithoutPool \/ Refuse
  BY <1>2, handleDataKeeps, RefuseKeeps
<1>3. CASE \E r \in Requests : getConnection(r) \/ Unreachable(r) \/ NextTick(r) \/ handlePrepare(r)
  BY <1>3, getConnectionKeeps, UnreachableKeeps, ProgressKeeps
<1>4. CASE \E c \in Connections : BeginClose(c) \/ Closed(c)
  BY <1>4, BeginCloseKeeps, ClosedKeeps
<1>5. CASE PoolClose \/ close \/ CloseRejects \/ Disconnect \/ Disconnected \/ PluginLost
  BY <1>5, PoolCloseKeeps, closeKeeps
<1>6. CASE listen \/ PluginConnects \/ Listening \/ ListenFails
  BY <1>6, listenKeeps
<1> QED BY <1>1, <1>2, <1>3, <1>4, <1>5, <1>6 DEF Next, Progress

LEMMA SpecInv == Spec => []IInv
BY InvInit, InvStep, PTL DEF Spec

\* The variables keep their types, whatever prepares come and however listen() and close()
\* overlap.
THEOREM ServerTypes == Spec => []TypeOK
<1>1. IInv => TypeOK
  <2> SUFFICES ASSUME IInv PROVE TypeOK
    OBVIOUS
  <2>0. Types /\ AnswersAgree /\ PromisesAgree /\ PoolAgrees /\ InPools /\ ServerKinds
    BY DEF IInv, Types
  <2>1. ASSUME NEW p \in Pools, NEW i \in Tokens
        PROVE  /\ activeConnections[p][i] # 0 => pendingConnections[p][i] = 0 /\ p <= pool
               /\ pendingConnections[p][i] # 0 => p <= pool
    <3>1. activeConnections[p][i] # 0 => p <= pool
      <4> DEFINE c == activeConnections[p][i]
      <4>1. c # 0 => c \in Open /\ connection[c].pool = p
        BY <2>0 DEF PoolAgrees
      <4>2. \A d \in Open : connection[d].pool <= pool
        BY <2>0 DEF InPools, Open
      <4> HIDE DEF c
      <4> QED BY <4>1, <4>2 DEF c
    <3>2. pendingConnections[p][i] # 0 => p <= pool
      <4> DEFINE r == pendingConnections[p][i]
      <4>1. r # 0 => r \in Requests /\ request[r].pool = p
        BY <2>0, BoundIsNat DEF PromisesAgree, Types, Table, Requests
      <4> HIDE DEF r
      <4> QED BY <2>0, <4>1 DEF InPools, r
    <3> QED BY <2>0, <3>1, <3>2 DEF PromisesAgree
  <2> QED BY <2>0, <2>1 DEF ServerKinds, AnswersAgree, TypeOK
<1> QED BY <1>1, SpecInv, PTL

\* However many prepares of one id arrive together, while its connection is made or closes and
\* while the server listens again, the id has one open connection in a pool, and the pool has it.
THEOREM OneConnectionPerToken == Spec => []OneConnection
<1>1. IInv => OneConnection
  BY DEF IInv, PoolAgrees, OneConnection
<1> QED BY <1>1, SpecInv, PTL

\* A server that has closed has left no connection of its last pool open and no prepare without
\* an answer.
THEOREM ClosedServerHasNothing == Spec => []NothingLeft
<1>1. IInv => NothingLeft
  BY DEF IInv, ClosingInv, OpenInPool, NothingLeft
<1> QED BY <1>1, SpecInv, PTL

\* A prepare that can be read is unreachable only for one of its id, still looked up, that cannot.
THEOREM UnreachableOnlyForCause == Spec => UnreachableForCause
<1> DEFINE A == \A r \in Requests : BecomesUnreachable(r) => request'[r].garbled \/ Condemned(r)
<1>1. ASSUME IInv, [Next]_vars
      PROVE  [A]_vars
  <2>0. Types /\ InOrder
    BY <1>1 DEF IInv
  <2>1. SUFFICES ASSUME Next, NEW r \in Requests, BecomesUnreachable(r)
                 PROVE  request'[r].garbled \/ Condemned(r)
    BY <1>1
  <2>2. request[r] \in Prepare /\ request[r].answer # "F02" /\ request'[r].answer = "F02"
    BY <2>0, <2>1 DEF Types, BecomesUnreachable
  <2>3. CASE \E q \in Requests : Unreachable(q)
    <3>1. PICK q \in Requests : Unreachable(q)
      BY <2>3
    <3>2. request[q].at = "making" /\ request[q].garbled /\ AnswerUnreachable({q} \cup WaitingFor(q))
      BY <3>1 DEF Unreachable
    <3>3. r \in {q} \cup WaitingFor(q)
      BY <2>2, <3>2 DEF AnswerUnreachable
    <3>4. request'[r] = [request[r] EXCEPT !.at = "answered", !.answer = "F02"]
      BY <3>2, <3>3 DEF AnswerUnreachable
    <3>5. request'[r].garbled = request[r].garbled
      BY <2>2, <3>4 DEF Prepare
    <3>6. CASE r = q
      BY <3>2, <3>5, <3>6
    <3>7. CASE r # q
      <4>1. request[r].at = "waiting" /\ request[r].on = q
        BY <3>3, <3>7 DEF WaitingFor
      <4>2. request[q].id = request[r].id /\ request[q].pool = request[r].pool
        BY <2>0, <4>1 DEF InOrder
      <4> QED BY <3>2, <3>3, <3>7, <4>2 DEF Condemned
    <3> QED BY <3>6, <3>7
  <2>4. CASE handleData
    <3>1. PICK i \in Tokens, garbled \in BOOLEAN :
            request' = [request EXCEPT ![arrived'] = [id |-> i, garbled |-> garbled, pool |-> pool,
                                                      at |-> Lookup(arrived', pool, i).at,
                                                      on |-> Lookup(arrived', pool, i).on,
                                                      answer |-> "none"]]
      BY <2>4 DEF handleData
    <3> QED BY <2>0, <2>2, <3>1 DEF Types
  <2>5. CASE handleWithoutPool \/ Refuse
    <3>1. PICK code \in {"F00", "T99"} : request' = [request EXCEPT ![arrived'] = Refused(code)]
      BY <2>5 DEF handleWithoutPool, Refuse
    <3>2. Refused(code).answer = code
      BY DEF Refused, NoRequest
    <3> QED BY <2>0, <2>2, <3>1, <3>2 DEF Types
  <2>6. CASE \E q \in Requests : getConnection(q)
    BY <2>0, <2>2, <2>6 DEF getConnection, Prepare, Types
  <2>7. CASE \E q \in Requests : NextTick(q) \/ handlePrepare(q)
    <3>1. PICK q \in Requests : \/ request' = [request EXCEPT ![q].at = "handling"]
                               \/ request' = [request EXCEPT ![q].at = "answered", ![q].answer = AnswerOf(q)]
      BY <2>7 DEF NextTick, handlePrepare
    <3>2. AnswerOf(q) # "F02"
      BY DEF AnswerOf
    <3> QED BY <2>0, <2>2, <3>1, <3>2 DEF Prepare, Types
  <2>8. CASE UNCHANGED request
    BY <2>2, <2>8
  <2>9. CASE \/ close \/ PluginLost \/ listen \/ PluginConnects \/ Listening \/ ListenFails
            \/ PoolClose \/ CloseRejects \/ Disconnect \/ Disconnected
            \/ \E c \in Connections : BeginClose(c) \/ Closed(c)
    BY <2>8, <2>9 DEF close, PluginLost, listen, PluginConnects, Listening, ListenFails, PoolClose,
       CloseRejects, Disconnect, Disconnected, BeginClose, Closed
  <2> QED BY <2>1, <2>3, <2>4, <2>5, <2>6, <2>7, <2>9 DEF Next, Progress
<1> QED BY <1>1, SpecInv, PTL DEF Spec, UnreachableForCause
-----------------------------------------------------------------------------
(* One end of a connection, in its own life.                                *)

Fields ==
  {"connecting", "knows", "closed", "remoteState", "done", "connected", "sending", "loop",
   "request", "streams", "owing", "endedByPeer", "queued", "wake", "runs", "idle",
   "errors", "ends", "closes"}

RunFields == {"id", "method", "by", "at", "waits"}

\* The streams that a run of end() or destroy() may find open: those it waits for.
MayFindOpen(r) ==
  IF r.method = "end" /\ r.at \in {"loop", "streams", "rejected"} THEN r.waits ELSE {}

\* A ConnectionClose frame is under way.
Telling(c) ==
  \/ \E r \in c.runs : r.at = "telling"
  \/ c.loop = "waiting" /\ c.request.close

\* The kinds of values that matter.
EndTypes(c) ==
  /\ DOMAIN c = Fields /\ DOMAIN c.streams = Streams
  /\ c.closes \in Nat
  /\ \A r \in c.runs : DOMAIN r = RunFields /\ r.method \in {"end", "destroy"}

\* An end has the streams open that its runs wait for, and those that came late.
StreamsWaitedFor(c, new) ==
  /\ \A r \in c.runs : OpenStreams(c) \ new \subseteq MayFindOpen(r)
  /\ c.closes > 0 => c.done /\ OpenStreams(c) \subseteq new

\* An end whose peer knows nothing yet: it is over, or a run of destroy() has come to wait for
\* the streams, only when the peer is being told.
QuietlyClosed(c) ==
  /\ c.remoteState = "Closed" \/ c.closes > 0 => Telling(c)
  /\ \A r \in c.runs : /\ r.at # "told"
                       /\ r.method = "destroy" /\ r.at \in {"loop", "streams"} => Telling(c)

\* All of it for an end, given its late streams and whether it is known already what became of
\* a ConnectionClose frame.
Sound(c, new, known) ==
  EndTypes(c) /\ StreamsWaitedFor(c, new) /\ (known \/ QuietlyClosed(c))

Known == frames > 0 \/ heard # {}

LifeInv ==
  /\ frames \in Nat
  /\ Sound(conn, late, Known)

\* The steps that leave runs, streams and counters alone.
LEMMA SameIsSound ==
  ASSUME NEW c, NEW d, NEW new, NEW known \in BOOLEAN, Sound(c, new, known),
         DOMAIN d = Fields, d.streams = c.streams, d.runs = c.runs, d.closes = c.closes,
         c.done => d.done,
         known \/ ((d.remoteState = "Closed" => c.remoteState = "Closed" \/ Telling(d))
                   /\ (Telling(c) => Telling(d)))
  PROVE  Sound(d, new, known)
<1>1. EndTypes(d)
  BY DEF Sound, EndTypes
<1>2. StreamsWaitedFor(d, new)
  BY DEF Sound, StreamsWaitedFor, OpenStreams
<1>3. known \/ QuietlyClosed(d)
  BY DEF Sound, QuietlyClosed
<1> QED BY <1>1, <1>2, <1>3 DEF Sound

\* What is sound with fewer late streams, or without any part of others, stays so.
LEMMA MoreIsSound ==
  ASSUME NEW c, NEW new, NEW more, NEW known \in BOOLEAN, NEW k \in BOOLEAN,
         Sound(c, new, known), new \subseteq more, known => k
  PROVE  Sound(c, more, k)
BY DEF Sound, StreamsWaitedFor

\* Streams that close, with the other changes of a step that leaves the runs alone.
LEMMA FewerOpenIsSound ==
  ASSUME NEW c, NEW d, NEW new, NEW known \in BOOLEAN, Sound(c, new, known),
         DOMAIN d = Fields, DOMAIN d.streams = Streams,
         OpenStreams(d) \subseteq OpenStreams(c),
         d.runs = c.runs, d.closes = c.closes, c.done => d.done,
         known \/ ((d.remoteState = "Closed" => c.remoteState = "Closed" \/ Telling(d))
                   /\ (Telling(c) => Telling(d)))
  PROVE  Sound(d, new, known)
<1>1. EndTypes(d)
  BY DEF Sound, EndTypes
<1>2. StreamsWaitedFor(d, new)
  BY DEF Sound, StreamsWaitedFor
<1>3. known \/ QuietlyClosed(d)
  BY DEF Sound, QuietlyClosed
<1> QED BY <1>1, <1>2, <1>3 DEF Sound

\* The loop has finished: the runs that waited for it wait for their streams.
LEMMA LoopFinishedSound ==
  ASSUME NEW c, NEW new, NEW known \in BOOLEAN, Sound(c, new, known)
  PROVE  /\ Sound(LoopFinished(c), new, known)
         /\ LoopFinished(c).errors = c.errors
<1> DEFINE d == LoopFinished(c)
           move(r) == IF r.at = "loop" THEN [r EXCEPT !.at = "streams"] ELSE r
<1>1. d = [c EXCEPT !.runs = {move(r) : r \in c.runs}]
  BY DEF LoopFinished, MoveAll
<1>2. DOMAIN c = Fields /\ \A r \in c.runs : DOMAIN r = RunFields /\ r.method \in {"end", "destroy"}
  BY DEF Sound, EndTypes
<1>3. /\ DOMAIN d = Fields /\ d.runs = {move(r) : r \in c.runs}
      /\ d.streams = c.streams /\ d.closes = c.closes /\ d.done = c.done /\ d.errors = c.errors
      /\ d.remoteState = c.remoteState /\ d.loop = c.loop /\ d.request = c.request
  BY <1>1, <1>2 DEF Fields
<1>4. \A r \in c.runs :
        /\ DOMAIN move(r) = RunFields /\ move(r).method = r.method /\ move(r).waits = r.waits
        /\ move(r).at = IF r.at = "loop" THEN "streams" ELSE r.at
  BY <1>2 DEF RunFields
<1> HIDE DEF d, move
<1>5. EndTypes(d)
  BY <1>2, <1>3, <1>4 DEF Sound, EndTypes
<1>6. OpenStreams(d) = OpenStreams(c)
  BY <1>3 DEF OpenStreams
<1>7. StreamsWaitedFor(d, new)
  <2>1. \A r \in c.runs : MayFindOpen(move(r)) = MayFindOpen(r)
    BY <1>4 DEF MayFindOpen
  <2> QED BY <1>3, <1>6, <2>1 DEF Sound, StreamsWaitedFor
<1>8. known \/ QuietlyClosed(d)
  <2>1. Telling(c) => Telling(d)
    BY <1>3, <1>4 DEF Telling
  <2> QED BY <1>3, <1>4, <2>1 DEF Sound, QuietlyClosed
<1> QED BY <1>3, <1>5, <1>7, <1>8 DEF Sound, d

LEMMA StartSound ==
  ASSUME NEW c, NEW new, NEW known \in BOOLEAN, Sound(c, new, known)
  PROVE  /\ Sound(startSendLoop(c), new, known)
         /\ startSendLoop(c).errors = c.errors
<1> DEFINE d == startSendLoop(c)
<1>1. DOMAIN c = Fields
  BY DEF Sound, EndTypes
<1>2. CASE c.loop # "idle"
  <2>1. d = [c EXCEPT !.sending = TRUE]
    BY <1>2 DEF startSendLoop
  <2>2. /\ DOMAIN d = Fields /\ d.streams = c.streams /\ d.runs = c.runs /\ d.closes = c.closes
        /\ d.done = c.done /\ d.remoteState = c.remoteState /\ d.errors = c.errors
        /\ d.loop = c.loop /\ d.request = c.request
    BY <1>1, <2>1 DEF Fields
  <2>3. Telling(c) => Telling(d)
    BY <2>2 DEF Telling
  <2> QED BY <2>2, <2>3, SameIsSound
<1>3. CASE c.loop = "idle" /\ (c.remoteState = "Closed" \/ ~c.knows)
  <2>1. d = LoopFinished(c)
    BY <1>3 DEF startSendLoop
  <2> QED BY <2>1, LoopFinishedSound
<1>4. CASE c.loop = "idle" /\ ~ (c.remoteState = "Closed" \/ ~c.knows)
  <2>1. d = [c EXCEPT !.sending = TRUE, !.loop = IF c.connected THEN "next" ELSE "probing"]
    BY <1>4 DEF startSendLoop
  <2>2. /\ DOMAIN d = Fields /\ d.streams = c.streams /\ d.runs = c.runs /\ d.closes = c.closes
        /\ d.done = c.done /\ d.remoteState = c.remoteState /\ d.errors = c.errors
    BY <1>1, <2>1 DEF Fields
  <2>3. Telling(c) => Telling(d)
    BY <1>4, <2>2 DEF Telling
  <2> QED BY <2>2, <2>3, SameIsSound
<1> QED BY <1>2, <1>3, <1>4

\* end() finds the streams open that its run is to wait for.
LEMMA EndSound ==
  ASSUME NEW c, NEW new, NEW known \in BOOLEAN, NEW by, Sound(c, new, known)
  PROVE  /\ Sound(end(c, by), new, known)
         /\ end(c, by).errors = c.errors
<1> DEFINE waits == OpenStreams(c)
           run == Run(c, "end", by, "loop", waits)
           after(s) == IF s \in waits THEN Ending(c, s) ELSE c.streams[s]
           d == [c EXCEPT !.streams = [s \in Streams |-> after(s)], !.runs = c.runs \cup {run}]
<1>1. end(c, by) = startSendLoop(d)
  BY DEF end
<1>2. DOMAIN c = Fields
  BY DEF Sound, EndTypes
<1>3. /\ DOMAIN d = Fields /\ d.streams = [s \in Streams |-> after(s)]
      /\ d.runs = c.runs \cup {run} /\ d.closes = c.closes /\ d.done = c.done
      /\ d.errors = c.errors /\ d.remoteState = c.remoteState /\ d.loop = c.loop
      /\ d.request = c.request
  BY <1>2 DEF Fields
<1>4. /\ DOMAIN run = RunFields /\ run.method = "end" /\ run.at = "loop" /\ run.waits = waits
  BY DEF Run, RunFields
<1>5. OpenStreams(d) \subseteq waits
  BY <1>3 DEF OpenStreams
<1> HIDE DEF run, d, waits, after
<1>6. EndTypes(d)
  BY <1>3, <1>4 DEF Sound, EndTypes
<1>7. StreamsWaitedFor(d, new)
  <2>1. MayFindOpen(run) = waits
    BY <1>4 DEF MayFindOpen
  <2> QED BY <1>3, <1>5, <2>1 DEF Sound, StreamsWaitedFor, waits
<1>8. known \/ QuietlyClosed(d)
  <2>1. Telling(c) => Telling(d)
    BY <1>3 DEF Telling
  <2> QED BY <1>3, <1>4, <2>1 DEF Sound, QuietlyClosed
<1>9. Sound(d, new, known)
  BY <1>6, <1>7, <1>8 DEF Sound
<1> QED BY <1>1, <1>3, <1>9, StartSound

\* destroy() leaves no stream open.
LEMMA KillSound ==
  ASSUME NEW c, NEW new, NEW known \in BOOLEAN, Sound(c, new, known)
  PROVE  /\ Sound(Kill(c), new, known)
         /\ Kill(c).errors = c.errors
<1> DEFINE run == Run(c, "destroy", "any",
                           IF c.remoteState = "Closed" THEN "streams" ELSE "telling",
                           Records(c))
           after(s) == IF s \in Records(c) THEN "closing" ELSE c.streams[s]
           d == [c EXCEPT !.streams = [s \in Streams |-> after(s)], !.runs = c.runs \cup {run}]
<1>1. Kill(c) = d
  BY DEF Kill
<1>2. DOMAIN c = Fields
  BY DEF Sound, EndTypes
<1>3. /\ DOMAIN d = Fields /\ d.streams = [s \in Streams |-> after(s)]
      /\ d.runs = c.runs \cup {run} /\ d.closes = c.closes /\ d.done = c.done
      /\ d.errors = c.errors /\ d.remoteState = c.remoteState /\ d.loop = c.loop
      /\ d.request = c.request
  BY <1>2 DEF Fields
<1>4. /\ DOMAIN run = RunFields /\ run.method = "destroy"
      /\ run.at = IF c.remoteState = "Closed" THEN "streams" ELSE "telling"
  BY DEF Run, RunFields
<1>5. OpenStreams(d) = {}
  BY <1>3 DEF OpenStreams, Records
<1> HIDE DEF run, d, after
<1>6. EndTypes(d)
  BY <1>3, <1>4 DEF Sound, EndTypes
<1>7. StreamsWaitedFor(d, new)
  BY <1>3, <1>5 DEF Sound, StreamsWaitedFor
<1>8. known \/ QuietlyClosed(d)
  <2>1. Telling(c) => Telling(d)
    BY <1>3 DEF Telling
  <2>2. c.remoteState = "Closed" \/ Telling(d)
    BY <1>3, <1>4 DEF Telling
  <2> QED BY <1>3, <1>4, <2>1, <2>2 DEF Sound, QuietlyClosed
<1> QED BY <1>1, <1>3, <1>6, <1>7, <1>8 DEF Sound

\* The runs that an error rejects wait for the streams they waited for.
LEMMA EmitErrorSound ==
  ASSUME NEW c, NEW new, NEW known \in BOOLEAN, Sound(c, new, known)
  PROVE  Sound(EmitError(c), new, known)
<1> DEFINE d == EmitError(c)
           kept == {q \in c.runs : ~(q.at = "loop" /\ q.by = "app")}
           move(r) == IF r.at = "loop" THEN [r EXCEPT !.at = "rejected"] ELSE r
<1>1. DOMAIN c = Fields /\ \A r \in c.runs : DOMAIN r = RunFields /\ r.method \in {"end", "destroy"}
  BY DEF Sound, EndTypes
<1>2. /\ DOMAIN d = Fields /\ d.runs = {move(r) : r \in kept}
      /\ d.streams = c.streams /\ d.closes = c.closes /\ (c.done => d.done)
      /\ d.remoteState = c.remoteState /\ d.loop = c.loop /\ d.request = c.request
  BY <1>1 DEF EmitError, Fields
<1>3. \A r \in c.runs :
        /\ DOMAIN move(r) = RunFields /\ move(r).method = r.method /\ move(r).waits = r.waits
        /\ move(r).at = IF r.at = "loop" THEN "rejected" ELSE r.at
  BY <1>1 DEF RunFields
<1>4. kept \subseteq c.runs /\ \A r \in c.runs : r.at = "telling" => r \in kept
  OBVIOUS
<1> HIDE DEF d, move, kept
<1>5. EndTypes(d)
  BY <1>1, <1>2, <1>3, <1>4 DEF Sound, EndTypes
<1>6. StreamsWaitedFor(d, new)
  <2>1. OpenStreams(d) = OpenStreams(c)
    BY <1>2 DEF OpenStreams
  <2>2. \A r \in c.runs : MayFindOpen(move(r)) = MayFindOpen(r)
    BY <1>3 DEF MayFindOpen
  <2> QED BY <1>2, <1>4, <2>1, <2>2 DEF Sound, StreamsWaitedFor
<1>7. known \/ QuietlyClosed(d)
  <2>1. Telling(c) => Telling(d)
    BY <1>2, <1>3, <1>4 DEF Telling
  <2> QED BY <1>2, <1>3, <1>4, <2>1 DEF Sound, QuietlyClosed
<1> QED BY <1>5, <1>6, <1>7 DEF Sound, d

\* destroy() of an end that is done changes nothing, so that 'error' is not emitted then.
LEMMA DestroySound ==
  ASSUME NEW c, NEW new, NEW known \in BOOLEAN, NEW error \in BOOLEAN, Sound(c, new, known)
  PROVE  /\ Sound(destroy(c, error), new, known)
         /\ c.done => destroy(c, error).errors = c.errors
<1>1. CASE c.done
  <2>1. destroy(c, error) = c
    BY <1>1 DEF destroy
  <2> QED BY <2>1 DEF Sound
<1>2. CASE ~c.done /\ error
  <2>1. destroy(c, error) = Kill(EmitError(c))
    BY <1>2 DEF destroy
  <2>2. Sound(EmitError(c), new, known)
    BY EmitErrorSound
  <2> QED BY <1>2, <2>1, <2>2, KillSound
<1>3. CASE ~c.done /\ ~error
  <2>1. destroy(c, error) = Kill(c)
    BY <1>3 DEF destroy
  <2> QED BY <1>3, <2>1, KillSound
<1> QED BY <1>1, <1>2, <1>3

\* To connect, or to learn the peer's account, leaves the runs and the streams alone.
LEMMA ConnectSound ==
  ASSUME NEW c, NEW new, NEW known \in BOOLEAN, Sound(c, new, known)
  PROVE  /\ Sound(Connect(c), new, known)
         /\ Connect(c).errors = c.errors
         /\ Connect(c).loop = c.loop
<1> DEFINE d == Connect(c)
<1>1. DOMAIN c = Fields
  BY DEF Sound, EndTypes
<1>2. /\ DOMAIN d = Fields /\ d.streams = c.streams /\ d.runs = c.runs /\ d.closes = c.closes
      /\ d.done = c.done /\ d.remoteState = c.remoteState /\ d.errors = c.errors
      /\ d.loop = c.loop /\ d.request = c.request
  BY <1>1 DEF Connect, Fields
<1>3. Telling(c) => Telling(d)
  BY <1>2 DEF Telling
<1> QED BY <1>2, <1>3, SameIsSound

LEMMA IntroducedSound ==
  ASSUME NEW c, NEW new, NEW known \in BOOLEAN, Sound(c, new, known)
  PROVE  /\ Sound(Introduced(c), new, known)
         /\ Introduced(c).errors = c.errors
<1> DEFINE d == [c EXCEPT !.knows = TRUE, !.closed = FALSE]
<1>1. DOMAIN c = Fields
  BY DEF Sound, EndTypes
<1>2. /\ DOMAIN d = Fields /\ d.streams = c.streams /\ d.runs = c.runs /\ d.closes = c.closes
      /\ d.done = c.done /\ d.remoteState = c.remoteState /\ d.errors = c.errors
      /\ d.loop = c.loop /\ d.request = c.request
  BY <1>1 DEF Fields
<1>3. Telling(c) => Telling(d)
  BY <1>2 DEF Telling
<1>4. Introduced(c) = IF c.knows THEN c ELSE Connect(d)
  BY DEF Introduced
<1> HIDE DEF d
<1>5. Sound(d, new, known)
  BY <1>2, <1>3, SameIsSound
<1> QED BY <1>2, <1>4, <1>5, ConnectSound

\* A ConnectionClose frame has come, which the peer knows of.
LEMMA ClosingSound ==
  ASSUME NEW c, NEW new, NEW known \in BOOLEAN, NEW error \in BOOLEAN, Sound(c, new, known)
  PROVE  /\ Sound(Closing(c, error), new, TRUE)
         /\ c.done => Closing(c, error).errors = c.errors
<1> DEFINE d == [c EXCEPT !.sending = FALSE, !.closed = TRUE, !.remoteState = "Closed"]
<1>1. DOMAIN c = Fields
  BY DEF Sound, EndTypes
<1>2. /\ DOMAIN d = Fields /\ d.streams = c.streams /\ d.runs = c.runs /\ d.closes = c.closes
      /\ d.done = c.done /\ d.errors = c.errors
  BY <1>1 DEF Fields
<1>3. Sound(c, new, TRUE)
  BY DEF Sound
<1>4. Sound(d, new, TRUE)
  BY <1>2, <1>3, SameIsSound
<1>5. Closing(c, error) = IF error THEN destroy(d, TRUE) ELSE end(d, "peer")
  BY DEF Closing
<1> HIDE DEF d
<1>6. CASE error
  BY <1>2, <1>4, <1>5, <1>6, DestroySound
<1>7. CASE ~error
  <2>1. Closing(c, error) = end(d, "peer")
    BY <1>5, <1>7
  <2>2. Sound(end(d, "peer"), new, TRUE) /\ end(d, "peer").errors = d.errors
    BY <1>4, EndSound
  <2> QED BY <1>2, <2>1, <2>2
<1> QED BY <1>6, <1>7

\* 'close' is emitted when what is open came late, and the peer is told by someone.
LEMMA CloseSound ==
  ASSUME NEW c, NEW new, NEW known \in BOOLEAN, NEW r \in c.runs, Sound(c, new, known),
         OpenStreams(c) \subseteq new,
         known \/ (Telling(c) /\ r.at # "telling")
  PROVE  /\ Sound(Close(c, r), new, known)
         /\ Close(c, r).errors = c.errors
<1> DEFINE d == Close(c, r)
<1>1. DOMAIN c = Fields
  BY DEF Sound, EndTypes
<1>2. /\ DOMAIN d = Fields /\ d.streams = c.streams /\ d.runs = c.runs \ {r}
      /\ d.closes = Count(c.closes) /\ d.done = TRUE /\ d.errors = c.errors
      /\ d.remoteState = c.remoteState /\ d.loop = c.loop /\ d.request = c.request
  BY <1>1 DEF Close, Fields
<1>3. d.closes \in Nat
  BY <1>2 DEF Count, Sound, EndTypes
<1> HIDE DEF d
<1>4. EndTypes(d)
  BY <1>2, <1>3 DEF Sound, EndTypes
<1>5. StreamsWaitedFor(d, new)
  <2>1. OpenStreams(d) = OpenStreams(c)
    BY <1>2 DEF OpenStreams
  <2> QED BY <1>2, <2>1 DEF Sound, StreamsWaitedFor
<1>6. known \/ QuietlyClosed(d)
  <2> SUFFICES ASSUME ~known PROVE QuietlyClosed(d)
    OBVIOUS
  <2>1. Telling(d)
    BY <1>2 DEF Telling
  <2> QED BY <1>2, <2>1 DEF Sound, QuietlyClosed
<1> QED BY <1>2, <1>4, <1>5, <1>6 DEF Sound, d

\* A run goes on, to tell the peer or in any way that the peer has a part in.
LEMMA MoveSound ==
  ASSUME NEW c, NEW new, NEW known \in BOOLEAN, NEW r \in c.runs, NEW at, Sound(c, new, known),
         OpenStreams(c) \subseteq new \/ r.method = "destroy" \/ r.at \in {"telling", "told"},
         known \/ at = "telling"
  PROVE  /\ Sound(Move(c, r, at), new, known)
         /\ Move(c, r, at).errors = c.errors
<1> DEFINE moved == [r EXCEPT !.at = at]
           d == [c EXCEPT !.runs = (c.runs \ {r}) \cup {moved}]
<1>0. Move(c, r, at) = d
  BY DEF Move
<1>1. DOMAIN c = Fields /\ DOMAIN r = RunFields /\ r.method \in {"end", "destroy"}
  BY DEF Sound, EndTypes
<1>2. /\ DOMAIN d = Fields /\ d.streams = c.streams /\ d.runs = (c.runs \ {r}) \cup {moved}
      /\ d.closes = c.closes /\ d.done = c.done /\ d.errors = c.errors
      /\ d.remoteState = c.remoteState /\ d.loop = c.loop /\ d.request = c.request
  BY <1>1 DEF Fields
<1>3. /\ DOMAIN moved = RunFields /\ moved.method = r.method /\ moved.waits = r.waits
      /\ moved.at = at
  BY <1>1 DEF RunFields
<1> HIDE DEF d, moved
<1>4. EndTypes(d)
  BY <1>1, <1>2, <1>3 DEF Sound, EndTypes
<1>5. StreamsWaitedFor(d, new)
  <2>1. OpenStreams(d) = OpenStreams(c)
    BY <1>2 DEF OpenStreams
  <2>2. OpenStreams(c) \ new \subseteq MayFindOpen(r)
    BY DEF Sound, StreamsWaitedFor
  <2>3. OpenStreams(c) \subseteq new
    BY <2>2 DEF MayFindOpen
  <2> QED BY <1>2, <2>1, <2>3 DEF Sound, StreamsWaitedFor
<1>6. known \/ QuietlyClosed(d)
  <2> SUFFICES ASSUME ~known PROVE QuietlyClosed(d)
    OBVIOUS
  <2>1. Telling(d)
    BY <1>2, <1>3 DEF Telling
  <2> QED BY <1>2, <1>3, <2>1 DEF Sound, QuietlyClosed
<1> QED BY <1>0, <1>2, <1>4, <1>5, <1>6 DEF Sound

\* The loop goes round, unless that takes a ConnectionClose frame off its way.
LEMMA AroundSound ==
  ASSUME NEW c, NEW new, NEW known \in BOOLEAN, Sound(c, new, known),
         known \/ ~ (c.loop = "waiting" /\ c.request.close)
  PROVE  /\ Sound(Around(c), new, known)
         /\ Around(c).errors = c.errors
<1>1. DOMAIN c = Fields
  BY DEF Sound, EndTypes
<1>2. CASE c.sending
  <2> DEFINE d == [c EXCEPT !.request = NoPacket,
                            !.loop = IF c.connected THEN "next" ELSE "probing"]
  <2>1. Around(c) = d
    BY <1>2 DEF Around
  <2>2. /\ DOMAIN d = Fields /\ d.streams = c.streams /\ d.runs = c.runs /\ d.closes = c.closes
        /\ d.done = c.done /\ d.remoteState = c.remoteState /\ d.errors = c.errors
    BY <1>1 DEF Fields
  <2>3. known \/ (Telling(c) => Telling(d))
    BY <2>2 DEF Telling
  <2> HIDE DEF d
  <2> QED BY <2>1, <2>2, <2>3, SameIsSound
<1>3. CASE ~c.sending
  <2> DEFINE after(s) == IF c.streams[s] = "ending" THEN "closing" ELSE c.streams[s]
             d == [c EXCEPT !.request = NoPacket, !.loop = "idle",
                            !.streams = [s \in Streams |-> after(s)]]
  <2>1. Around(c) = LoopFinished(d)
    BY <1>3 DEF Around
  <2>2. /\ DOMAIN d = Fields /\ d.streams = [s \in Streams |-> after(s)]
        /\ d.runs = c.runs /\ d.closes = c.closes
        /\ d.done = c.done /\ d.remoteState = c.remoteState /\ d.errors = c.errors
    BY <1>1 DEF Fields
  <2>3. OpenStreams(d) \subseteq OpenStreams(c)
    BY <2>2 DEF OpenStreams
  <2>4. known \/ (Telling(c) => Telling(d))
    BY <2>2 DEF Telling
  <2> HIDE DEF d, after
  <2>5. Sound(d, new, known)
    BY <2>2, <2>3, <2>4, FewerOpenIsSound
  <2> QED BY <2>1, <2>2, <2>5, LoopFinishedSound
<1> QED BY <1>2, <1>3

\* The loop is left by an error, unless that takes a ConnectionClose frame off its way.
LEMMA LoopFailsSound ==
  ASSUME NEW c, NEW new, NEW known \in BOOLEAN, Sound(c, new, known),
         known \/ ~ (c.loop = "waiting" /\ c.request.close)
  PROVE  /\ Sound(LoopFails(c), new, known)
         /\ c.done => LoopFails(c).errors = c.errors
<1> DEFINE d == [c EXCEPT !.request = NoPacket, !.loop = "idle"]
<1>1. DOMAIN c = Fields
  BY DEF Sound, EndTypes
<1>2. /\ DOMAIN d = Fields /\ d.streams = c.streams /\ d.runs = c.runs /\ d.closes = c.closes
      /\ d.done = c.done /\ d.errors = c.errors /\ d.remoteState = c.remoteState
  BY <1>1 DEF Fields
<1>3. known \/ (Telling(c) => Telling(d))
  BY <1>2 DEF Telling
<1>4. LoopFails(c) = destroy(d, TRUE)
  BY DEF LoopFails
<1> HIDE DEF d
<1>5. Sound(d, new, known)
  BY <1>2, <1>3, SameIsSound
<1> QED BY <1>2, <1>4, <1>5, DestroySound

\* What every step shows.
Kept == LifeInv' /\ (Ended => conn'.errors = conn.errors)

LEMMA LifeFacts ==
  ASSUME LifeInv
  PROVE  /\ Sound(conn, late, Known) /\ Known \in BOOLEAN
         /\ DOMAIN conn = Fields /\ DOMAIN conn.streams = Streams
         /\ Ended => conn.done
         /\ \A r \in conn.runs : OpenStreams(conn) \ late \subseteq MayFindOpen(r)
         /\ ~Known => QuietlyClosed(conn)
BY DEF LifeInv, Known, Sound, EndTypes, StreamsWaitedFor, Ended

LEMMA CallEndKeeps == ASSUME LifeInv, CallEnd PROVE Kept
<1>1. conn' = end(conn, "app") /\ UNCHANGED <<heard, late, frames>>
  BY DEF CallEnd
<1>2. Sound(conn', late, Known) /\ conn'.errors = conn.errors
  BY <1>1, LifeFacts, EndSound
<1> QED BY <1>1, <1>2 DEF Kept, LifeInv, Known

LEMMA CallDestroyKeeps == ASSUME LifeInv, CallDestroy PROVE Kept
<1>1. PICK error \in BOOLEAN : conn' = destroy(conn, error)
  BY DEF CallDestroy
<1>2. UNCHANGED <<heard, late, frames>>
  BY DEF CallDestroy
<1>3. Sound(conn', late, Known) /\ (conn.done => conn'.errors = conn.errors)
  BY <1>1, LifeFacts, DestroySound
<1> QED BY <1>2, <1>3, LifeFacts DEF Kept, LifeInv, Known

LEMMA OpenStreamKeeps == ASSUME LifeInv, NEW s \in Streams, OpenStream(s) PROVE Kept
<1> PICK owes \in SUBSET {s} :
      conn' = startSendLoop([conn EXCEPT !.streams[s] = "open", !.owing = @ \cup owes])
  BY DEF OpenStream
<1> DEFINE d == [conn EXCEPT !.streams[s] = "open", !.owing = @ \cup owes]
<1>1. /\ UNCHANGED <<heard, frames>>
      /\ late' = IF conn.runs = {} /\ ~Ended THEN late ELSE late \cup {s}
  BY DEF OpenStream, boundVars
<1>2. DOMAIN conn = Fields /\ DOMAIN conn.streams = Streams
  BY LifeFacts
<1>3. /\ DOMAIN d = Fields /\ d.streams = [conn.streams EXCEPT ![s] = "open"]
      /\ d.runs = conn.runs /\ d.closes = conn.closes
      /\ d.done = conn.done /\ d.remoteState = conn.remoteState /\ d.errors = conn.errors
      /\ d.loop = conn.loop /\ d.request = conn.request
  BY <1>2 DEF Fields
<1>4. conn' = startSendLoop(d)
  OBVIOUS
<1> HIDE DEF d
<1>5. EndTypes(d)
  BY <1>2, <1>3, LifeFacts DEF Sound, EndTypes
<1>6. StreamsWaitedFor(d, late')
  <2>1. OpenStreams(d) \subseteq OpenStreams(conn) \cup {s}
    BY <1>2, <1>3 DEF OpenStreams
  <2>2. d.closes > 0 => d.done /\ OpenStreams(d) \subseteq late'
    BY <1>1, <1>3, <2>1, LifeFacts DEF Ended, Sound, StreamsWaitedFor
  <2>3. \A r \in d.runs : OpenStreams(d) \ late' \subseteq MayFindOpen(r)
    BY <1>1, <1>3, <2>1, LifeFacts
  <2> QED BY <2>2, <2>3 DEF StreamsWaitedFor
<1>7. Known \/ QuietlyClosed(d)
  BY <1>3, LifeFacts DEF QuietlyClosed, Telling
<1>8. Sound(d, late', Known)
  BY <1>5, <1>6, <1>7 DEF Sound
<1>9. Sound(conn', late', Known) /\ conn'.errors = conn.errors
  BY <1>3, <1>4, <1>8, StartSound, LifeFacts
<1> QED BY <1>1, <1>9 DEF Kept, LifeInv, Known

LEMMA StreamEndedByPeerKeeps ==
  ASSUME LifeInv, NEW s \in Streams, StreamEndedByPeer(s) PROVE Kept
<1> DEFINE d == [conn EXCEPT !.streams[s] = "closing", !.endedByPeer = @ \cup {s}]
<1>1. /\ UNCHANGED <<heard, late, frames>>
      /\ conn' = startSendLoop(d)
  BY DEF StreamEndedByPeer, boundVars
<1>2. DOMAIN conn = Fields /\ DOMAIN conn.streams = Streams
  BY LifeFacts
<1>3. /\ DOMAIN d = Fields /\ d.streams = [conn.streams EXCEPT ![s] = "closing"]
      /\ d.runs = conn.runs /\ d.closes = conn.closes
      /\ d.done = conn.done /\ d.remoteState = conn.remoteState /\ d.errors = conn.errors
      /\ d.loop = conn.loop /\ d.request = conn.request
  BY <1>2 DEF Fields
<1> HIDE DEF d
<1>4. DOMAIN d.streams = Streams /\ OpenStreams(d) \subseteq OpenStreams(conn)
  BY <1>2, <1>3 DEF OpenStreams
<1>5. Telling(conn) => Telling(d)
  BY <1>3 DEF Telling
<1>6. Sound(d, late, Known)
  BY <1>3, <1>4, <1>5, FewerOpenIsSound, LifeFacts
<1>7. Sound(conn', late, Known) /\ conn'.errors = conn.errors
  BY <1>1, <1>3, <1>6, StartSound, LifeFacts
<1> QED BY <1>1, <1>7 DEF Kept, LifeInv, Known

LEMMA IntroduceKeeps == ASSUME LifeInv, Introduce PROVE Kept
<1>1. conn' = Introduced(conn) /\ UNCHANGED <<heard, late, frames>>
  BY DEF Introduce, boundVars
<1>2. Sound(conn', late, Known) /\ conn'.errors = conn.errors
  BY <1>1, IntroducedSound, LifeFacts
<1> QED BY <1>1, <1>2 DEF Kept, LifeInv, Known

LEMMA PeerClosesKeeps == ASSUME LifeInv, PeerCloses PROVE Kept
<1>1. PICK error \in BOOLEAN : conn' = Closing(conn, error)
  BY DEF PeerCloses
<1>2. frames' = frames + 1 /\ UNCHANGED late
  BY DEF PeerCloses
<1>3. frames' \in Nat /\ frames' > 0
  BY <1>2 DEF LifeInv
<1>4. Known' = TRUE
  BY <1>3 DEF Known
<1>5. Sound(conn', late, TRUE) /\ (conn.done => conn'.errors = conn.errors)
  BY <1>1, ClosingSound, LifeFacts
<1> QED BY <1>2, <1>3, <1>4, <1>5, LifeFacts DEF Kept, LifeInv

LEMMA PeerLeavesKeeps == ASSUME LifeInv, PeerLeaves PROVE Kept
<1>1. UNCHANGED <<conn, heard, late, frames>>
  BY DEF PeerLeaves, boundVars
<1> QED BY <1>1 DEF Kept, LifeInv, Known

LEMMA RemoveStreamRecordKeeps ==
  ASSUME LifeInv, NEW s \in Streams, removeStreamRecord(s) PROVE Kept
<1> DEFINE c == [conn EXCEPT !.streams[s] = "gone", !.owing = @ \ {s}, !.endedByPeer = @ \ {s}]
           d == IF s \in conn.endedByPeer THEN c ELSE [c EXCEPT !.queued = TRUE, !.wake = TRUE]
<1>1. conn' = d /\ UNCHANGED <<heard, late, frames>>
  BY DEF removeStreamRecord, boundVars
<1>2. DOMAIN conn = Fields /\ DOMAIN conn.streams = Streams
  BY LifeFacts
<1>3. /\ DOMAIN d = Fields /\ d.streams = [conn.streams EXCEPT ![s] = "gone"]
      /\ d.runs = conn.runs /\ d.closes = conn.closes
      /\ d.done = conn.done /\ d.remoteState = conn.remoteState /\ d.errors = conn.errors
      /\ d.loop = conn.loop /\ d.request = conn.request
  BY <1>2 DEF Fields
<1> HIDE DEF d
<1>4. DOMAIN d.streams = Streams /\ OpenStreams(d) \subseteq OpenStreams(conn)
  BY <1>2, <1>3 DEF OpenStreams
<1>5. Telling(conn) => Telling(d)
  BY <1>3 DEF Telling
<1>6. Sound(d, late, Known)
  BY <1>3, <1>4, <1>5, FewerOpenIsSound, LifeFacts
<1> QED BY <1>1, <1>3, <1>6 DEF Kept, LifeInv, Known

LEMMA WakeKeeps == ASSUME LifeInv, Wake PROVE Kept
<1> DEFINE d == [conn EXCEPT !.wake = FALSE]
<1>1. conn' = startSendLoop(d) /\ UNCHANGED <<heard, late, frames>>
  BY DEF Wake, boundVars
<1>2. DOMAIN conn = Fields
  BY LifeFacts
<1>3. /\ DOMAIN d = Fields /\ d.streams = conn.streams
      /\ d.runs = conn.runs /\ d.closes = conn.closes
      /\ d.done = conn.done /\ d.remoteState = conn.remoteState /\ d.errors = conn.errors
      /\ d.loop = conn.loop /\ d.request = conn.request
  BY <1>2 DEF Fields
<1> HIDE DEF d
<1>4. Telling(conn) => Telling(d)
  BY <1>3 DEF Telling
<1>5. Sound(d, late, Known)
  BY <1>3, <1>4, SameIsSound, LifeFacts
<1>6. Sound(conn', late, Known) /\ conn'.errors = conn.errors
  BY <1>1, <1>3, <1>5, StartSound, LifeFacts
<1> QED BY <1>1, <1>6 DEF Kept, LifeInv, Known

\* What a run of end() or destroy() finds open when it waits no more came late.
LEMMA NothingToWaitFor ==
  ASSUME LifeInv, NEW r \in conn.runs, ~Waiting(r) \/ r.method = "destroy"
  PROVE  OpenStreams(conn) \subseteq late
<1>1. OpenStreams(conn) \ late \subseteq MayFindOpen(r)
  BY LifeFacts
<1>2. MayFindOpen(r) \cap OpenStreams(conn) = {}
  BY DEF MayFindOpen, OpenStreams, Waiting
<1> QED BY <1>1, <1>2

LEMMA StreamsEndedKeeps ==
  ASSUME LifeInv, NEW r \in conn.runs, StreamsEnded(r) PROVE Kept
<1> DEFINE c == [conn EXCEPT !.closed = TRUE]
<1>1. /\ r.method = "end" /\ r.at = "streams" /\ ~Waiting(r)
      /\ conn' = IF c.remoteState = "Closed" THEN Close(c, r) ELSE Move(c, r, "telling")
      /\ UNCHANGED <<heard, late, frames>>
  BY DEF StreamsEnded, boundVars
<1>2. DOMAIN conn = Fields
  BY LifeFacts
<1>3. /\ DOMAIN c = Fields /\ c.streams = conn.streams
      /\ c.runs = conn.runs /\ c.closes = conn.closes
      /\ c.done = conn.done /\ c.remoteState = conn.remoteState /\ c.errors = conn.errors
      /\ c.loop = conn.loop /\ c.request = conn.request
  BY <1>2 DEF Fields
<1> HIDE DEF c
<1>4. Telling(conn) => Telling(c)
  BY <1>3 DEF Telling
<1>5. Sound(c, late, Known)
  BY <1>3, <1>4, SameIsSound, LifeFacts
<1>6. r \in c.runs /\ OpenStreams(c) \subseteq late
  BY <1>1, <1>3, NothingToWaitFor DEF OpenStreams
<1>7. Sound(conn', late, Known) /\ conn'.errors = conn.errors
  <2>1. CASE c.remoteState = "Closed"
    <3>1. conn' = Close(c, r) /\ r.at # "telling"
      BY <1>1, <2>1
    <3>2. Known \/ Telling(c)
      BY <1>5, <2>1 DEF Sound, QuietlyClosed
    <3> QED BY <1>3, <1>5, <1>6, <3>1, <3>2, CloseSound, LifeFacts
  <2>2. CASE c.remoteState # "Closed"
    <3>1. conn' = Move(c, r, "telling")
      BY <1>1, <2>2
    <3> QED BY <1>3, <1>5, <1>6, <3>1, MoveSound, LifeFacts
  <2> QED BY <2>1, <2>2
<1> QED BY <1>1, <1>7 DEF Kept, LifeInv, Known

LEMMA StreamsDestroyedKeeps ==
  ASSUME LifeInv, NEW r \in conn.runs, StreamsDestroyed(r) PROVE Kept
<1>1. /\ r.method = "destroy" /\ r.at = "streams" /\ conn' = Close(conn, r)
      /\ UNCHANGED <<heard, late, frames>>
  BY DEF StreamsDestroyed, boundVars
<1>2. Known \/ Telling(conn)
  BY <1>1, LifeFacts DEF QuietlyClosed
<1>3. OpenStreams(conn) \subseteq late
  BY <1>1, NothingToWaitFor
<1>4. Sound(conn', late, Known) /\ conn'.errors = conn.errors
  BY <1>1, <1>2, <1>3, CloseSound, LifeFacts
<1> QED BY <1>1, <1>4 DEF Kept, LifeInv, Known

LEMMA ToldKeeps ==
  ASSUME LifeInv, NEW r \in conn.runs, Told(r) \/ NotTold(r) PROVE Kept
<1>1. /\ r.at = "telling" /\ conn' = Move(conn, r, "told")
      /\ UNCHANGED <<late, frames>>
  BY DEF Told, NotTold, Failure, boundVars
<1>2. heard' # {}
  BY DEF Told, NotTold
<1>3. Known' = TRUE
  BY <1>1, <1>2 DEF Known
<1>4. Sound(conn, late, TRUE)
  BY LifeFacts DEF Sound
<1>5. Sound(conn', late, TRUE) /\ conn'.errors = conn.errors
  BY <1>1, <1>4, MoveSound
<1> QED BY <1>1, <1>3, <1>5 DEF Kept, LifeInv

LEMMA HasToldKeeps ==
  ASSUME LifeInv, NEW r \in conn.runs, HasTold(r) PROVE Kept
<1> DEFINE c == [conn EXCEPT !.remoteState = "Closed"]
<1>1. /\ r.at = "told"
      /\ conn' = IF r.method = "end" THEN Close(c, r) ELSE Move(c, r, "streams")
      /\ UNCHANGED <<heard, late, frames>>
  BY DEF HasTold, boundVars
<1>2. Known
  <2>1. SUFFICES ASSUME ~Known PROVE FALSE
    OBVIOUS
  <2>2. QuietlyClosed(conn)
    BY <2>1, LifeFacts
  <2> QED BY <1>1, <2>2 DEF QuietlyClosed
<1>3. DOMAIN conn = Fields
  BY LifeFacts
<1>4. /\ DOMAIN c = Fields /\ c.streams = conn.streams
      /\ c.runs = conn.runs /\ c.closes = conn.closes
      /\ c.done = conn.done /\ c.errors = conn.errors
  BY <1>3 DEF Fields
<1> HIDE DEF c
<1>5. Sound(c, late, Known)
  BY <1>2, <1>4, SameIsSound, LifeFacts
<1>6. r \in c.runs /\ OpenStreams(c) \subseteq late
  <2>1. OpenStreams(conn) \subseteq late
    BY <1>1, LifeFacts DEF MayFindOpen
  <2> QED BY <1>4, <2>1 DEF OpenStreams
<1>7. Sound(conn', late, Known) /\ conn'.errors = conn.errors
  <2>1. CASE r.method = "end"
    <3>1. conn' = Close(c, r)
      BY <1>1, <2>1
    <3> QED BY <1>2, <1>4, <1>5, <1>6, <3>1, CloseSound, LifeFacts
  <2>2. CASE r.method # "end"
    <3>1. conn' = Move(c, r, "streams")
      BY <1>1, <2>2
    <3> QED BY <1>2, <1>4, <1>5, <1>6, <3>1, MoveSound, LifeFacts
  <2> QED BY <2>1, <2>2
<1> QED BY <1>1, <1>7 DEF Kept, LifeInv, Known

LEMMA RejectedKeeps ==
  ASSUME LifeInv, NEW r \in conn.runs, Rejected(r) PROVE Kept
<1> DEFINE c == [conn EXCEPT !.runs = @ \ {r}]
<1>1. /\ r.at = "rejected" /\ conn' = destroy(c, FALSE)
      /\ UNCHANGED <<heard, late, frames>>
  BY DEF Rejected, boundVars
<1>2. DOMAIN conn = Fields
  BY LifeFacts
<1>3. /\ DOMAIN c = Fields /\ c.streams = conn.streams
      /\ c.runs = conn.runs \ {r} /\ c.closes = conn.closes
      /\ c.done = conn.done /\ c.errors = conn.errors /\ c.remoteState = conn.remoteState
      /\ c.loop = conn.loop /\ c.request = conn.request
  BY <1>2 DEF Fields
<1> HIDE DEF c
<1>4. Sound(c, late, Known)
  <2>1. OpenStreams(c) = OpenStreams(conn)
    BY <1>3 DEF OpenStreams
  <2>2. Telling(conn) => Telling(c)
    BY <1>1, <1>3 DEF Telling
  <2> QED BY <1>3, <2>1, <2>2, LifeFacts DEF Sound, EndTypes, StreamsWaitedFor, QuietlyClosed
<1>5. Sound(conn', late, Known) /\ (Ended => conn'.errors = conn.errors)
  BY <1>1, <1>3, <1>4, DestroySound, LifeFacts
<1> QED BY <1>1, <1>5 DEF Kept, LifeInv, Known

LEMMA SetupExchangeRateKeeps == ASSUME LifeInv, setupExchangeRate PROVE Kept
<1> DEFINE c == [conn EXCEPT !.connected = TRUE]
           d == Connect(c)
<1>1. /\ conn.loop = "probing" /\ conn' = Around(d)
      /\ UNCHANGED <<heard, late, frames>>
  BY DEF setupExchangeRate, boundVars
<1>2. DOMAIN conn = Fields
  BY LifeFacts
<1>3. /\ DOMAIN c = Fields /\ c.streams = conn.streams
      /\ c.runs = conn.runs /\ c.closes = conn.closes
      /\ c.done = conn.done /\ c.remoteState = conn.remoteState /\ c.errors = conn.errors
      /\ c.loop = conn.loop /\ c.request = conn.request
  BY <1>2 DEF Fields
<1> HIDE DEF c
<1>4. Telling(conn) => Telling(c)
  BY <1>3 DEF Telling
<1>5. Sound(c, late, Known)
  BY <1>3, <1>4, SameIsSound, LifeFacts
<1>6. Sound(d, late, Known) /\ d.errors = conn.errors /\ d.loop = "probing"
  BY <1>1, <1>3, <1>5, ConnectSound, LifeFacts
<1> HIDE DEF d
<1>7. Sound(conn', late, Known) /\ conn'.errors = conn.errors
  BY <1>1, <1>6, AroundSound, LifeFacts
<1> QED BY <1>1, <1>7 DEF Kept, LifeInv, Known

LEMMA ProbeFailsKeeps == ASSUME LifeInv, ProbeFails PROVE Kept
<1>1. /\ conn.loop = "probing" /\ conn' = LoopFails(conn) /\ UNCHANGED <<heard, late, frames>>
  BY DEF ProbeFails
<1>2. Sound(conn', late, Known) /\ (Ended => conn'.errors = conn.errors)
  BY <1>1, LoopFailsSound, LifeFacts
<1> QED BY <1>1, <1>2 DEF Kept, LifeInv, Known

\* A packet that closes the connection is under way from here on.
LEMMA LoadAndSendPacketKeeps == ASSUME LifeInv, loadAndSendPacket PROVE Kept
<1> PICK pays \in SUBSET Payable(conn) :
      LET rests  == pays = {} /\ ~conn.queued
          loaded == [conn EXCEPT !.sending = @ /\ ~rests]
      IN conn' = IF rests /\ ~AddsClose(conn) /\ OpenStreams(conn) = {}
                 THEN Around(loaded)
                 ELSE [loaded EXCEPT
                         !.request = [pays |-> pays, closes |-> conn.queued,
                                      close |-> AddsClose(conn)],
                         !.queued = FALSE, !.loop = "waiting",
                         !.remoteState = IF AddsClose(conn) THEN "Closed" ELSE @]
  BY DEF loadAndSendPacket
<1> DEFINE rests  == pays = {} /\ ~conn.queued
           loaded == [conn EXCEPT !.sending = @ /\ ~rests]
           d == [loaded EXCEPT
                   !.request = [pays |-> pays, closes |-> conn.queued,
                                close |-> AddsClose(conn)],
                   !.queued = FALSE, !.loop = "waiting",
                   !.remoteState = IF AddsClose(conn) THEN "Closed" ELSE @]
<1>1. /\ conn.loop = "next" /\ UNCHANGED <<heard, late, frames>>
      /\ conn' = Around(loaded) \/ conn' = d
  BY DEF loadAndSendPacket, boundVars
<1>2. DOMAIN conn = Fields
  BY LifeFacts
<1>3. CASE conn' = Around(loaded)
  <2>1. /\ DOMAIN loaded = Fields /\ loaded.streams = conn.streams
        /\ loaded.runs = conn.runs /\ loaded.closes = conn.closes
        /\ loaded.done = conn.done /\ loaded.remoteState = conn.remoteState
        /\ loaded.errors = conn.errors
        /\ loaded.loop = conn.loop /\ loaded.request = conn.request
    BY <1>2 DEF Fields
  <2> HIDE DEF loaded
  <2>2. Telling(conn) => Telling(loaded)
    BY <2>1 DEF Telling
  <2>3. Sound(loaded, late, Known)
    BY <2>1, <2>2, SameIsSound, LifeFacts
  <2>4. Sound(conn', late, Known) /\ conn'.errors = conn.errors
    BY <1>1, <1>3, <2>1, <2>3, AroundSound, LifeFacts
  <2> QED BY <1>1, <2>4 DEF Kept, LifeInv, Known
<1>4. CASE conn' = d
  <2>1. /\ DOMAIN d = Fields /\ d.streams = conn.streams
        /\ d.runs = conn.runs /\ d.closes = conn.closes
        /\ d.done = conn.done /\ d.errors = conn.errors /\ d.loop = "waiting"
        /\ d.request = [pays |-> pays, closes |-> conn.queued, close |-> AddsClose(conn)]
        /\ d.remoteState = IF AddsClose(conn) THEN "Closed" ELSE conn.remoteState
    BY <1>2 DEF Fields
  <2>2. d.request.close = AddsClose(conn)
    BY <2>1
  <2> HIDE DEF d, loaded
  <2>3. /\ Telling(conn) => Telling(d)
        /\ d.remoteState = "Closed" => conn.remoteState = "Closed" \/ Telling(d)
    BY <1>1, <2>1, <2>2 DEF Telling
  <2>4. Sound(d, late, Known)
    BY <2>1, <2>3, SameIsSound, LifeFacts
  <2> QED BY <1>1, <1>4, <2>1, <2>4 DEF Kept, LifeInv, Known
<1> QED BY <1>1, <1>3, <1>4

\* The answer to such a packet says that the peer has got it.
LEMMA AnswerKeeps == ASSUME LifeInv, Answer PROVE Kept
<1> DEFINE after(s) == IF s \in conn.request.pays /\ conn.streams[s] = "ending" THEN "closing"
                       ELSE conn.streams[s]
           c == [conn EXCEPT !.remoteState = IF @ = "Init" THEN "Connected" ELSE @,
                             !.owing = @ \ conn.request.pays,
                             !.streams = [s \in Streams |-> after(s)]]
<1>1. /\ conn' = Around(c) /\ UNCHANGED <<late, frames>>
      /\ heard' = IF conn.request.close THEN heard \cup {"NoError"} ELSE heard
  BY DEF Answer, Tells, boundVars
<1>2. DOMAIN conn = Fields
  BY LifeFacts
<1>3. /\ DOMAIN c = Fields /\ c.streams = [s \in Streams |-> after(s)]
      /\ c.runs = conn.runs /\ c.closes = conn.closes
      /\ c.done = conn.done /\ c.errors = conn.errors
      /\ c.remoteState = IF conn.remoteState = "Init" THEN "Connected" ELSE conn.remoteState
      /\ c.loop = conn.loop /\ c.request = conn.request
  BY <1>2 DEF Fields
<1>4. OpenStreams(c) \subseteq OpenStreams(conn)
  BY <1>3 DEF OpenStreams
<1> HIDE DEF c, after
<1>5. Telling(conn) => Telling(c)
  BY <1>3 DEF Telling
<1>6. Sound(c, late, Known)
  BY <1>3, <1>4, <1>5, FewerOpenIsSound, LifeFacts
<1>7. CASE conn.request.close
  <2>1. Known' = TRUE
    BY <1>1, <1>7 DEF Known
  <2>2. Sound(c, late, TRUE)
    BY <1>6 DEF Sound
  <2>3. Sound(conn', late, TRUE) /\ conn'.errors = conn.errors
    BY <1>1, <1>3, <2>2, AroundSound
  <2> QED BY <1>1, <2>1, <2>3 DEF Kept, LifeInv
<1>8. CASE ~conn.request.close
  <2>1. Sound(conn', late, Known) /\ conn'.errors = conn.errors
    BY <1>1, <1>3, <1>6, <1>8, AroundSound, LifeFacts
  <2> QED BY <1>1, <1>8, <2>1 DEF Kept, LifeInv, Known
<1> QED BY <1>7, <1>8

\* A packet that is rejected has come to something too, if it has such a frame.
LEMMA ReturnedSound ==
  ASSUME LifeInv, NEW what, Tells(what), UNCHANGED <<late, frames>>
  PROVE  /\ Sound(Returned(conn), late, Known') /\ Known' \in BOOLEAN
         /\ Returned(conn).done = conn.done /\ Returned(conn).errors = conn.errors
         /\ Known' \/ ~ Returned(conn).request.close
<1> DEFINE c == Returned(conn)
<1>1. DOMAIN conn = Fields
  BY LifeFacts
<1>2. /\ DOMAIN c = Fields /\ c.streams = conn.streams /\ c.runs = conn.runs
      /\ c.closes = conn.closes /\ c.done = conn.done /\ c.errors = conn.errors
      /\ c.remoteState = conn.remoteState /\ c.loop = conn.loop /\ c.request = conn.request
  BY <1>1 DEF Fields, Returned
<1> HIDE DEF c
<1>3. Telling(conn) => Telling(c)
  BY <1>2 DEF Telling
<1>4. Sound(c, late, Known)
  BY <1>2, <1>3, SameIsSound, LifeFacts
<1>5. (Known => Known') /\ Known' \in BOOLEAN /\ (Known' \/ ~ conn.request.close)
  BY DEF Known, Tells
<1>6. Sound(c, late, Known')
  BY <1>4, <1>5, MoreIsSound, LifeFacts
<1> QED BY <1>2, <1>5, <1>6 DEF c

LEMMA TemporaryErrorKeeps == ASSUME LifeInv, TemporaryError PROVE Kept
<1>1. conn' = Around(Returned(conn)) /\ UNCHANGED <<late, frames>> /\ Tells("lost")
  BY DEF TemporaryError
<1>2. Sound(conn', late, Known') /\ conn'.errors = conn.errors
  BY <1>1, ReturnedSound, AroundSound
<1> QED BY <1>1, <1>2 DEF Kept, LifeInv

LEMMA FinalErrorKeeps == ASSUME LifeInv, FinalError PROVE Kept
<1>1. PICK what \in {"NoError", "lost"} : Tells(what)
  BY DEF FinalError
<1>2. conn' = LoopFails(Returned(conn)) /\ UNCHANGED <<late, frames>>
  BY DEF FinalError
<1>3. Sound(conn', late, Known') /\ (Ended => conn'.errors = conn.errors)
  BY <1>1, <1>2, ReturnedSound, LoopFailsSound, LifeFacts
<1> QED BY <1>2, <1>3 DEF Kept, LifeInv

LEMMA TestIdleKeeps == ASSUME LifeInv, testIdle PROVE Kept
<1> DEFINE c == [conn EXCEPT !.idle = "off"]
<1>1. conn' = destroy(c, TRUE) /\ UNCHANGED <<heard, late, frames>>
  BY DEF testIdle, boundVars
<1>2. DOMAIN conn = Fields
  BY LifeFacts
<1>3. /\ DOMAIN c = Fields /\ c.streams = conn.streams /\ c.runs = conn.runs
      /\ c.closes = conn.closes /\ c.done = conn.done /\ c.errors = conn.errors
      /\ c.remoteState = conn.remoteState /\ c.loop = conn.loop /\ c.request = conn.request
  BY <1>2 DEF Fields
<1> HIDE DEF c
<1>4. Telling(conn) => Telling(c)
  BY <1>3 DEF Telling
<1>5. Sound(c, late, Known)
  BY <1>3, <1>4, SameIsSound, LifeFacts
<1>6. Sound(conn', late, Known) /\ (Ended => conn'.errors = conn.errors)
  BY <1>1, <1>3, <1>5, DestroySound, LifeFacts
<1> QED BY <1>1, <1>6 DEF Kept, LifeInv, Known

LEMMA LifeFirst == ASSUME LifeInit PROVE LifeInv
<1> DEFINE c == Fresh(isServer)
<1>1. /\ conn = c /\ heard = {} /\ late = {} /\ frames = 0
  BY DEF LifeInit
<1>2. /\ DOMAIN c = Fields /\ DOMAIN c.streams = Streams /\ c.closes = 0 /\ c.runs = {}
      /\ c.remoteState = "Init"
  BY DEF Fresh, Fields
<1> HIDE DEF c
<1>3. Sound(c, {}, FALSE)
  BY <1>2 DEF Sound, EndTypes, StreamsWaitedFor, QuietlyClosed
<1> QED BY <1>1, <1>3 DEF LifeInv, Known, Sound

LEMMA LifeKept == ASSUME LifeInv, LifeNext PROVE Kept
<1>1. CASE AtOnce
  BY <1>1, StreamsEndedKeeps, StreamsDestroyedKeeps, RejectedKeeps DEF AtOnce
<1>2. CASE Events
  <2>1. CASE RunSteps
    BY <2>1, ToldKeeps, HasToldKeeps DEF RunSteps
  <2>2. CASE \E s \in Streams : removeStreamRecord(s)
    BY <2>2, RemoveStreamRecordKeeps
  <2>3. CASE ProbeFails \/ FinalError
    BY <2>3, ProbeFailsKeeps, FinalErrorKeeps
  <2>4. CASE Wake \/ setupExchangeRate \/ loadAndSendPacket
    BY <2>4, WakeKeeps, SetupExchangeRateKeeps, LoadAndSendPacketKeeps
  <2>5. CASE Answer \/ testIdle
    BY <2>5, AnswerKeeps, TestIdleKeeps
  <2> QED BY <1>2, <2>1, <2>2, <2>3, <2>4, <2>5 DEF Events
<1>3. CASE Application
  BY <1>3, CallEndKeeps, CallDestroyKeeps, OpenStreamKeeps DEF Application
<1>4. CASE Environment
  BY <1>4, PeerClosesKeeps, PeerLeavesKeeps, IntroduceKeeps, StreamEndedByPeerKeeps DEF Environment
<1>5. CASE Faults
  BY <1>5, ProbeFailsKeeps, TemporaryErrorKeeps, FinalErrorKeeps, ToldKeeps DEF Faults
<1> QED BY <1>1, <1>2, <1>3, <1>4, <1>5 DEF LifeNext, LifeProgress

\* Every step, and the stuttering one.
LEMMA LifeStep == LifeInv /\ [LifeNext]_lifeVars => Kept
<1> SUFFICES ASSUME LifeInv, [LifeNext]_lifeVars PROVE Kept
  OBVIOUS
<1>1. CASE LifeNext
  BY <1>1, LifeKept
<1>2. CASE UNCHANGED lifeVars
  BY <1>2 DEF lifeVars, boundVars, Kept, LifeInv, Known, Ended
<1> QED BY <1>1, <1>2

LEMMA LifeInvariant == LifeSpec => []LifeInv
<1>1. LifeInit => LifeInv
  BY LifeFirst
<1>2. LifeInv /\ [LifeNext]_lifeVars => LifeInv'
  BY LifeStep DEF Kept
<1> QED BY <1>1, <1>2, PTL DEF LifeSpec

\* When 'close' is emitted every stream is closed, but for those that were opened while the
\* connection was closing or after, however many runs of end() and destroy() there are, and in
\* whatever order they go on (end and destroy, connection.ts).
THEOREM StreamsCloseFirstHolds == LifeSpec => []StreamsCloseFirst
<1>1. LifeInv => StreamsCloseFirst
  BY DEF LifeInv, Sound, StreamsWaitedFor, StreamsCloseFirst, Ended
<1> QED BY <1>1, LifeInvariant, PTL

\* However a connection was closed, it has told its peer, or is telling it: by a run of end()
\* or destroy() or by a packet of the loop, unless the frame was lost, there was no address to
\* send it to, or the peer has closed itself (end, destroy and loadAndSendPacket, connection.ts).
THEOREM PeerIsToldHolds == LifeSpec => []PeerIsTold
<1>1. LifeInv => PeerIsTold
  BY DEF LifeInv, Known, Sound, EndTypes, QuietlyClosed, Telling, PeerIsTold, Ended,
         BeingTold
<1> QED BY <1>1, LifeInvariant, PTL

\* 'error' is not emitted after 'close', which any run may have emitted while others go on:
\* done is set by then, and destroy() looks at it (destroy and safeEmit, connection.ts).
THEOREM NoErrorAfterCloseHolds == LifeSpec => NoErrorAfterClose
<1>1. LifeInv /\ [LifeNext]_lifeVars => [Ended => conn'.errors = conn.errors]_lifeVars
  BY LifeStep DEF Kept
<1> QED BY <1>1, LifeInvariant, PTL DEF LifeSpec, NoErrorAfterClose
-----------------------------------------------------------------------------
(* The exchange rate probe: one probe is a sequence of volleys.             *)

\* The digits of a number, and the least number with so many, are what their recursions say.
LEMMA DigitsRecursion ==
  /\ countDigits \in [Nat -> Nat]
  /\ \A n \in Nat : countDigits[n] = IF n = 0 THEN 0 ELSE 1 + countDigits[n \div Base]
<1> DEFINE step == [n \in Nat |-> [d \in Nat |-> 1 + d]]
           prev == [n \in Nat |-> n \div Base]
           CountsDigits(f) == f = [n \in Nat |-> IF n = 0 THEN 0 ELSE 1 + f[n \div Base]]
<1>1. Base \in Nat \ {0, 1}
  BY ProbeAssumption
<1>2. \A n \in Nat \ {0} : n \div Base \in Nat /\ n \div Base < n
  <2> SUFFICES ASSUME NEW n \in Nat \ {0} PROVE n \div Base \in Nat /\ n \div Base < n
    OBVIOUS
  <2> DEFINE q == n \div Base
  <2>1. q \in Nat /\ n % Base \in Nat /\ n = q * Base + (n % Base)
    BY <1>1, Division
  <2> HIDE DEF q
  <2>2. q * 2 <= q * Base
    <3>1. 2 * q <= Base * q /\ 2 * q = q * 2 /\ Base * q = q * Base
      BY <1>1, <2>1, TimesMonotone
    <3> QED BY <3>1
  <2>3. q * Base \in Nat
    BY <1>1, <2>1
  <2>4. q < n
    BY <2>1, <2>2, <2>3
  <2> QED BY <2>1, <2>4 DEF q
<1>3. 0 \div Base = 0
  BY <1>1
<1>4. Recursion(0, step, prev, Nat)
  <2>1. \A n \in Nat : n \div Base \in Nat
    BY <1>1, QuotientNat
  <2>2. prev \in [Nat -> Nat] /\ \A n \in Nat \ {0} : prev[n] < n
    BY <1>2, <2>1
  <2>3. step \in [Nat -> [Nat -> Nat]]
    OBVIOUS
  <2> HIDE DEF step, prev
  <2> QED BY <2>2, <2>3 DEF Recursion
<1>5. PICK f \in [Nat -> Nat] : \A n \in Nat : f[n] = IF n = 0 THEN 0 ELSE step[n][f[prev[n]]]
  <2> HIDE DEF step, prev
  <2> QED BY <1>4, RecursionDefines
<1>6. CountsDigits(f)
  <2>1. ASSUME NEW n \in Nat PROVE f[n] = IF n = 0 THEN 0 ELSE 1 + f[n \div Base]
    <3>1. n \div Base \in Nat /\ f[n \div Base] \in Nat
      BY <1>1, <1>5, QuotientNat
    <3>2. prev[n] = n \div Base /\ step[n][f[n \div Base]] = 1 + f[n \div Base]
      BY <3>1
    <3> HIDE DEF step, prev
    <3> QED BY <1>5, <3>2
  <2> QED BY <1>5, <2>1
<1> DEFINE c == CHOOSE h : CountsDigits(h)
<1>7. CountsDigits(c)
  <2> HIDE DEF CountsDigits
  <2> QED BY <1>6
<1>8. c = countDigits
  BY DEF countDigits
<1> HIDE DEF c
<1>9. c \in [Nat -> Nat]
  <2> DEFINE Bad == {n \in Nat : c[n] \notin Nat}
  <2>1. SUFFICES ASSUME Bad # {} PROVE FALSE
    BY <1>7
  <2>2. PICK n \in Bad : \A m \in Bad : n <= m
    <3>1. Bad \in SUBSET Nat
      OBVIOUS
    <3> HIDE DEF Bad
    <3> QED BY <2>1, <3>1, LeastNumber
  <2>3. n \in Nat /\ c[n] \notin Nat /\ n # 0
    BY <1>7
  <2>4. n \div Base \in Nat /\ ~ (n <= n \div Base)
    BY <1>2, <2>3
  <2>5. c[n \div Base] \in Nat
    BY <2>2, <2>4
  <2> QED BY <1>7, <2>3, <2>5
<1> QED BY <1>7, <1>8, <1>9

LEMMA PowerRecursion ==
  /\ Power \in [Nat -> Nat \ {0}]
  /\ \A n \in Nat : Power[n] = IF n = 0 THEN 1 ELSE Base * Power[n - 1]
<1> DEFINE T == Nat \ {0}
           step == [n \in Nat |-> [d \in T |-> Base * d]]
           prev == [n \in Nat |-> IF n = 0 THEN 0 ELSE n - 1]
           Powers(f) == f = [n \in Nat |-> IF n = 0 THEN 1 ELSE Base * f[n - 1]]
<1>1. Base \in Nat \ {0, 1}
  BY ProbeAssumption
<1>2. \A d \in T : Base * d \in T
  <2> SUFFICES ASSUME NEW d \in T PROVE Base * d \in T
    OBVIOUS
  <2>1. 1 * d <= Base * d
    BY <1>1, TimesMonotone
  <2>2. Base * d \in Int
    BY <1>1
  <2> QED BY <2>1, <2>2
<1>3. Recursion(1, step, prev, T)
  <2>1. prev \in [Nat -> Nat] /\ \A n \in Nat \ {0} : prev[n] < n
    OBVIOUS
  <2>2. step \in [Nat -> [T -> T]] /\ 1 \in T
    BY <1>2
  <2> HIDE DEF step, prev, T
  <2> QED BY <2>1, <2>2 DEF Recursion
<1>4. PICK f \in [Nat -> T] : \A n \in Nat : f[n] = IF n = 0 THEN 1 ELSE step[n][f[prev[n]]]
  <2> HIDE DEF step, prev, T
  <2> QED BY <1>3, RecursionDefines
<1>5. Powers(f)
  <2>1. ASSUME NEW n \in Nat, n # 0 PROVE f[n] = Base * f[n - 1]
    <3>1. n - 1 \in Nat /\ f[n - 1] \in T
      BY <1>4, <2>1
    <3>2. prev[n] = n - 1 /\ step[n][f[n - 1]] = Base * f[n - 1]
      BY <2>1, <3>1
    <3> HIDE DEF step, prev, T
    <3> QED BY <1>4, <2>1, <3>2
  <2>2. f[0] = 1
    BY <1>4
  <2> HIDE DEF step, prev
  <2> QED BY <1>4, <2>1, <2>2
<1> DEFINE p == CHOOSE h : Powers(h)
<1>6. Powers(p)
  <2> HIDE DEF Powers
  <2> QED BY <1>5
<1>7. p = Power
  BY DEF Power
<1> HIDE DEF p
<1>8. p \in [Nat -> T]
  <2> DEFINE Bad == {n \in Nat : p[n] \notin T}
  <2>1. SUFFICES ASSUME Bad # {} PROVE FALSE
    BY <1>6
  <2>2. PICK n \in Bad : \A m \in Bad : n <= m
    <3>1. Bad \in SUBSET Nat
      OBVIOUS
    <3> HIDE DEF Bad
    <3> QED BY <2>1, <3>1, LeastNumber
  <2>3. n \in Nat /\ p[n] \notin T /\ n # 0
    BY <1>6
  <2>4. n - 1 \in Nat /\ ~ (n <= n - 1)
    BY <2>3
  <2>5. p[n - 1] \in T
    BY <2>2, <2>4
  <2>6. Base * p[n - 1] \in T
    BY <1>2, <2>5
  <2> QED BY <1>6, <2>3, <2>6
<1> QED BY <1>6, <1>7, <1>8
-----------------------------------------------------------------------------
\* A number of k + 1 digits is at least the least one.
LEMMA DigitsBound ==
  \A k \in Nat : \A d \in Nat : countDigits[d] >= k + 1 => Power[k] <= d
<1> DEFINE c == countDigits
           p == Power
           Bad == {k \in Nat : \E d \in Nat : c[d] >= k + 1 /\ ~ (p[k] <= d)}
<1>1. SUFFICES ASSUME Bad # {} PROVE FALSE
  OBVIOUS
<1>2. PICK k \in Bad : \A m \in Bad : k <= m
  <2>1. Bad \in SUBSET Nat
    OBVIOUS
  <2> HIDE DEF Bad
  <2> QED BY <1>1, <2>1, LeastNumber
<1>3. PICK d \in Nat : c[d] >= k + 1 /\ ~ (p[k] <= d)
  OBVIOUS
<1>4. /\ Base \in Nat \ {0}
      /\ c \in [Nat -> Nat] /\ \A n \in Nat : c[n] = IF n = 0 THEN 0 ELSE 1 + c[n \div Base]
      /\ p \in [Nat -> Nat \ {0}] /\ \A n \in Nat : p[n] = IF n = 0 THEN 1 ELSE Base * p[n - 1]
  BY DigitsRecursion, PowerRecursion, ProbeAssumption
<1>5. k \in Nat
  OBVIOUS
<1> HIDE DEF c, p
<1>6. d # 0
  BY <1>3, <1>4, <1>5
<1>7. k # 0
  BY <1>3, <1>4, <1>6
<1> DEFINE q == d \div Base
<1>8. q \in Nat /\ q * Base <= d
  <2>1. q \in Nat /\ d % Base \in Nat /\ d = q * Base + (d % Base)
    BY <1>4, Division
  <2> HIDE DEF q
  <2>2. q * Base \in Nat
    BY <1>4, <2>1
  <2> QED BY <2>1, <2>2
<1>9. c[q] >= (k - 1) + 1
  <2>1. c[d] = 1 + c[q]
    BY <1>4, <1>6
  <2> HIDE DEF q
  <2>2. c[q] \in Nat
    BY <1>4, <1>8
  <2> QED BY <1>3, <1>5, <2>1, <2>2
<1>10. k - 1 \in Nat /\ k - 1 \notin Bad
  <2>1. k - 1 \in Nat /\ ~ (k <= k - 1)
    BY <1>5, <1>7
  <2> QED BY <1>2, <2>1
<1>11. p[k - 1] <= q /\ p[k - 1] \in Nat
  <2> HIDE DEF q
  <2> QED BY <1>4, <1>8, <1>9, <1>10
<1>12. p[k - 1] * Base <= q * Base /\ p[k - 1] * Base \in Nat /\ q * Base \in Nat
  <2> HIDE DEF q
  <2>1. \A x \in Nat : \A y \in Nat : x * y \in Nat
    OBVIOUS
  <2>2. p[k - 1] * Base \in Nat /\ q * Base \in Nat
    BY <1>4, <1>8, <1>11, <2>1
  <2>3. p[k - 1] * Base <= q * Base
    BY <1>4, <1>8, <1>11, TimesMonotone
  <2> QED BY <2>2, <2>3
<1>13. p[k] = p[k - 1] * Base
  <2>1. p[k] = Base * p[k - 1]
    BY <1>4, <1>5, <1>7
  <2> QED BY <1>4, <1>11, <2>1
<1>14. p[k] <= d
  <2> HIDE DEF q
  <2> QED BY <1>8, <1>12, <1>13
<1> QED BY <1>3, <1>14

LEMMA LeastOf ==
  ASSUME NEW S, S \subseteq Nat, S # {}
  PROVE  Min(S) \in S /\ \A n \in S : Min(S) <= n
<1>1. PICK s \in S : \A t \in S : s <= t
  BY LeastNumber
<1> QED BY <1>1 DEF Min

\* No test amount is Unlimited.
LEMMA UnlimitedIsMore ==
  Unlimited \in Nat /\ \A n \in TestAmounts : n < Unlimited
<1> DEFINE S == TestAmounts
<1>1. S \subseteq Nat /\ S # {} /\ IsFiniteSet(S)
  BY ProbeAssumption
<1>2. PICK m \in S : \A n \in S : n <= m
  <2> HIDE DEF S
  <2> QED BY <1>1, LargestNumber
<1>3. \A n \in S : m >= n
  <2> HIDE DEF S
  <2> QED BY <1>1, <1>2
<1>4. Max(S) \in S /\ \A n \in S : Max(S) >= n
  <2> HIDE DEF S
  <2> QED BY <1>3 DEF Max
<1> DEFINE x == Max(S)
<1>5. Unlimited = x + 1
  BY DEF Unlimited
<1> HIDE DEF S, x
<1>6. x \in S /\ \A n \in S : x >= n
  BY <1>4 DEF x
<1>7. x + 1 \in Nat /\ \A n \in S : n < x + 1
  BY <1>1, <1>6
<1> QED BY <1>5, <1>7 DEF S

\* A quotient, times the divisor, is short of what was divided by less than the divisor.
LEMMA QuotientOf ==
  ASSUME NEW p \in Nat, NEW c \in Nat \ {0}
  PROVE  /\ p \div c \in Nat /\ (p \div c) * c \in Nat
         /\ (p \div c) * c <= p /\ p < (p \div c) * c + c
<1> DEFINE q == p \div c
           r == p % c
<1>1. q \in Nat /\ r \in Nat /\ r < c /\ p = q * c + r
  BY Division
<1> HIDE DEF q, r
<1>2. q * c \in Nat
  BY <1>1
<1>3. q * c <= p /\ p < q * c + c
  BY <1>1, <1>2
<1> QED BY <1>1, <1>2, <1>3 DEF q

\* More, times and divided by the same, stays more.
LEMMA QuotientMonotone ==
  ASSUME NEW m \in Nat, NEW n \in Nat, m <= n, NEW b \in Nat, NEW c \in Nat \ {0}
  PROVE  (m * b) \div c <= (n * b) \div c
<1> DEFINE p == m * b
           s == n * b
           q == p \div c
<1>1. p \in Nat /\ s \in Nat
  OBVIOUS
<1>2. p <= s
  BY TimesMonotone
<1> HIDE DEF p, s
<1>3. q \in Nat /\ q * c \in Nat /\ q * c <= p
  BY <1>1, QuotientOf
<1> HIDE DEF q
<1>4. q * c + 0 <= s
  BY <1>1, <1>2, <1>3
<1>5. q <= s \div c
  BY ONLY <1>1, <1>3, <1>4, c \in Nat \ {0}, QuotientBound
<1> QED BY <1>5 DEF p, s, q

\* What a packet brings to the connector and to the receiver are amounts, and more when it
\* is larger.
LEMMA AmountsNat ==
  ASSUME NEW n \in Nat
  PROVE  Received(n) \in Nat /\ Delivered(n) \in Nat
<1>1. /\ UpNum \in Nat /\ UpDen \in Nat \ {0}
      /\ RateNum \in Nat /\ RateDen \in Nat \ {0}
  BY ProbeAssumption
<1> DEFINE R == Received(n)
<1>2. R \in Nat
  <2>1. n * UpNum \in Nat
    BY <1>1
  <2> QED BY <1>1, <2>1, QuotientNat DEF Received
<1>3. Delivered(n) = (R * RateNum) \div RateDen
  BY DEF Delivered
<1> HIDE DEF R
<1>4. R * RateNum \in Nat
  BY <1>1, <1>2
<1>5. (R * RateNum) \div RateDen \in Nat
  BY <1>1, <1>4, QuotientNat
<1> QED BY <1>2, <1>3, <1>5 DEF R

LEMMA AmountsMonotone ==
  ASSUME NEW m \in Nat, NEW n \in Nat, m <= n
  PROVE  Received(m) <= Received(n) /\ Delivered(m) <= Delivered(n)
<1>1. /\ UpNum \in Nat /\ UpDen \in Nat \ {0}
      /\ RateNum \in Nat /\ RateDen \in Nat \ {0}
  BY ProbeAssumption
<1>2. Received(m) <= Received(n)
  BY <1>1, QuotientMonotone DEF Received
<1> DEFINE R == Received(m)
           S == Received(n)
<1>3. R \in Nat /\ S \in Nat
  BY AmountsNat
<1>4. Delivered(m) = (R * RateNum) \div RateDen /\ Delivered(n) = (S * RateNum) \div RateDen
  BY DEF Delivered
<1>5. R <= S
  BY <1>2
<1> HIDE DEF R, S
<1>6. (R * RateNum) \div RateDen <= (S * RateNum) \div RateDen
  BY <1>1, <1>3, <1>5, QuotientMonotone
<1> QED BY <1>2, <1>4, <1>6

\* A larger number has no fewer digits.
LEMMA DigitsMonotone ==
  \A n \in Nat : \A m \in Nat : m <= n => countDigits[m] <= countDigits[n]
<1> DEFINE c == countDigits
           Bad == {n \in Nat : \E m \in Nat : m <= n /\ ~ (c[m] <= c[n])}
<1>1. SUFFICES ASSUME Bad # {} PROVE FALSE
  OBVIOUS
<1>2. PICK n \in Bad : \A k \in Bad : n <= k
  <2>1. Bad \in SUBSET Nat
    OBVIOUS
  <2> HIDE DEF Bad
  <2> QED BY <1>1, <2>1, LeastNumber
<1>3. PICK m \in Nat : m <= n /\ ~ (c[m] <= c[n])
  OBVIOUS
<1>4. /\ Base \in Nat \ {0, 1} /\ c \in [Nat -> Nat]
      /\ \A k \in Nat : c[k] = IF k = 0 THEN 0 ELSE 1 + c[k \div Base]
  BY DigitsRecursion, ProbeAssumption
<1>5. n \in Nat
  OBVIOUS
<1> HIDE DEF c
<1>6. m # 0
  BY <1>3, <1>4, <1>5
<1>7. n # 0
  BY <1>3, <1>5, <1>6
<1> DEFINE p == m \div Base
           q == n \div Base
<1>8. p \in Nat /\ q \in Nat /\ p <= q
  <2>1. (m * 1) \div Base <= (n * 1) \div Base
    BY <1>3, <1>4, <1>5, QuotientMonotone
  <2>2. m * 1 = m /\ n * 1 = n
    BY <1>5
  <2> QED BY <1>4, <1>5, <2>1, <2>2, QuotientNat
<1>9. q < n
  <2>1. q \in Nat /\ q * Base \in Nat /\ q * Base <= n
    BY <1>4, <1>5, QuotientOf
  <2> HIDE DEF q
  <2>2. 2 * q <= Base * q /\ Base * q = q * Base
    BY <1>4, <2>1, TimesMonotone
  <2> QED BY <1>5, <1>7, <2>1, <2>2
<1>10. c[m] = 1 + c[p] /\ c[n] = 1 + c[q]
  BY <1>4, <1>5, <1>6, <1>7
<1> HIDE DEF p, q
<1>11. q \notin Bad
  BY <1>2, <1>5, <1>8, <1>9
<1>12. c[p] <= c[q]
  BY <1>8, <1>11
<1>13. c[p] \in Nat /\ c[q] \in Nat
  BY <1>4, <1>8
<1> QED BY <1>3, <1>10, <1>12, <1>13

\* What is precise enough stays so when it is larger.
LEMMA MeasuresMore ==
  ASSUME NEW m \in Nat, NEW n \in Nat, m <= n, Measures(m)
  PROVE  Measures(n)
<1> DEFINE d == Delivered(m)
           e == Delivered(n)
<1>1. d \in Nat /\ e \in Nat /\ d <= e
  BY AmountsNat, AmountsMonotone
<1>2. countDigits[d] >= MinPrecision
  BY DEF Measures
<1> HIDE DEF d, e
<1>3. /\ countDigits[d] <= countDigits[e] /\ countDigits[d] \in Nat /\ countDigits[e] \in Nat
      /\ MinPrecision \in Nat
  BY <1>1, DigitsMonotone, DigitsRecursion, ProbeAssumption
<1>4. countDigits[e] >= MinPrecision
  BY <1>2, <1>3
<1> QED BY <1>4 DEF e, Measures

\* The maximum that an F08 tells of: x for a packet of m that brings r, more than the limit l.
LEMMA RefusalArithmetic ==
  ASSUME NEW m \in Nat, NEW l \in Nat, NEW u \in Nat \ {0}, NEW v \in Nat \ {0},
         NEW r \in Nat, NEW x \in Nat, NEW s \in Nat, NEW y \in Nat,
         r * v <= m * u, m * u < r * v + v, l < r,
         x * r <= m * l, m * l < x * r + r,
         s * u <= l * v,
         y * v <= x * u
  PROVE  x < m /\ s * r <= m * l /\ y <= l
<1>1. \A a \in Nat : \A b \in Nat : a * b \in Nat /\ a * b = b * a
  OBVIOUS
<1>2. \A a \in Nat : \A b \in Nat : \A c \in Nat : (a * b) * c = (a * c) * b
  OBVIOUS
<1>3. m # 0
  <2>1. SUFFICES ASSUME m = 0 PROVE FALSE
    OBVIOUS
  <2>2. m * u = 0
    BY <2>1
  <2>3. 1 * v <= r * v
    BY TimesMonotone
  <2>4. r * v \in Nat /\ 1 * v = v
    BY <1>1
  <2> QED BY <2>2, <2>3, <2>4
<1>4. x < m
  <2>1. SUFFICES ASSUME m <= x PROVE FALSE
    OBVIOUS
  <2>2. m * r <= x * r
    BY <2>1, TimesMonotone
  <2>3. m * r \in Nat /\ x * r \in Nat /\ m * l \in Nat /\ m * r = r * m /\ m * l = l * m
    BY <1>1
  <2>4. r * m <= l * m
    BY <2>2, <2>3
  <2>5. r <= l
    BY ONLY <1>3, <2>4, m \in Nat, r \in Nat, l \in Nat, CancelFactor
  <2> QED BY <2>5
<1>5. s * r <= m * l
  <2> DEFINE su == s * u
             lv == l * v
             rv == r * v
             mu == m * u
             sr == s * r
             ml == m * l
  <2>1. su \in Nat /\ lv \in Nat /\ rv \in Nat /\ mu \in Nat /\ sr \in Nat /\ ml \in Nat
    BY <1>1
  <2>2. sr * u = su * r /\ lv * r = rv * l /\ mu * l = ml * u
    <3>1. sr * u = su * r
      BY <1>2
    <3>2. lv * r = rv * l
      <4>1. lv * r = (l * r) * v
        BY <1>2
      <4>2. (l * r) * v = (r * l) * v /\ (r * l) * v = rv * l
        BY <1>1, <1>2
      <4> QED BY <4>1, <4>2
    <3>3. mu * l = ml * u
      BY <1>2
    <3> QED BY <3>1, <3>2, <3>3
  <2>3. su <= lv /\ rv <= mu
    OBVIOUS
  <2> HIDE DEF su, lv, rv, mu, sr, ml
  <2>4. su * r <= lv * r /\ rv * l <= mu * l
    BY ONLY <2>1, <2>3, r \in Nat, l \in Nat, TimesMonotone
  <2>5. su * r \in Nat /\ lv * r \in Nat /\ rv * l \in Nat /\ mu * l \in Nat
    BY <1>1, <2>1
  <2>6. sr * u <= ml * u
    BY <2>2, <2>4, <2>5
  <2>7. sr <= ml
    BY ONLY <2>1, <2>6, u \in Nat \ {0}, CancelFactor
  <2> QED BY <2>7 DEF sr, ml
<1>6. y <= l
  <2>1. SUFFICES ASSUME l + 1 <= y PROVE FALSE
    OBVIOUS
  <2> DEFINE yv == y * v
             xu == x * u
             xr == x * r
             ml == m * l
             mu == m * u
             rv == r * v
             lv == (l + 1) * v
  <2>2. /\ yv \in Nat /\ xu \in Nat /\ xr \in Nat /\ ml \in Nat /\ mu \in Nat /\ rv \in Nat
        /\ lv \in Nat /\ rv + v \in Nat
    <3>1. l + 1 \in Nat
      OBVIOUS
    <3> QED BY <1>1, <3>1
  <2>3. lv <= yv
    BY <2>1, TimesMonotone
  <2>4. yv <= xu /\ xr <= ml /\ mu <= rv + v
    BY <2>2
  <2>5. xu * r = xr * u /\ ml * u = mu * l
    BY <1>2
  <2>6. lv * r = rv * l + v * r
    <3>1. lv = l * v + v
      OBVIOUS
    <3>2. (l * v + v) * r = (l * v) * r + v * r
      OBVIOUS
    <3>3. (l * v) * r = (r * v) * l
      OBVIOUS
    <3> QED BY <3>1, <3>2, <3>3
  <2>7. (rv + v) * l = rv * l + v * l
    OBVIOUS
  <2> HIDE DEF yv, xu, xr, ml, mu, rv, lv
  <2>8. lv <= xu
    BY ONLY <2>2, <2>3, <2>4
  <2>9. lv * r <= xu * r /\ xr * u <= ml * u /\ mu * l <= (rv + v) * l
    BY ONLY <2>2, <2>4, <2>8, r \in Nat, l \in Nat, u \in Nat, TimesMonotone
  <2>10. /\ lv * r \in Nat /\ xu * r \in Nat /\ xr * u \in Nat /\ ml * u \in Nat /\ mu * l \in Nat
         /\ rv * l \in Nat /\ v * r \in Nat /\ v * l \in Nat /\ (rv + v) * l \in Nat
         /\ v * r = r * v /\ v * l = l * v
    BY <1>1, <2>2
  <2>11. v * r <= v * l
    BY ONLY <2>5, <2>6, <2>7, <2>9, <2>10
  <2>12. r * v <= l * v
    BY ONLY <2>10, <2>11
  <2>13. r <= l
    BY ONLY <2>12, r \in Nat, l \in Nat, v \in Nat \ {0}, CancelFactor
  <2> QED BY <2>13
<1> QED BY <1>4, <1>5, <1>6

\* The maximum that the F08 of a packet tells of is less than it, not less than the limit
\* rounded down, and the connector takes it.
LEMMA RefusalFits ==
  ASSUME path \in Nat, NEW m \in Nat, TooLarge(m)
  PROVE  /\ ReportedMaximum(m) \in Nat /\ SenderLimit \in Nat
         /\ SenderLimit <= ReportedMaximum(m) /\ ReportedMaximum(m) < m
         /\ ~TooLarge(ReportedMaximum(m))
<1> DEFINE l == path
           r == Received(m)
           x == ReportedMaximum(m)
           s == SenderLimit
           y == Received(x)
           u == UpNum
           v == UpDen
<1>1. u \in Nat \ {0} /\ v \in Nat \ {0} /\ l \in Nat
  BY ProbeAssumption
<1>2. r \in Nat /\ l < r
  <2>1. r \in Nat
    BY AmountsNat
  <2> QED BY <1>1, <2>1 DEF TooLarge
<1>3. m * u \in Nat /\ m * l \in Nat /\ l * v \in Nat
  BY <1>1
<1>4. r = (m * u) \div v /\ x = (m * l) \div r /\ s = (l * v) \div u /\ y = (x * u) \div v
  BY DEF Received, ReportedMaximum, SenderLimit
<1>5. TooLarge(x) <=> y > l
  BY DEF TooLarge
<1> HIDE DEF l, r, x, s, y, u, v
<1>6. r * v <= m * u /\ m * u < r * v + v
  BY <1>1, <1>3, <1>4, QuotientOf
<1>7. x \in Nat /\ x * r <= m * l /\ m * l < x * r + r
  <2>1. r \in Nat \ {0}
    BY <1>1, <1>2
  <2> QED BY <1>3, <1>4, <2>1, QuotientOf
<1>8. s \in Nat /\ s * u <= l * v
  BY <1>1, <1>3, <1>4, QuotientOf
<1>9. y \in Nat /\ y * v <= x * u
  <2>1. x * u \in Nat
    BY <1>1, <1>7
  <2> QED BY <1>1, <1>4, <2>1, QuotientOf
<1>10. x < m /\ s * r <= m * l /\ y <= l
  BY ONLY <1>1, <1>2, <1>6, <1>7, <1>8, <1>9, m \in Nat, RefusalArithmetic
<1>11. s <= x
  <2>1. s * r \in Nat /\ s * r + 0 <= m * l
    BY <1>2, <1>3, <1>8, <1>10
  <2>2. r \in Nat \ {0}
    BY <1>1, <1>2
  <2> QED BY ONLY <1>3, <1>4, <1>8, <2>1, <2>2, QuotientBound
<1>12. ~ (y > l)
  BY <1>1, <1>9, <1>10
<1> QED BY <1>5, <1>7, <1>8, <1>10, <1>11, <1>12 DEF x, s

\* What can be measured does not change while the path does not.
LEMMA MeasurableSame ==
  ASSUME UNCHANGED path
  PROVE  (Measurable' <=> Measurable) /\ SenderLimit' = SenderLimit
BY DEF Measurable, SenderLimit, Measures, Delivered, Received, TooLarge
-----------------------------------------------------------------------------
Result == [kind : {"none", "rate", "F08", "T", "F", "timeout", "thrown"}, amount : Nat]

\* The kinds of values that matter, and what a rate that was found stands on.
ProbeTypes ==
  /\ path \in Limits /\ failures \in [Kinds -> Nat]
  /\ DOMAIN result \subseteq Nat /\ result \in [DOMAIN result -> Result]
  /\ maximum \in Nat
  /\ \A n \in DOMAIN result : result[n].kind = "rate" => result[n].amount = Delivered(n)
  /\ state = "found" => /\ source \in Nat
                        /\ countDigits[Delivered(source)] >= MinPrecision

\* Nothing went wrong so far on a path that can be measured.
Clean ==
  /\ FailureCount = 0 /\ ~silent /\ ~stopped
  /\ SenderLimit # 0 /\ Measurable

\* It then is in its first volley, or its second with the maximums that the first's F08s told.
CleanVolley ==
  /\ maximum # 0
  /\ \A n \in DOMAIN result :
       \/ result[n] = UnderWay
       \/ ~TooLarge(n) /\ result[n] = Rate(n)
       \/ TooLarge(n) /\ result[n] = Refusal(ReportedMaximum(n))
  /\ \/ attempts = 1 /\ DOMAIN result = TestAmounts
     \/ /\ attempts = 2 /\ IsFiniteSet(DOMAIN result)
        /\ \A n \in DOMAIN result : ~TooLarge(n)
        /\ \E n \in DOMAIN result : Measures(n)

CleanInv ==
  Clean => state = "found" \/ (state = "volley" /\ CleanVolley)

ProbeInv == ProbeTypes /\ CleanInv

\* The kinds of failures are counted, and one of them is enough.
LEMMA FaultsCount ==
  ASSUME NEW f \in [Kinds -> Nat]
  PROVE  /\ SumFunction(f) \in Nat
         /\ \A k \in Kinds : f[k] <= SumFunction(f)
<1>1. SumFunction(f) = SumFunctionOnSet(f, Kinds)
  BY DEF SumFunction, FoldFunction, SumFunctionOnSet, FoldFunctionOnSet
<1>2. IsFiniteSet(Kinds)
  <2>1. IsFiniteSet({"T"}) /\ IsFiniteSet({"F"}) /\ IsFiniteSet({"timeout"}) /\ IsFiniteSet({"thrown"})
    BY FS_Singleton
  <2>2. IsFiniteSet({"T"} \cup {"F"}) /\ IsFiniteSet({"timeout"} \cup {"thrown"})
    BY <2>1, FS_Union
  <2>3. IsFiniteSet(({"T"} \cup {"F"}) \cup ({"timeout"} \cup {"thrown"}))
    BY <2>2, FS_Union
  <2>4. Kinds = ({"T"} \cup {"F"}) \cup ({"timeout"} \cup {"thrown"})
    BY DEF Kinds
  <2> QED BY <2>3, <2>4
<1>3. \A k \in Kinds : f[k] \in Nat
  OBVIOUS
<1>4. SumFunctionOnSet(f, Kinds) \in Nat
  BY <1>2, <1>3, SumIsNat
<1>5. \A k \in Kinds : f[k] <= SumFunctionOnSet(f, Kinds)
  BY <1>2, <1>3, SumBoundsPart
<1> QED BY <1>1, <1>4, <1>5

\* A volley that has just been sent.
LEMMA VolleyType ==
  ASSUME NEW A, A \subseteq Nat
  PROVE  /\ DOMAIN Volley(A) = A
         /\ Volley(A) \in [A -> Result]
         /\ \A n \in A : Volley(A)[n] = UnderWay /\ Volley(A)[n].kind = "none"
BY DEF Volley, UnderWay, Failed, Result

LEMMA ProbeFirst == ProbeInit => ProbeInv
<1> SUFFICES ASSUME ProbeInit PROVE ProbeInv
  OBVIOUS
<1>1. /\ state = "volley" /\ attempts = 1 /\ result = Volley(TestAmounts)
      /\ maximum = Unlimited /\ path \in Limits
      /\ failures = [k \in Kinds |-> 0]
  BY DEF ProbeInit
<1>2. TestAmounts \subseteq Nat /\ Unlimited \in Nat
  BY UnlimitedIsMore, ProbeAssumption
<1>3. /\ DOMAIN result = TestAmounts /\ result \in [TestAmounts -> Result]
      /\ \A n \in TestAmounts : result[n] = UnderWay /\ result[n].kind = "none"
  BY <1>1, <1>2, VolleyType
<1>4. ProbeTypes
  BY <1>1, <1>2, <1>3 DEF ProbeTypes
<1>5. CleanVolley
  <2>1. Unlimited # 0
    <3>1. PICK n \in TestAmounts : TRUE
      BY ProbeAssumption
    <3>2. n \in Nat /\ n < Unlimited
      BY <1>2, UnlimitedIsMore
    <3>3. \A x \in Nat : \A y \in Nat : x < y => y # 0
      OBVIOUS
    <3> QED BY <1>2, <3>2, <3>3
  <2> QED BY <1>1, <1>3, <2>1 DEF CleanVolley
<1> QED BY <1>1, <1>4, <1>5 DEF ProbeInv, CleanInv

\* What was clean before stays out of sight of what follows.
LEMMA TestAnswerKeeps ==
  ASSUME ProbeInv, NEW n \in DOMAIN result, TestAnswer(n)
  PROVE  ProbeInv'
<1>1. /\ state = "volley" /\ result[n] = UnderWay
      /\ UNCHANGED <<state, attempts, maximum, source, stopped, path, failures>>
  BY DEF TestAnswer
<1>2. /\ n \in Nat /\ path \in Nat /\ Unlimited \in Nat /\ Delivered(n) \in Nat
      /\ TooLarge(n) => ReportedMaximum(n) \in Nat
  <2>1. n \in Nat /\ path \in Nat
    BY ProbeAssumption DEF ProbeInv, ProbeTypes
  <2> QED BY <2>1, UnlimitedIsMore, AmountsNat, RefusalFits
<1>3. \A m : /\ Delivered(m)' = Delivered(m) /\ TooLarge(m)' = TooLarge(m)
             /\ Rate(m)' = Rate(m) /\ Measures(m)' = Measures(m)
             /\ Refusal(ReportedMaximum(m))' = Refusal(ReportedMaximum(m))
  BY <1>1 DEF Delivered, Received, TooLarge, Rate, Measures, Refusal, ReportedMaximum
<1>4. ASSUME NEW r \in Result, result' = [result EXCEPT ![n] = r],
             r.kind = "rate" => r.amount = Delivered(n)
      PROVE  /\ DOMAIN result' = DOMAIN result
             /\ \A m \in DOMAIN result : result'[m] = IF m = n THEN r ELSE result[m]
             /\ ProbeTypes'
  <2>1. DOMAIN result' = DOMAIN result /\ result' \in [DOMAIN result -> Result]
    BY <1>4 DEF ProbeInv, ProbeTypes
  <2>2. \A m \in DOMAIN result : result'[m] = IF m = n THEN r ELSE result[m]
    BY <1>4
  <2>3. \A m \in DOMAIN result' : result'[m].kind = "rate" => result'[m].amount = Delivered(m)'
    BY <1>3, <1>4, <2>1, <2>2 DEF ProbeInv, ProbeTypes
  <2>4. ProbeTypes'
    BY <1>1, <2>1, <2>3 DEF ProbeInv, ProbeTypes
  <2> QED BY <2>1, <2>2, <2>4
<1>5. ASSUME Clean', ~silent,
             DOMAIN result' = DOMAIN result, NEW r,
             \A m \in DOMAIN result : result'[m] = IF m = n THEN r ELSE result[m],
             \/ ~TooLarge(n) /\ r = Rate(n)
             \/ TooLarge(n) /\ r = Refusal(ReportedMaximum(n))
      PROVE  CleanVolley'
  <2>1. Clean
    BY <1>1, <1>5, MeasurableSame DEF Clean, FailureCount
  <2>2. CleanVolley
    BY <1>1, <2>1 DEF ProbeInv, CleanInv
  <2>3. \A m \in DOMAIN result' :
          \/ result'[m] = UnderWay
          \/ ~TooLarge(m)' /\ result'[m] = Rate(m)'
          \/ TooLarge(m)' /\ result'[m] = Refusal(ReportedMaximum(m))'
    BY <1>3, <1>5, <2>2 DEF CleanVolley
  <2>4. \/ attempts' = 1 /\ DOMAIN result' = TestAmounts
        \/ /\ attempts' = 2 /\ IsFiniteSet(DOMAIN result')
           /\ \A m \in DOMAIN result' : ~TooLarge(m)'
           /\ \E m \in DOMAIN result' : Measures(m)'
    BY <1>1, <1>3, <1>5, <2>2 DEF CleanVolley
  <2>5. maximum' # 0
    BY <1>1, <2>2 DEF CleanVolley
  <2> QED BY <2>3, <2>4, <2>5 DEF CleanVolley, UnderWay, Failed
<1>6. CASE ~TooLarge(n) /\ result' = [result EXCEPT ![n] = Rate(n)] /\ UNCHANGED silent
  <2>1. Rate(n) \in Result /\ Rate(n).amount = Delivered(n)
    BY <1>2 DEF Rate, Result
  <2>2. /\ DOMAIN result' = DOMAIN result /\ ProbeTypes'
        /\ \A m \in DOMAIN result : result'[m] = IF m = n THEN Rate(n) ELSE result[m]
    BY <1>4, <1>6, <2>1
  <2>3. ASSUME Clean' PROVE CleanVolley'
    <3>1. ~silent
      BY <1>6, <2>3 DEF Clean
    <3> QED BY <1>5, <1>6, <2>2, <2>3, <3>1
  <2> QED BY <1>1, <2>2, <2>3 DEF ProbeInv, CleanInv
<1>7. CASE TooLarge(n) /\ \E said \in Reports :
             /\ result' = [result EXCEPT ![n] =
                             Refusal(IF said THEN ReportedMaximum(n) ELSE Unlimited)]
             /\ silent' = (silent \/ ~said)
  <2>1. PICK said \in Reports :
             /\ result' = [result EXCEPT ![n] =
                             Refusal(IF said THEN ReportedMaximum(n) ELSE Unlimited)]
             /\ silent' = (silent \/ ~said)
    BY <1>7
  <2> DEFINE r == Refusal(IF said THEN ReportedMaximum(n) ELSE Unlimited)
  <2>2. r \in Result /\ r.kind = "F08"
    BY <1>2, <1>7 DEF Refusal, Result
  <2>3. /\ DOMAIN result' = DOMAIN result /\ ProbeTypes'
        /\ \A m \in DOMAIN result : result'[m] = IF m = n THEN r ELSE result[m]
    <3> HIDE DEF r
    <3> QED BY <1>4, <2>1, <2>2 DEF r
  <2>4. ASSUME Clean' PROVE CleanVolley'
    <3>1. said /\ ~silent
      BY <2>1, <2>4 DEF Clean
    <3>2. r = Refusal(ReportedMaximum(n))
      BY <3>1
    <3> HIDE DEF r
    <3> QED BY <1>5, <1>7, <2>3, <2>4, <3>1, <3>2
  <2> QED BY <1>1, <2>3, <2>4 DEF ProbeInv, CleanInv
<1> QED BY <1>6, <1>7 DEF TestAnswer

LEMMA FailKeeps ==
  ASSUME ProbeInv, NEW n \in DOMAIN result, NEW k \in Kinds,
         Fails(n, k)
  PROVE  ProbeInv'
<1>1. /\ state = "volley" /\ failures' = [failures EXCEPT ![k] = @ + 1]
      /\ UNCHANGED <<attempts, maximum, source, stopped, path, silent>>
      /\ IF k = "thrown" THEN state' = "failed" /\ result' = Volley({})
         ELSE state' = state /\ result' = [result EXCEPT ![n] = Failed(k)]
  BY DEF Fails
<1>2. failures' \in [Kinds -> Nat] /\ failures'[k] >= 1
  BY <1>1 DEF ProbeInv, ProbeTypes
<1>3. FailureCount' # 0
  <2>1. FailureCount' \in Nat /\ failures'[k] <= FailureCount'
    <3>1. SumFunction(failures') \in Nat /\ failures'[k] <= SumFunction(failures')
      BY <1>2, FaultsCount
    <3> QED BY <3>1 DEF FailureCount
  <2> QED BY <1>2, <2>1
<1>4. ~Clean'
  BY <1>3 DEF Clean
<1>5. ProbeTypes'
  <2>1. /\ DOMAIN result' \subseteq Nat /\ result' \in [DOMAIN result' -> Result]
        /\ \A m \in DOMAIN result' : result'[m].kind = "rate" =>
             result[m].kind = "rate" /\ m \in DOMAIN result /\ result'[m] = result[m]
    <3>1. CASE k = "thrown"
      <4>1. {} \subseteq Nat
        OBVIOUS
      <4> QED BY <1>1, <3>1, <4>1, VolleyType
    <3>2. CASE k # "thrown"
      <4>1. /\ Failed(k) \in Result /\ Failed(k).kind # "rate"
        BY <3>2 DEF Failed, Result, Kinds
      <4>2. result' = [result EXCEPT ![n] = Failed(k)]
        BY <1>1, <3>2
      <4> QED BY <4>1, <4>2 DEF ProbeInv, ProbeTypes
    <3> QED BY <3>1, <3>2
  <2>2. state' # "found"
    BY <1>1
  <2>3. \A m \in DOMAIN result' : result'[m].kind = "rate" => result'[m].amount = Delivered(m)
    BY <2>1 DEF ProbeInv, ProbeTypes
  <2> QED BY <1>1, <1>2, <2>1, <2>2, <2>3 DEF ProbeInv, ProbeTypes, Delivered, Received, Kinds
<1> QED BY <1>4, <1>5 DEF ProbeInv, CleanInv
LEMMA PauseKeeps ==
  ASSUME ProbeInv, PauseOver
  PROVE  ProbeInv'
<1>1. /\ state = "pause" /\ state' # "found"
      /\ UNCHANGED <<maximum, source, stopped, path, failures, silent>>
      /\ result' = Volley({}) \/ result' = result
  BY DEF PauseOver
<1>2. ~Clean /\ ~Clean'
  <2>1. ~Clean
    BY <1>1 DEF ProbeInv, CleanInv
  <2> QED BY <1>1, <2>1, MeasurableSame DEF Clean, FailureCount
<1>3. ProbeTypes'
  <2>1. CASE result' = result
    BY <1>1, <2>1 DEF ProbeInv, ProbeTypes, Delivered, Received
  <2>2. CASE result' = Volley({})
    <3>1. DOMAIN result' = {} /\ result' \in [{} -> Result]
      <4>1. {} \subseteq Nat
        OBVIOUS
      <4> QED BY <2>2, <4>1, VolleyType
    <3> QED BY <1>1, <3>1 DEF ProbeInv, ProbeTypes, Delivered, Received
  <2> QED BY <1>1, <2>1, <2>2
<1> QED BY <1>2, <1>3 DEF ProbeInv, CleanInv

LEMMA StopKeeps ==
  ASSUME ProbeInv, stop
  PROVE  ProbeInv'
<1>1. /\ stopped' = TRUE
      /\ UNCHANGED <<state, attempts, result, maximum, source, path, failures, silent>>
  BY DEF stop
<1>2. ProbeTypes' /\ ~Clean'
  BY <1>1 DEF ProbeInv, ProbeTypes, Clean, Delivered, Received
<1> QED BY <1>2 DEF ProbeInv, CleanInv

\* The amounts that are tried next are amounts.
LEMMA NextAmountsNat ==
  ASSUME ProbeTypes
  PROVE  /\ maxPacketAmounts \subseteq Nat
         /\ NextAmounts \subseteq Nat
<1>1. maxPacketAmounts \subseteq Nat
  BY DEF ProbeTypes, Result, maxPacketAmounts, AmountsOf, Amounts
<1>2. Reduced \subseteq Nat
  <2> DEFINE S == AmountsOf("T") \cup AmountsOf("F") \cup AmountsOf("F08")
             m == Min(S)
  <2>1. CASE AmountsOf("T") = {}
    BY <2>1 DEF Reduced
  <2>2. CASE AmountsOf("T") # {}
    <3>1. S \subseteq Nat /\ S # {}
      BY <2>2 DEF ProbeTypes, AmountsOf, Amounts
    <3>2. m \in Nat
      <4> HIDE DEF S
      <4> QED BY <3>1, LeastOf
    <3>3. Reduced = {TwoThirds(m)}
      BY <2>2 DEF Reduced
    <3> HIDE DEF m
    <3>4. \A x \in Nat : x - (x \div 3) \in Nat
      OBVIOUS
    <3>5. TwoThirds(m) \in Nat
      BY <3>2, <3>4 DEF TwoThirds
    <3> QED BY <3>3, <3>5
  <2> QED BY <2>1, <2>2
<1> QED BY <1>1, <1>2 DEF NextAmounts

\* The packet of an amount that is precise enough makes the volley so.
LEMMA PreciseExists ==
  ASSUME ProbeTypes, IsFiniteSet(DOMAIN result),
         NEW n \in DOMAIN result, result[n].kind = "rate",
         countDigits[Delivered(n)] >= MinPrecision
  PROVE  Precise # {}
<1> DEFINE R == AmountsOf("rate")
           S == {Digits(m) : m \in R}
<1>1. R \subseteq DOMAIN result /\ n \in R
  BY DEF AmountsOf, Amounts
<1>2. \A m \in R : Digits(m) = countDigits[result[m].amount] /\ Digits(m) \in Nat
  BY <1>1, DigitsRecursion DEF ProbeTypes, Result, Digits
<1>3. S \subseteq Nat /\ S # {} /\ IsFiniteSet(S)
  <2>1. IsFiniteSet(R)
    BY <1>1, FS_Subset
  <2>2. IsFiniteSet(S)
    <3> DEFINE f == [m \in R |-> Digits(m)]
    <3>1. f \in [R -> S] /\ \A d \in S : \E m \in R : f[m] = d
      OBVIOUS
    <3>2. f \in Surjection(R, S)
      <4> HIDE DEF f, R, S
      <4> QED BY <3>1 DEF Surjection
    <3> HIDE DEF f, R, S
    <3> QED BY <2>1, <3>2, FS_Surjection
  <2> QED BY <1>1, <1>2, <2>2
<1>4. PICK d \in S : \A e \in S : e <= d
  <2> HIDE DEF S
  <2> QED BY <1>3, LargestNumber
<1>5. PICK m \in R : d = Digits(m)
  OBVIOUS
<1>6. \A k \in R : Digits(k) <= Digits(m)
  BY <1>4, <1>5
<1>7. Digits(n) >= MinPrecision
  BY <1>1, <1>2 DEF ProbeTypes
<1>8. Digits(m) >= MinPrecision
  <2>1. /\ Digits(n) \in Nat /\ Digits(m) \in Nat /\ MinPrecision \in Nat
        /\ Digits(n) <= Digits(m)
    BY <1>1, <1>2, <1>5, <1>6, ProbeAssumption
  <2> QED BY <1>7, <2>1
<1>9. m \in Precise
  BY <1>5, <1>6, <1>8 DEF Precise, MostPrecise
<1> QED BY <1>9

LEMMA VolleyOverTypes ==
  ASSUME ProbeInv, VolleyOver
  PROVE  ProbeTypes'
<1>1. /\ UNCHANGED <<stopped, path, failures, silent>>
      /\ maximum' = Min(maxPacketAmounts \cup {maximum})
      /\ result' = Volley(NextAmounts) \/ result' = Volley({})
  BY DEF VolleyOver
<1>2. maxPacketAmounts \subseteq Nat /\ NextAmounts \subseteq Nat
  BY NextAmountsNat DEF ProbeInv
<1>3. maximum' \in Nat
  <2> DEFINE S == maxPacketAmounts \cup {maximum}
  <2>1. S \subseteq Nat /\ S # {}
    BY <1>2 DEF ProbeInv, ProbeTypes
  <2> HIDE DEF S
  <2>2. Min(S) \in Nat
    BY <2>1, LeastOf
  <2> QED BY <1>1, <2>2 DEF S
<1>4. /\ DOMAIN result' \subseteq Nat /\ result' \in [DOMAIN result' -> Result]
      /\ \A n \in DOMAIN result' : result'[n].kind = "none"
  <2>1. {} \subseteq Nat
    OBVIOUS
  <2> QED BY <1>1, <1>2, <2>1, VolleyType
<1>5. state' = "found" => /\ source' \in Nat
                          /\ countDigits[Delivered(source')] >= MinPrecision
  <2> SUFFICES ASSUME state' = "found"
               PROVE  /\ source' \in Nat
                      /\ countDigits[Delivered(source')] >= MinPrecision
    OBVIOUS
  <2>1. source' \in Precise
    BY DEF VolleyOver
  <2>2. /\ source' \in DOMAIN result /\ result[source'].kind = "rate"
        /\ Digits(source') >= MinPrecision
    BY <2>1 DEF Precise, MostPrecise, AmountsOf, Amounts
  <2> QED BY <2>2 DEF Digits, ProbeInv, ProbeTypes
<1> QED BY <1>1, <1>3, <1>4, <1>5 DEF ProbeInv, ProbeTypes, Delivered, Received

\* A volley that is over when nothing went wrong: found, or the maximums that were told are
\* tried next, one of which is at least the limit.
LEMMA VolleyOverClean ==
  ASSUME ProbeInv, VolleyOver, Clean
  PROVE  state' = "found" \/ (state' = "volley" /\ CleanVolley')
<1>1. CleanVolley /\ ProbeTypes /\ state = "volley"
  BY DEF VolleyOver, ProbeInv, CleanInv
<1>2. /\ path \in Nat /\ Unlimited \in Nat
      /\ TestAmounts \subseteq Nat /\ IsFiniteSet(TestAmounts)
      /\ \A n \in TestAmounts : n < Unlimited
  BY <1>1, UnlimitedIsMore, ProbeAssumption DEF ProbeTypes
<1>3. \A n \in DOMAIN result :
        \/ ~TooLarge(n) /\ result[n].kind = "rate"
        \/ TooLarge(n) /\ result[n].kind = "F08" /\ result[n].amount = ReportedMaximum(n)
  BY <1>1 DEF CleanVolley, VolleyOver, Amounts, Rate, Refusal
<1>4. IsFiniteSet(DOMAIN result) /\ DOMAIN result \subseteq Nat
  BY <1>1, <1>2 DEF CleanVolley, ProbeTypes
<1>5. /\ maximum' = Min(maxPacketAmounts \cup {maximum})
      /\ UNCHANGED <<stopped, path, failures, silent>>
  BY DEF VolleyOver
<1> DEFINE F == {n \in DOMAIN result : TooLarge(n)}
           X == {ReportedMaximum(n) : n \in F}
<1>6. maxPacketAmounts = X
  <2>1. AmountsOf("F08") = F
    BY <1>3 DEF AmountsOf, Amounts
  <2>2. \A n \in F : result[n].amount = ReportedMaximum(n)
    BY <1>3
  <2> QED BY <2>1, <2>2 DEF maxPacketAmounts
<1>7. \A n \in F : /\ n \in Nat /\ ReportedMaximum(n) \in Nat /\ SenderLimit \in Nat
                   /\ SenderLimit <= ReportedMaximum(n) /\ ReportedMaximum(n) < n
                   /\ ~TooLarge(ReportedMaximum(n))
  BY <1>2, <1>4, RefusalFits
<1>8. \A x \in X : /\ x \in Nat /\ SenderLimit \in Nat /\ SenderLimit <= x /\ x # 0
                   /\ ~TooLarge(x)
  <2>1. \A n \in F : ReportedMaximum(n) # 0
    <3>1. SenderLimit # 0
      BY DEF Clean
    <3> QED BY <1>7, <3>1
  <2> QED BY <1>7, <2>1
<1>9. maximum' # 0
  <2> DEFINE S == maxPacketAmounts \cup {maximum}
  <2>1. S \subseteq Nat /\ S # {} /\ 0 \notin S
    BY <1>1, <1>6, <1>8 DEF CleanVolley, ProbeTypes
  <2> HIDE DEF S
  <2>2. Min(S) \in S
    BY <2>1, LeastOf
  <2> QED BY <1>5, <2>1, <2>2 DEF S
<1>10. CASE \E n \in DOMAIN result : ~TooLarge(n) /\ Measures(n)
  <2>1. PICK n \in DOMAIN result : ~TooLarge(n) /\ Measures(n)
    BY <1>10
  <2>2. result[n].kind = "rate" /\ countDigits[Delivered(n)] >= MinPrecision
    BY <1>3, <2>1 DEF Measures
  <2>3. Precise # {}
    BY <1>1, <1>4, <2>2, PreciseExists
  <2> QED BY <1>9, <2>3 DEF VolleyOver
<1>11. CASE ~ \E n \in DOMAIN result : ~TooLarge(n) /\ Measures(n)
  <2>1. attempts = 1 /\ DOMAIN result = TestAmounts
    BY <1>1, <1>11 DEF CleanVolley
  <2>2. (\E m \in TestAmounts : TooLarge(m)) /\ Measures(SenderLimit)
    BY <1>11, <2>1 DEF Clean, Measurable
  <2>3. PICK m \in F : TRUE
    BY <2>1, <2>2
  <2>4. AmountsOf("T") = {}
    BY <1>3 DEF AmountsOf, Amounts
  <2>5. NextAmounts = X
    <3>1. Unlimited \notin X
      <4> SUFFICES ASSUME NEW n \in F, Unlimited = ReportedMaximum(n) PROVE FALSE
        OBVIOUS
      <4>1. n \in Nat /\ n < Unlimited /\ ReportedMaximum(n) < n
        BY <1>2, <1>7, <2>1
      <4> QED BY <1>2, <4>1
    <3> HIDE DEF X
    <3> QED BY <1>6, <2>4, <3>1 DEF NextAmounts, Reduced
  <2>6. attempts # MaxAttempts
    BY <2>1, ProbeAssumption
  <2>7. SUFFICES ASSUME state' # "found"
                 PROVE  state' = "volley" /\ CleanVolley'
    OBVIOUS
  <2>8. X # {}
    BY <2>3
  <2>9. state' = "volley"
    BY <1>9, <2>4, <2>5, <2>6, <2>7, <2>8 DEF VolleyOver
  <2>10. attempts' = 2 /\ result' = Volley(X)
    <3>1. attempts' = attempts + 1 /\ result' = Volley(NextAmounts)
      BY <2>9 DEF VolleyOver
    <3> QED BY <2>1, <2>5, <3>1
  <2>11. DOMAIN result' = X /\ \A n \in X : result'[n] = UnderWay
    <3>1. X \subseteq Nat
      BY <1>8
    <3> HIDE DEF X
    <3> QED BY <2>10, <3>1, VolleyType
  <2>12. IsFiniteSet(X)
    <3> DEFINE f == [n \in F |-> ReportedMaximum(n)]
    <3>1. f \in [F -> X] /\ \A x \in X : \E n \in F : f[n] = x
      OBVIOUS
    <3>2. IsFiniteSet(F)
      BY <1>4, FS_Subset
    <3>3. f \in Surjection(F, X)
      <4> HIDE DEF f, F, X
      <4> QED BY <3>1 DEF Surjection
    <3> HIDE DEF f, F, X
    <3> QED BY <3>2, <3>3, FS_Surjection
  <2>13. \E x \in X : Measures(x)
    <3>1. ReportedMaximum(m) \in X
      OBVIOUS
    <3>2. /\ SenderLimit \in Nat /\ ReportedMaximum(m) \in Nat
          /\ SenderLimit <= ReportedMaximum(m)
      BY <1>7
    <3>3. Measures(ReportedMaximum(m))
      BY <2>2, <3>2, MeasuresMore
    <3> QED BY <3>1, <3>3
  <2>14. \A n : TooLarge(n)' = TooLarge(n) /\ Measures(n)' = Measures(n)
    BY <1>5 DEF TooLarge, Received, Measures, Delivered
  <2>15. \A x \in X : ~TooLarge(x)
    BY <1>8
  <2> HIDE DEF X
  <2> QED
    BY <1>9, <2>9, <2>10, <2>11, <2>12, <2>13, <2>14, <2>15
    DEF CleanVolley, UnderWay, Failed
<1> QED BY <1>10, <1>11

LEMMA VolleyOverKeeps ==
  ASSUME ProbeInv, VolleyOver
  PROVE  ProbeInv'
<1>1. UNCHANGED <<stopped, path, failures, silent>>
  BY DEF VolleyOver
<1>2. Clean' => Clean
  BY <1>1, MeasurableSame DEF Clean, FailureCount
<1>3. CleanInv'
  BY <1>2, VolleyOverClean DEF CleanInv
<1> QED BY <1>3, VolleyOverTypes DEF ProbeInv

LEMMA ProbeStep ==
  ProbeInv /\ [ProbeNext]_probeVars => ProbeInv'
<1> SUFFICES ASSUME ProbeInv, [ProbeNext]_probeVars PROVE ProbeInv'
  OBVIOUS
<1>1. CASE VolleyOver
  BY <1>1, VolleyOverKeeps
<1>2. CASE PauseOver
  BY <1>2, PauseKeeps
<1>3. CASE \E n \in Amounts : TestAnswer(n)
  BY <1>3, TestAnswerKeeps DEF Amounts
<1>4. CASE stop
  BY <1>4, StopKeeps
<1>5. CASE \E n \in Amounts, k \in Kinds : Fails(n, k)
  BY <1>5, FailKeeps DEF Amounts
<1>6. CASE UNCHANGED probeVars
  BY <1>6 DEF probeVars, ProbeInv, ProbeTypes, CleanInv, Clean, CleanVolley, FailureCount,
              Measurable, SenderLimit, Measures, Delivered, Received, TooLarge,
              ReportedMaximum, Unlimited, UnderWay, Rate, Refusal
<1> QED BY <1>1, <1>2, <1>3, <1>4, <1>5, <1>6 DEF ProbeNext, ProbeProgress

LEMMA AlwaysProbe == ProbeSpec => []ProbeInv
BY ProbeFirst, ProbeStep, PTL DEF ProbeSpec

\* determineExchangeRate (1298) gives up on a path that its first volley, or the connector's
\* limit in the sender's units, can measure only for a failure, an F08 that did not say the
\* maximum, the end of the connection, or a limit below one unit: for all amounts, limits,
\* rates and precisions, with every conversion rounded down as connection.ts 1239-1245 does.
THEOREM GivesUpForCauseHolds == ProbeSpec => []GivesUpForCause
<1>1. ProbeInv => GivesUpForCause
  <2> SUFFICES ASSUME ProbeInv, state = "failed", Measurable, ~silent, ~stopped,
                      SenderLimit # 0
               PROVE  FailureCount > 0
    BY DEF GivesUpForCause
  <2>1. ~Clean
    BY DEF ProbeInv, CleanInv
  <2>2. FailureCount \in Nat
    BY FaultsCount DEF ProbeInv, ProbeTypes, FailureCount
  <2> QED BY <2>1, <2>2 DEF Clean
<1> QED BY <1>1, AlwaysProbe, PTL

\* What two roundings leave: s units are r of the connector's, which are d of the receiver's.
LEMMA TwoRoundings ==
  ASSUME NEW s \in Nat, NEW u \in Nat \ {0}, NEW v \in Nat \ {0},
         NEW b \in Nat \ {0}, NEW c \in Nat \ {0}, NEW d \in Nat, NEW p \in Nat \ {0}, p <= d,
         d = (((s * u) \div v) * b) \div c
  PROVE  (s * u * b - d * v * c) * p < d * v * (c + b)
<1> DEFINE r == (s * u) \div v
           e == (s * u) % v
           f == (r * b) % c
<1>1. s * u \in Nat
  OBVIOUS
<1>2. r \in Nat /\ e \in Nat /\ e < v /\ s * u = r * v + e
  BY <1>1, Division
<1> HIDE DEF r, e
<1>3. r * b \in Nat
  BY <1>2
<1>4. f \in Nat /\ f < c /\ r * b = d * c + f
  BY <1>3, Division DEF r
<1> HIDE DEF f
<1> DEFINE x == v * f
           y == e * b
           w == d * v
           z == x + y
<1>5. s * u * b - d * v * c = z
  <2>1. s * u * b = (r * v + e) * b
    BY <1>2
  <2>2. (r * v + e) * b = (r * b) * v + e * b
    BY <1>2
  <2>3. (r * b) * v = (d * c + f) * v
    BY <1>4
  <2>4. (d * c + f) * v = d * v * c + v * f
    BY <1>4
  <2>5. d * v * c \in Nat /\ v * f \in Nat /\ e * b \in Nat
    <3>1. \A k \in Nat : \A n \in Nat : k * n \in Nat
      OBVIOUS
    <3> QED BY <1>2, <1>4, <3>1
  <2> QED BY ONLY <2>1, <2>2, <2>3, <2>4, <2>5
<1>6. z < v * (c + b) /\ z \in Nat
  <2>1. (f + 1) * v <= c * v
    BY <1>4, TimesMonotone
  <2>2. (e + 1) * b <= v * b
    BY <1>2, TimesMonotone
  <2>3. (f + 1) * v = x + v /\ c * v = v * c
    BY <1>4
  <2>4. (e + 1) * b = y + b
    BY <1>2
  <2>5. v * (c + b) = v * c + v * b
    OBVIOUS
  <2>6. x \in Nat /\ y \in Nat /\ v * c \in Nat /\ v * b \in Nat
    BY <1>2, <1>4
  <2> HIDE DEF x, y
  <2> QED BY <2>1, <2>2, <2>3, <2>4, <2>5, <2>6
<1>7. d * v * (c + b) = (v * (c + b)) * d
  OBVIOUS
<1> DEFINE m == v * (c + b)
<1>8. m \in Nat
  OBVIOUS
<1>9. z < m /\ z \in Nat
  BY <1>6
<1> HIDE DEF z, m
<1>10. z * p <= z * d
  <2>1. p * z <= d * z /\ p * z = z * p /\ d * z = z * d
    BY <1>9, TimesMonotone
  <2> QED BY <2>1
<1>11. z * d < m * d
  <2>1. (z + 1) * d <= m * d
    BY <1>8, <1>9, TimesMonotone
  <2>2. (z + 1) * d = z * d + d /\ z * d \in Nat /\ m * d \in Nat
    BY <1>8, <1>9
  <2>3. d > 0
    OBVIOUS
  <2> QED BY <2>1, <2>2, <2>3
<1>12. z * p \in Nat /\ z * d \in Nat /\ m * d \in Nat
  BY <1>8, <1>9
<1>13. z * p < m * d
  BY <1>10, <1>11, <1>12
<1> QED BY <1>5, <1>7, <1>13 DEF m

\* The rate that is taken (1320) is short of the path's own by less than the roundings of the
\* connector's and the receiver's amounts can take from the last of its digits.
THEOREM PreciseEnoughHolds == ProbeSpec => []PreciseEnough
<1>1. ProbeInv => PreciseEnough
  <2> SUFFICES ASSUME ProbeInv, state = "found" PROVE PreciseEnough
    BY DEF PreciseEnough
  <2> DEFINE D == Delivered(source)
             k == MinPrecision - 1
             P == Power[k]
  <2>1. /\ source \in Nat /\ countDigits[D] >= MinPrecision
        /\ {UpNum, UpDen, RateNum, RateDen, MinPrecision} \subseteq Nat \ {0}
    BY ProbeAssumption DEF ProbeInv, ProbeTypes
  <2>2. D \in Nat /\ k \in Nat
    BY <2>1, AmountsNat
  <2>3. D = (((source * UpNum) \div UpDen) * RateNum) \div RateDen
    BY DEF Delivered, Received
  <2>4. PreciseEnough <=>
          (source * UpNum * RateNum - D * UpDen * RateDen) * P < D * UpDen * (RateDen + RateNum)
    BY DEF PreciseEnough
  <2>5. P \in Nat \ {0} /\ P <= D
    <3>1. countDigits[D] >= k + 1
      BY <2>1
    <3> HIDE DEF D, k
    <3>2. Power[k] <= D
      BY <2>2, <3>1, DigitsBound
    <3> QED BY <2>2, <3>2, PowerRecursion
  <2> HIDE DEF D, k, P
  <2>6. (source * UpNum * RateNum - D * UpDen * RateDen) * P < D * UpDen * (RateDen + RateNum)
    BY <2>1, <2>2, <2>3, <2>5, TwoRoundings
  <2> QED BY <2>4, <2>6
<1> QED BY <1>1, AlwaysProbe, PTL
=============================================================================
