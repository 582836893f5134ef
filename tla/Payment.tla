------------------------------- MODULE Payment -------------------------------
(***************************************************************************)
(* What a connection promises about the money of its streams: it goes over *)
(* in packets, one after the other, each of them delivered and settled     *)
(* once or not at all, within what the two applications allow.             *)
(***************************************************************************)
EXTENDS LongArith, Functions

CONSTANTS Streams, RateNum, RateDen

VARIABLES
  sendLimit,     \* the most a stream was ever allowed to send
  receiveLimit,  \* the most it was allowed to receive
  sent,          \* what it counts as sent, in the sender's units
  got,           \* what the receiver has, in its units
  pending,       \* the packet that is delivered and not settled, by stream
  failed         \* the connection is destroyed

vars == <<sendLimit, receiveLimit, sent, got, pending, failed>>

Zero == [s \in Streams |-> 0]

Total(m) == SumFunction(m)

\* What a packet delivers to a stream: its share of what the packet is converted to.
Share(m, s) == Floor(Floor(Total(m), RateNum, RateDen), m[s], Total(m))

\* One percent, and less than a unit more, may be received beyond a limit.
Allowed(limit) == Ceil(limit, 101, 100)

Init ==
  /\ sendLimit = Zero /\ receiveLimit = Zero
  /\ sent = Zero /\ got = Zero /\ pending = Zero
  /\ failed = FALSE

Allow ==
  /\ sendLimit' \in [Streams -> Long] /\ receiveLimit' \in [Streams -> Long]
  /\ \A s \in Streams : sendLimit[s] <= sendLimit'[s] /\ receiveLimit[s] <= receiveLimit'[s]
  /\ UNCHANGED <<sent, got, pending, failed>>

Deliver(m) ==
  /\ pending = Zero /\ m # Zero
  /\ \A s \in Streams : sent[s] + m[s] <= sendLimit[s]
  /\ pending' = m
  /\ got' = [s \in Streams |-> IF m[s] = 0 THEN got[s] ELSE got[s] + Share(m, s)]
  /\ \A s \in Streams : got'[s] <= Allowed(receiveLimit[s])
  /\ UNCHANGED <<sendLimit, receiveLimit, sent, failed>>

Settle ==
  /\ pending # Zero /\ ~failed
  /\ sent' = [s \in Streams |-> sent[s] + pending[s]]
  /\ pending' = Zero
  /\ UNCHANGED <<sendLimit, receiveLimit, got, failed>>

\* A sender that fails may not have learnt of the last delivery, and never settles it.
Fail ==
  /\ ~failed
  /\ failed' = TRUE
  /\ UNCHANGED <<sendLimit, receiveLimit, sent, got, pending>>

Next == Allow \/ (\E m \in [Streams -> Long] : Deliver(m)) \/ Settle \/ Fail

Spec == Init /\ [][Next]_vars
=============================================================================
