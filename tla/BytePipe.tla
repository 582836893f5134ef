------------------------------ MODULE BytePipe ------------------------------
(***************************************************************************)
(* What a stream promises for data: "the same interface as the Node.js     *)
(* Stream API" (README.md:295).  The bytes that are written arrive in      *)
(* order, each once, and the reader sees the end of the stream after all   *)
(* of them, unless the stream has failed.                                  *)
(***************************************************************************)
EXTENDS Naturals, Sequences

CONSTANTS Streams

VARIABLES
  written,   \* the bytes that have been written to each stream
  arrived,   \* how many of them have reached the peer's stream
  got,       \* the bytes that its application has read
  ended,     \* whether the peer's stream has ended
  failed     \* whether the stream, or the connection, has failed

vars == <<written, arrived, got, ended, failed>>

Init ==
  /\ written = [s \in Streams |-> <<>>] /\ arrived = [s \in Streams |-> 0]
  /\ got = [s \in Streams |-> <<>>]
  /\ ended = [s \in Streams |-> FALSE] /\ failed = [s \in Streams |-> FALSE]

IsPrefixOf(a, b) == Len(a) <= Len(b) /\ a = SubSeq(b, 1, Len(a))

Write(s) ==
  /\ IsPrefixOf(written[s], written'[s]) /\ ~ended[s]
  /\ \A t \in Streams \ {s} : written'[t] = written[t]
  /\ UNCHANGED <<arrived, got, ended, failed>>

\* Bytes of some streams arrive, and those whose application waits for them are read.
Arrive ==
  /\ \A s \in Streams :
       /\ arrived[s] <= arrived'[s] /\ arrived'[s] <= Len(written[s])
       /\ IsPrefixOf(got[s], got'[s]) /\ IsPrefixOf(got'[s], SubSeq(written[s], 1, arrived'[s]))
       /\ ended[s] => arrived'[s] = arrived[s] /\ ended'[s]
       /\ ended'[s] => ended[s] \/ failed[s] \/ arrived'[s] = Len(written[s])
       /\ failed[s] => failed'[s]
  /\ UNCHANGED written

Next == Arrive \/ \E s \in Streams : Write(s)

Spec == Init /\ [][Next]_vars
=============================================================================
