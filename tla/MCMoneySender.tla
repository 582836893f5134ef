--------------------------- MODULE MCMoneySender ---------------------------
(* MoneySender on small instances.                                          *)
EXTENDS MoneySender

Limit(m, t) == [receiveMax |-> m, totalReceived |-> t]

SomeLimits == {Limit(1, 0), Limit(3, 2)}

\* The peer's packets have a frame for one stream.
OnePeerLimit   == {[t \in {s} |-> Limit(3, 2)] : s \in Streams}

Frames(code, limits, closes) == [code |-> code, limits |-> limits, closes |-> closes]

NoFrames == [s \in {} |-> Limit(0, 0)]

\* The answers of a path that works: frames, and rejects of every kind.
UsualAnswers ==
  {Frames(c, [s \in Streams |-> l], {}) : c \in {"fulfill", "F99"}, l \in SomeLimits}
  \cup {Frames("F99", NoFrames, {1})}
  \cup {[code |-> c] : c \in {"bare", "T", "F00"}}

\* And of one that does not: fulfillments without data, answers that cannot be read.
AllAnswers ==
  UsualAnswers
  \cup {Frames("fulfill", NoFrames, {1}), [code |-> "noData"]}
  \cup {[code |-> "broken", paid |-> b] : b \in BOOLEAN}
=============================================================================
