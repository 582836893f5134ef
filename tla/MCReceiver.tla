---------------------------- MODULE MCReceiver ----------------------------
(* Receiver on small instances: two streams, and packets that give money to *)
(* one of them or split an odd amount over both.                            *)
EXTENDS Receiver

NoShares == [s \in Streams |-> 0]

Money(amount, shares) == [amount |-> amount, minimum |-> 0, shares |-> shares,
                          others |-> {}, fulfillable |-> TRUE]

First1 == First(Streams)

SomePackets ==
  { Money(2, [NoShares EXCEPT ![First1] = 1]),
    Money(3, [s \in Streams |-> 1]),
    [Money(1, NoShares) EXCEPT !.others = Streams],
    [Money(2, NoShares) EXCEPT !.minimum = 3],
    [Money(1, [NoShares EXCEPT ![First1] = 1]) EXCEPT !.fulfillable = FALSE] }

\* Amounts whose sum passes MaxLong, on one stream.
LargePackets == {Money(a, [NoShares EXCEPT ![First1] = 1]) : a \in {1, 3, 4}}
=============================================================================
