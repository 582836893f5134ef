----------------------------- MODULE Congestion -----------------------------
(***************************************************************************)
(* util/congestion.ts: how large a packet may be.  The controller learns   *)
(* from the test packets of determineExchangeRate, which a connection with *)
(* a fixed exchange rate does not send, and from the answers to the        *)
(* packets of the send loop, of which one is under way at a time.  The     *)
(* path is modelled by the connector with the smallest limit: it sees      *)
(* amounts in its own units and rejects those over its limit with an F08,  *)
(* and, for want of liquidity, any amount with a T04.                      *)
(***************************************************************************)
EXTENDS LongArith

CONSTANTS
  FixedAmounts,        \* the option maximumPacketAmount, MaxLong where it is not given
  HasFixedRate,        \* the option exchangeRate is given: no test packets
  TestAmounts,         \* the amounts of the test packets
  PathLimits,          \* the limits the connector may have, in its units
  RateNum, RateDen,    \* its units for one of the sender's
  Reports,             \* whether its F08s say what it received and what the limit is: {TRUE},
                       \* {FALSE}, or both for a path of several connectors
  Money,               \* what the streams may have to send
  MaxVolleys,          \* bound on volleys of test packets (TEST_PACKET_MAX_ATTEMPTS)
  MaxShortages         \* bound on T04s in a behaviour

ASSUME CongestionAssumption ==
  /\ FixedAmounts \subseteq Long \ {0}
  /\ TestAmounts \subseteq Long \ {0}
  /\ PathLimits \subseteq Long
  /\ RateNum \in Nat \ {0} /\ RateDen \in Nat \ {0}
  /\ HasFixedRate \in BOOLEAN /\ Reports \subseteq BOOLEAN
  /\ Money \subseteq Long
  /\ MaxVolleys \in Nat /\ MaxShortages \in Nat
  /\ 2 \in Long

VARIABLES
  _fixedPacketAmount, _testMaximumPacketAmount, _maximumPacketAmount,
  phase,       \* "probing", "ready" for a packet, "waiting" for its answer, "failed"
  amountSent,  \* the amount of the packet under way, or of the last one
  left,        \* what the streams have left to send
  path,        \* the limit of the path
  volleys, shortages

controller == <<_testMaximumPacketAmount, _maximumPacketAmount>>
vars == <<_fixedPacketAmount, controller, phase, amountSent, left, path, volleys, shortages>>

maximumPacketAmount == minLong(_maximumPacketAmount, _fixedPacketAmount)

Init ==
  /\ _fixedPacketAmount \in FixedAmounts
  /\ _testMaximumPacketAmount = MaxLong /\ _maximumPacketAmount = MaxLong
  /\ phase = IF HasFixedRate THEN "ready" ELSE "probing"
  /\ amountSent = 0
  /\ left \in Money
  /\ path \in PathLimits
  /\ volleys = 0 /\ shortages = 0

Received(n) == Floor(n, RateNum, RateDen)
TooLarge(n) == Received(n) > path

\* Mutant: rounded up.
ReportedMaximumUp(n) == Ceil(n, path, Received(n))

\* The maximum that the F08 of a packet of n tells of, in the sender's units.
ReportedMaximum(n) == Floor(n, path, Received(n))
-----------------------------------------------------------------------------
(* determineExchangeRate.                                                   *)

\* Of each test packet the answer may be late or missing, or not say the amounts.
maxPacketAmounts(answered) ==
  {ReportedMaximum(n) : n \in {m \in answered : TRUE \in Reports /\ TooLarge(m)}}

Least(S) == {x \in S : \A y \in S : x <= y}

\* What setMaximumAmounts is called with after a volley.
LimitsOfVolley(amounts) == Least(amounts \cup {maximumPacketAmount})

setMaximumAmounts(amount) ==
  _testMaximumPacketAmount' = amount /\ _maximumPacketAmount' = amount

sendTestPacketVolley ==
  /\ phase = "probing" /\ volleys < MaxVolleys
  /\ volleys' = volleys + 1
  /\ \E answered \in SUBSET TestAmounts :
       \E amount \in LimitsOfVolley(maxPacketAmounts(answered)) : setMaximumAmounts(amount)
  /\ phase' \in IF _maximumPacketAmount' = 0 THEN {"failed"} ELSE {"ready", "probing"}
  /\ UNCHANGED <<_fixedPacketAmount, amountSent, left, path, shortages>>

GiveUp ==
  /\ phase = "probing" /\ volleys > 0
  /\ phase' = "failed"
  /\ UNCHANGED <<_fixedPacketAmount, controller, amountSent, left, path, volleys, shortages>>
-----------------------------------------------------------------------------
(* The send loop.                                                           *)

PacketAmount == minLong(left, _testMaximumPacketAmount)

\* With a test amount of 0 the packet has control frames only and the loop stops, to
\* send another like it when it is started again.
Send ==
  /\ phase = "ready" /\ left > 0
  /\ amountSent' = PacketAmount
  /\ phase' = "waiting"
  /\ UNCHANGED <<_fixedPacketAmount, controller, left, path, volleys, shortages>>

\* Mutant: doubles although the maximum is known.
RaisedTestBlindly(max) == checkedMultiply(_testMaximumPacketAmount, 2).product

\* A tenth of the maximum more if it is known, else twice as much.
RaisedTest(max) ==
  IF max # MaxLong THEN minLong(checkedAdd(_testMaximumPacketAmount, max \div 10).sum, max)
  ELSE checkedMultiply(_testMaximumPacketAmount, 2).product

onFulfill ==
  /\ phase = "waiting" /\ ~TooLarge(amountSent)
  /\ left' = left - amountSent
  /\ _testMaximumPacketAmount' =
       IF amountSent = _testMaximumPacketAmount /\ _testMaximumPacketAmount < maximumPacketAmount
       THEN RaisedTest(maximumPacketAmount) ELSE _testMaximumPacketAmount
  /\ phase' = "ready"
  /\ UNCHANGED <<_fixedPacketAmount, _maximumPacketAmount, amountSent, path, volleys, shortages>>

\* Without amounts, or with amounts that do not explain it, the packet itself was
\* too large, and half of that is tried.
LowerMaximum(isReported) ==
  IF isReported
  THEN /\ _maximumPacketAmount' = ReportedMaximum(amountSent)
       /\ _testMaximumPacketAmount' = ReportedMaximum(amountSent)
  ELSE /\ _maximumPacketAmount' = subtract(amountSent, 1)
       /\ _testMaximumPacketAmount' = minLong(_maximumPacketAmount', _fixedPacketAmount) \div 2

onAmountTooLargeError ==
  /\ phase = "waiting" /\ TooLarge(amountSent)
  /\ \E isReported \in Reports : LowerMaximum(isReported)
  /\ phase' = IF minLong(_maximumPacketAmount', _fixedPacketAmount) = 0 THEN "failed" ELSE "ready"
  /\ UNCHANGED <<_fixedPacketAmount, amountSent, left, path, volleys, shortages>>

TwoThirds(n) == n - n \div 3

onInsufficientLiquidityError ==
  /\ phase = "waiting" /\ shortages < MaxShortages
  /\ shortages' = shortages + 1
  /\ _testMaximumPacketAmount' =
       maxLong(2, TwoThirds(minLong(amountSent, _testMaximumPacketAmount)))
  /\ phase' = "ready"
  /\ UNCHANGED <<_fixedPacketAmount, _maximumPacketAmount, amountSent, left, path, volleys>>
-----------------------------------------------------------------------------
\* The path may change its limit while no answer is under way.
PathChanges ==
  /\ phase \in {"probing", "ready"}
  /\ path' \in PathLimits
  /\ UNCHANGED <<_fixedPacketAmount, controller, phase, amountSent, left, volleys, shortages>>

Answer == onFulfill \/ onAmountTooLargeError \/ onInsufficientLiquidityError

Step == sendTestPacketVolley \/ GiveUp \/ Send \/ Answer

Next == Step \/ PathChanges

Spec == Init /\ [][Next]_vars

\* The loop sends while there is money, and every packet is answered.
FairSpec == Spec /\ WF_vars(Step)
-----------------------------------------------------------------------------
(* Properties.                                                              *)

\* Every variable holds a value of the kind the code gives it.
TypeOK ==
  /\ _fixedPacketAmount \in Long \ {0}
  /\ _testMaximumPacketAmount \in Long /\ _maximumPacketAmount \in Long
  /\ phase \in {"probing", "ready", "waiting", "failed"}
  /\ amountSent \in Long /\ left \in Long /\ path \in Long
  /\ volleys \in Nat /\ shortages \in Nat

\* Once the path was probed no packet is larger than the known maximum and the fixed
\* one, but for packets of 2, which a T04 may lead to (congestion.ts:108).
WithinMaximum ==
  phase = "waiting" /\ ~HasFixedRate => amountSent <= maxLong(2, maximumPacketAmount)

\* What is known of the path is only ever narrowed down: no F08 raises the maximum.
MaximumOnlyFalls == [][_maximumPacketAmount' <= _maximumPacketAmount]_vars

\* A packet that was too large is not sent again at the same size: after an F08 the
\* next packet is smaller.
SmallerAfterTooLarge ==
  [][onAmountTooLargeError => _testMaximumPacketAmount' < amountSent]_vars

\* The controller finds an amount that the path takes, whatever limits it goes through:
\* the money gets through, or the connection fails and the application is told.  Only an
\* F08 that says nothing may leave it with an amount of 0 (congestion.ts:96).
FindsAmount ==
  <>(\/ left = 0
     \/ phase = "failed"
     \/ FALSE \in Reports /\ _testMaximumPacketAmount = 0)
=============================================================================
