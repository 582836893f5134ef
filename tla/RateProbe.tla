----------------------------- MODULE RateProbe -----------------------------
(***************************************************************************)
(* How a connection finds the exchange rate of its path:                   *)
(* determineExchangeRate sends volleys of test packets, which are under    *)
(* way together and whose answers come in any order, and goes on with the  *)
(* amounts the F08s tell of and, after temporary errors and a pause that   *)
(* the end of the connection cuts short, with a smaller one.               *)
(*                                                                         *)
(* On the path is the connector with the smallest limit: it sees amounts   *)
(* in its own units, refuses those over its limit, and passes the others   *)
(* on, converted again; each conversion rounds down.  The path's failures  *)
(* are bounded.  The loop that calls determineExchangeRate, and destroys   *)
(* the connection when it throws, is in ConnectionLifecycle.               *)
(***************************************************************************)
EXTENDS Integers, FiniteSets, FiniteSetsExt, Functions

CONSTANTS
  Base,            \* of the digits that are counted (10)
  TestAmounts,     \* of the first volley
  MinPrecision,    \* minExchangeRatePrecision, in digits
  MaxAttempts,     \* TEST_PACKET_MAX_ATTEMPTS (15)
  Limits,          \* what the connector may take, in its units
  UpNum, UpDen,    \* its units for one of the sender's
  RateNum, RateDen,   \* the receiver's for one of its
  Reports,         \* whether F08s may say the maximum, or may not
  MaxFailures      \* bound on packets that are not answered as they should be

ASSUME ProbeAssumption ==
  /\ {Base, MaxAttempts} \subseteq Nat \ {0, 1} /\ {UpNum, UpDen, RateNum, RateDen, MinPrecision} \subseteq Nat \ {0}
  /\ TestAmounts \subseteq Nat \ {0} /\ IsFiniteSet(TestAmounts) /\ TestAmounts # {}
  /\ Limits \subseteq Nat /\ IsFiniteSet(Limits) /\ Reports \subseteq BOOLEAN /\ MaxFailures \in Nat

VARIABLES
  state,     \* of determineExchangeRate: "volley", "pause", "found", "failed"
  attempts,
  result,    \* of each test packet of the volley, by its amount
  maximum,   \* the controller's maximumPacketAmount; Unlimited when none is known
  source,    \* the amount whose packet gave the rate; 0 for none
  stopped,   \* rateRetryTimer: the connection has been closed
  path,      \* the limit of the path
  failures,  \* history: the kinds of failures, with their number
  silent     \* history: an F08 did not say the maximum

probeVars == <<state, attempts, result, maximum, source, stopped, path, failures, silent>>

Unlimited == Max(TestAmounts) + 1

Received(n)  == (n * UpNum) \div UpDen
Delivered(n) == (Received(n) * RateNum) \div RateDen
TooLarge(n)  == Received(n) > path

\* The maximum that the F08 of a packet of n tells of, in the sender's units.
ReportedMaximum(n) == (n * path) \div Received(n)

countDigits[n \in Nat] == IF n = 0 THEN 0 ELSE 1 + countDigits[n \div Base]

\* The least number of n + 1 digits.
Power[n \in Nat] == IF n = 0 THEN 1 ELSE Base * Power[n - 1]

\* What can become of a test packet: it is delivered, and rejected by the receiver with the
\* amount; it is too large, which may be said with the maximum; it gets a temporary error or
\* a final one, or no answer in time; or sending it throws.
Rate(n)     == [kind |-> "rate", amount |-> Delivered(n)]
Refusal(m)  == [kind |-> "F08", amount |-> m]
Failed(k)   == [kind |-> k, amount |-> 0]
UnderWay    == Failed("none")

Kinds == {"T", "F", "timeout", "thrown"}

Volley(amounts) == [n \in amounts |-> UnderWay]

ProbeInit ==
  /\ state = "volley" /\ attempts = 1
  /\ result = Volley(TestAmounts)
  /\ maximum = Unlimited /\ source = 0
  /\ stopped = FALSE
  /\ path \in Limits
  /\ failures = [k \in Kinds |-> 0] /\ silent = FALSE
-----------------------------------------------------------------------------
(* sendTestPacket.                                                          *)

Amounts      == DOMAIN result
FailureCount == SumFunction(failures)

TestAnswer(n) ==
  /\ state = "volley" /\ result[n] = UnderWay
  /\ \/ ~TooLarge(n) /\ result' = [result EXCEPT ![n] = Rate(n)] /\ UNCHANGED silent
     \/ TooLarge(n) /\ \E said \in Reports :
          /\ result' = [result EXCEPT ![n] = Refusal(IF said THEN ReportedMaximum(n) ELSE Unlimited)]
          /\ silent' = (silent \/ ~said)
  /\ UNCHANGED <<state, attempts, maximum, source, stopped, path, failures>>

\* A packet that sendData throws for, or whose answer cannot be read, ends the volley: the
\* catch of sendTestPacketVolley does not see it.  The others are no longer waited for.
Fails(n, k) ==
  /\ state = "volley" /\ result[n] = UnderWay /\ FailureCount < MaxFailures
  /\ failures' = [failures EXCEPT ![k] = @ + 1]
  /\ IF k = "thrown" THEN state' = "failed" /\ result' = Volley({})
     ELSE state' = state /\ result' = [result EXCEPT ![n] = Failed(k)]
  /\ UNCHANGED <<attempts, maximum, source, stopped, path, silent>>
-----------------------------------------------------------------------------
(* determineExchangeRate.                                                   *)

AmountsOf(kind) == {n \in Amounts : result[n].kind = kind}

maxPacketAmounts == {result[n].amount : n \in AmountsOf("F08")}

Digits(n) == countDigits[result[n].amount]

\* The packets whose rates have the most digits: the last of them gives the rate.
MostPrecise == {n \in AmountsOf("rate") : \A m \in AmountsOf("rate") : Digits(m) <= Digits(n)}
\* Mutant: any rate will do.
PreciseAny  == MostPrecise
Precise     == {n \in MostPrecise : Digits(n) >= MinPrecision}

\* A packet smaller by a third than the smallest that failed, final errors included, if any
\* error was temporary.
TwoThirds(n) == n - n \div 3
Reduced ==
  IF AmountsOf("T") = {} THEN {}
  ELSE {TwoThirds(Min(AmountsOf("T") \cup AmountsOf("F") \cup AmountsOf("F08")))}

\* Mutant: the amounts of the F08s are not tried.
NextReduced == Reduced
NextAmounts == (maxPacketAmounts \ {Unlimited}) \cup Reduced

\* All answers are in: a rate is found, or there are amounts to try next.
VolleyOver ==
  /\ state = "volley" /\ \A n \in Amounts : result[n] # UnderWay
  /\ maximum' = Min(maxPacketAmounts \cup {maximum})
  /\ \/ maximum' # 0 /\ Precise # {} /\ state' = "found" /\ source' \in Precise
     \/ /\ Precise = {} \/ maximum' = 0
        /\ state' = IF maximum' = 0 THEN "failed"
                    ELSE IF AmountsOf("T") # {} THEN "pause"
                    ELSE IF NextAmounts = {} \/ attempts = MaxAttempts THEN "failed" ELSE "volley"
        /\ UNCHANGED source
  /\ result' = IF state' \in {"volley", "pause"} THEN Volley(NextAmounts) ELSE Volley({})
  /\ attempts' = IF state' = "volley" THEN attempts + 1 ELSE attempts
  /\ UNCHANGED <<stopped, path, failures, silent>>

\* Mutant: the timer is stopped without its wait rejecting.
PauseOverUnstopped ==
  /\ state = "pause" /\ ~stopped
  /\ LET over == attempts = MaxAttempts
     IN /\ state' = IF over THEN "failed" ELSE "volley"
        /\ attempts' = IF over THEN attempts ELSE attempts + 1
        /\ result' = IF over THEN Volley({}) ELSE result
  /\ UNCHANGED <<maximum, source, stopped, path, failures, silent>>

\* The pause is over, or the timer has been stopped and its wait rejects.
PauseOver ==
  /\ state = "pause"
  /\ LET over == stopped \/ attempts = MaxAttempts
     IN /\ state' = IF over THEN "failed" ELSE "volley"
        /\ attempts' = IF over THEN attempts ELSE attempts + 1
        /\ result' = IF over THEN Volley({}) ELSE result
  /\ UNCHANGED <<maximum, source, stopped, path, failures, silent>>

\* The connection is closed.
stop ==
  /\ ~stopped /\ state \in {"volley", "pause"}
  /\ stopped' = TRUE
  /\ UNCHANGED <<state, attempts, result, maximum, source, path, failures, silent>>

ProbeProgress == VolleyOver \/ PauseOver \/ \E n \in Amounts : TestAnswer(n)

ProbeNext == ProbeProgress \/ stop \/ \E n \in Amounts, k \in Kinds : Fails(n, k)

ProbeSpec == ProbeInit /\ [][ProbeNext]_probeVars

\* Every test packet is answered or times out, and the pause passes.
ProbeFairSpec == ProbeSpec /\ WF_probeVars(ProbeProgress)
-----------------------------------------------------------------------------
(* Properties.                                                              *)

\* The connector's limit in the sender's units, rounded down.
SenderLimit == (path * UpDen) \div UpNum

Measures(n) == countDigits[Delivered(n)] >= MinPrecision

\* The path can be measured by a packet of the first volley, or by one of its limit, of which
\* the F08 of a larger one tells.
Measurable ==
  \/ \E n \in TestAmounts : ~TooLarge(n) /\ Measures(n)
  \/ (\E m \in TestAmounts : TooLarge(m)) /\ Measures(SenderLimit)

\* A path that could be measured is given up only for a failure, an F08 that did not say the
\* maximum, the end of the connection, or a limit below one of the sender's units.  An amount
\* above the limit rounded down that happens to get through is not looked for.
GivesUpForCause ==
  state = "failed" =>
    ~Measurable \/ FailureCount > 0 \/ silent \/ stopped \/ SenderLimit = 0

\* The rate that is found is as precise as asked for: it is short of the path's by less than
\* the last of the digits, for the rounding of the receiver's amount and, as many times as the
\* connector's unit is worth, for that of the connector's.
PreciseEnough ==
  state = "found" =>
    (source * UpNum * RateNum - Delivered(source) * UpDen * RateDen) * Power[MinPrecision - 1]
      < Delivered(source) * UpDen * (RateDen + RateNum)

\* The probe comes to an end.
Settles == <>(state \in {"found", "failed"})
=============================================================================
