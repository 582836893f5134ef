----------------------------- MODULE AmountProofs -----------------------------
(***************************************************************************)
(* How large an amount may be, and what becomes of it by a rate.           *)
(*                                                                         *)
(* The congestion controller, for every path and every option, keeps its   *)
(* types, never raises the maximum it knows, and sends no packet beyond    *)
(* it.                                                                     *)
(*                                                                         *)
(* multiplyDivide is exact at every width, and its roundings are right,    *)
(* wherever the divisor is at most half of the width and the quotient      *)
(* fits.                                                                   *)
(***************************************************************************)
EXTENDS Congestion, MulDiv, LongArithProofs

\* Why it is so: the test amount is at most the maximum (or 2), and the packet under
\* way at most the test amount and the money.
Known ==
  phase \in {"ready", "waiting"} =>
    /\ 0 < _maximumPacketAmount
    /\ _testMaximumPacketAmount <= maxLong(2, _maximumPacketAmount)
    /\ ~HasFixedRate => _testMaximumPacketAmount <= maxLong(2, _fixedPacketAmount)
    /\ phase = "waiting" => amountSent <= _testMaximumPacketAmount /\ amountSent <= left

Inv == TypeOK /\ Known

LEMMA LongIsNat == Long \subseteq Nat /\ MaxLong \in Nat /\ 2 <= MaxLong
BY MaxLongAssumption, CongestionAssumption DEF Long

LEMMA ReceivedType ==
  ASSUME NEW n \in Nat
  PROVE  Received(n) \in Nat /\ Received(0) = 0
<1>1. RateNum \in Nat /\ RateDen \in Nat \ {0}
  BY CongestionAssumption
<1>2. \A x \in Nat : \A y \in Nat : x * y \in Nat
  OBVIOUS
<1>3. n * RateNum \in Nat /\ 0 * RateNum = 0
  BY <1>1, <1>2
<1>4. (n * RateNum) \div RateDen \in Nat
  BY <1>1, <1>3, Division
<1>5. 0 \div RateDen = 0
  BY <1>1
<1> QED
  BY <1>3, <1>4, <1>5 DEF Received, Floor

\* What an F08 reports is less than the packet.
LEMMA ReportedSmaller ==
  ASSUME NEW n \in Nat, path \in Nat, TooLarge(n)
  PROVE  n # 0 /\ ReportedMaximum(n) \in Nat /\ ReportedMaximum(n) < n
<1> DEFINE r == Received(n)
           q == (n * path) \div r
<1>1. r \in Nat \ {0} /\ path < r /\ n # 0
  BY ReceivedType DEF TooLarge
<1>2. n * path \in Nat
  <2>1. \A x \in Nat : \A y \in Nat : x * y \in Nat
    OBVIOUS
  <2> QED
    BY <2>1
<1>3. q \in Nat /\ q * r <= n * path
  <2> DEFINE p == n * path
             t == p % r
  <2>1. q \in Nat /\ t \in Nat /\ p = q * r + t
    <3> HIDE DEF r, p
    <3> QED
      BY <1>1, <1>2, Division DEF p
  <2>2. \A x \in Nat : \A y \in Nat : x * y \in Nat
    OBVIOUS
  <2>3. q * r \in Nat
    <3> HIDE DEF q, r
    <3> QED
      BY <1>1, <2>1, <2>2
  <2> HIDE DEF q, t, p, r
  <2> QED
    BY <2>1, <2>3 DEF p
<1>4. ~(n <= q)
  <2> SUFFICES ASSUME n <= q PROVE FALSE
    OBVIOUS
  <2>1. n * r <= q * r
    <3> HIDE DEF q, r
    <3> QED
      BY <1>1, <1>3, TimesMonotone
  <2>2. (path + 1) * n <= r * n
    <3> HIDE DEF q, r
    <3> QED
      BY <1>1, TimesMonotone
  <2>3. (path + 1) * n = n * path + n /\ r * n = n * r
    <3> HIDE DEF q, r
    <3> QED
      BY <1>1
  <2>4. \A x \in Nat : \A y \in Nat : x * y \in Nat
    OBVIOUS
  <2>5. n * r \in Nat /\ q * r \in Nat
    <3> HIDE DEF q, r
    <3> QED
      BY <1>1, <1>3, <2>4
  <2> DEFINE A == n * r
             B == q * r
             C == n * path
  <2>6. A <= B /\ C + n <= A /\ B <= C
    BY <1>3, <2>1, <2>2, <2>3
  <2>7. A \in Nat /\ B \in Nat /\ C \in Nat /\ n > 0
    BY <1>1, <1>2, <2>5
  <2> HIDE DEF A, B, C
  <2> QED
    BY <2>6, <2>7
<1>5. ReportedMaximum(n) = q
  BY DEF ReportedMaximum, Floor
<1> HIDE DEF q, r
<1> QED
  BY <1>1, <1>3, <1>4, <1>5

\* A volley, too, reports less than its packets, and lowers the maximum.
LEMMA VolleyLowers ==
  ASSUME TypeOK, NEW answered \in SUBSET TestAmounts,
         NEW amount \in LimitsOfVolley(maxPacketAmounts(answered))
  PROVE  amount \in Long /\ amount <= _maximumPacketAmount /\ amount <= _fixedPacketAmount
<1>1. maximumPacketAmount \in Long /\ maximumPacketAmount <= _maximumPacketAmount
      /\ maximumPacketAmount <= _fixedPacketAmount
  BY LongIsNat DEF TypeOK, maximumPacketAmount, minLong
<1>2. maxPacketAmounts(answered) \subseteq Long
  <2> SUFFICES ASSUME NEW n \in answered, TooLarge(n)
               PROVE  ReportedMaximum(n) \in Long
    BY DEF maxPacketAmounts
  <2>1. n \in Long /\ n \in Nat /\ path \in Nat
    BY CongestionAssumption, LongIsNat DEF TypeOK
  <2>2. ReportedMaximum(n) \in Nat /\ ReportedMaximum(n) < n
    BY <2>1, ReportedSmaller
  <2> QED
    BY <2>1, <2>2, LongIsNat DEF Long
<1>3. amount \in Long /\ amount <= maximumPacketAmount
  BY <1>1, <1>2 DEF LimitsOfVolley, Least
<1>4. /\ maximumPacketAmount \in Nat /\ amount \in Nat
      /\ _maximumPacketAmount \in Nat /\ _fixedPacketAmount \in Nat
  BY <1>1, <1>3, LongIsNat DEF TypeOK
<1> QED
  BY <1>1, <1>3, <1>4

LEMMA RaisedTestType ==
  ASSUME TypeOK
  PROVE  /\ RaisedTest(maximumPacketAmount) \in Long
         /\ RaisedTest(maximumPacketAmount) <= maximumPacketAmount
<1> DEFINE m == maximumPacketAmount
           t == _testMaximumPacketAmount
<1>1. m \in Long /\ t \in Long
  BY DEF TypeOK, maximumPacketAmount, minLong
<1>2. CASE m = MaxLong
  <2>1. 2 \in Long /\ MaxLong \in Long
    BY LongIsNat DEF Long
  <2>2. multiply(t, 2) \in Long
    BY <1>1, Doubling, LongOps
  <2>3. checkedMultiply(t, 2).product \in Long
    BY <2>1, <2>2 DEF checkedMultiply
  <2> QED
    BY <1>2, <2>3, LongIsNat DEF RaisedTest, Long
<1>3. CASE m # MaxLong
  <2> DEFINE d == m \div 10
  <2>1. d \in Long
    <3>1. \A x \in Nat : x \div 10 \in Nat /\ x \div 10 <= x
      OBVIOUS
    <3>2. m \in Nat /\ d \in Nat /\ d <= m /\ m <= MaxLong
      BY <1>1, <3>1, LongIsNat DEF Long
    <3> HIDE DEF d, m
    <3> QED
      BY <3>2, LongIsNat DEF Long
  <2>2. checkedAdd(t, d).sum \in Long
    <3> HIDE DEF d
    <3> QED
      BY <1>1, <2>1, CheckedAddSaturates
  <2>3. RaisedTest(m) = minLong(checkedAdd(t, d).sum, m)
    BY <1>3 DEF RaisedTest
  <2> DEFINE z == checkedAdd(t, d).sum
  <2>4. minLong(z, m) \in Long /\ minLong(z, m) <= m
    <3>1. z \in Long /\ m \in Long
      BY <1>1, <2>2
    <3> HIDE DEF z, m
    <3> QED
      BY <3>1, LongIsNat DEF minLong
  <2> QED
    BY <2>3, <2>4
<1> QED
  BY <1>2, <1>3

LEMMA InvInit == Init => Inv
<1> SUFFICES ASSUME Init PROVE Inv
  OBVIOUS
<1>1. 0 \in Long /\ MaxLong \in Long
  BY LongIsNat DEF Long
<1>2. TypeOK
  BY <1>1, CongestionAssumption DEF Init, TypeOK
<1>3. Known
  BY LongIsNat, CongestionAssumption DEF Init, Known, maxLong
<1> QED
  BY <1>2, <1>3 DEF Inv

LEMMA VolleyKeeps ==
  ASSUME Inv, sendTestPacketVolley
  PROVE  Inv' /\ _maximumPacketAmount' <= _maximumPacketAmount
<1>1. PICK answered \in SUBSET TestAmounts :
        \E amount \in LimitsOfVolley(maxPacketAmounts(answered)) : setMaximumAmounts(amount)
  BY DEF sendTestPacketVolley
<1>2. PICK amount \in LimitsOfVolley(maxPacketAmounts(answered)) : setMaximumAmounts(amount)
  BY <1>1
<1>3. amount \in Long /\ amount <= _maximumPacketAmount /\ amount <= _fixedPacketAmount
  BY <1>2, VolleyLowers DEF Inv
<1>4. _testMaximumPacketAmount' = amount /\ _maximumPacketAmount' = amount
  BY <1>2 DEF setMaximumAmounts
<1>5. phase' \in {"probing", "ready", "failed"} /\ (phase' = "ready" => amount # 0)
  BY <1>4 DEF sendTestPacketVolley
<1>6. TypeOK'
  BY <1>3, <1>4, <1>5 DEF sendTestPacketVolley, Inv, TypeOK
<1>7. Known'
  <2>1. amount \in Nat /\ _fixedPacketAmount' = _fixedPacketAmount /\ _fixedPacketAmount \in Nat
    BY <1>3, LongIsNat DEF sendTestPacketVolley, Inv, TypeOK
  <2> QED
    BY <1>3, <1>4, <1>5, <2>1 DEF Known, maxLong
<1> QED
  BY <1>3, <1>4, <1>6, <1>7 DEF Inv

LEMMA SendKeeps ==
  ASSUME Inv, Send
  PROVE  Inv'
<1>1. PacketAmount \in Long /\ PacketAmount <= left /\ PacketAmount <= _testMaximumPacketAmount
  BY LongIsNat DEF Inv, TypeOK, PacketAmount, minLong
<1>2. TypeOK'
  BY <1>1 DEF Send, Inv, TypeOK, controller
<1>3. Known'
  BY <1>1 DEF Send, Inv, Known, controller
<1> QED
  BY <1>2, <1>3 DEF Inv

LEMMA FulfillKeeps ==
  ASSUME Inv, onFulfill
  PROVE  Inv'
<1>1. /\ amountSent \in Nat /\ left \in Nat /\ left <= MaxLong /\ amountSent <= left
      /\ _maximumPacketAmount \in Nat /\ _fixedPacketAmount \in Nat
      /\ _testMaximumPacketAmount \in Nat
  BY LongIsNat DEF Inv, TypeOK, Known, onFulfill, Long
<1>2. left' \in Long
  BY <1>1, LongIsNat DEF onFulfill, Long
<1>3. maximumPacketAmount <= _maximumPacketAmount /\ maximumPacketAmount <= _fixedPacketAmount
      /\ maximumPacketAmount \in Nat
  BY <1>1 DEF maximumPacketAmount, minLong
<1>4. /\ _testMaximumPacketAmount' \in Long
      /\ \/ _testMaximumPacketAmount' = _testMaximumPacketAmount
         \/ _testMaximumPacketAmount' <= maximumPacketAmount
  BY RaisedTestType DEF onFulfill, Inv, TypeOK
<1>5. TypeOK'
  BY <1>2, <1>4 DEF onFulfill, Inv, TypeOK
<1>6. Known'
  <2>1. _testMaximumPacketAmount' \in Nat
    BY <1>4, LongIsNat
  <2> QED
    BY <1>1, <1>3, <1>4, <2>1 DEF onFulfill, Inv, Known, maxLong
<1> QED
  BY <1>5, <1>6 DEF Inv

LEMMA TooLargeKeeps ==
  ASSUME Inv, onAmountTooLargeError
  PROVE  /\ Inv' /\ _maximumPacketAmount' <= _maximumPacketAmount
         /\ _testMaximumPacketAmount' < amountSent
<1>1. /\ amountSent \in Nat /\ path \in Nat /\ amountSent <= MaxLong
      /\ _maximumPacketAmount \in Nat /\ _fixedPacketAmount \in Nat \ {0}
      /\ _testMaximumPacketAmount \in Nat
  BY LongIsNat DEF Inv, TypeOK, Long
<1>2. /\ amountSent <= _testMaximumPacketAmount /\ 0 < _maximumPacketAmount
      /\ _testMaximumPacketAmount <= maxLong(2, _maximumPacketAmount)
      /\ ~HasFixedRate => _testMaximumPacketAmount <= maxLong(2, _fixedPacketAmount)
  BY DEF Inv, Known, onAmountTooLargeError
<1>3. amountSent # 0 /\ ReportedMaximum(amountSent) \in Nat /\ ReportedMaximum(amountSent) < amountSent
  BY <1>1, ReportedSmaller DEF onAmountTooLargeError
<1>4. PICK isReported \in Reports : LowerMaximum(isReported)
  BY DEF onAmountTooLargeError
<1>5. /\ _maximumPacketAmount' \in Nat /\ _testMaximumPacketAmount' \in Nat
      /\ _maximumPacketAmount' < amountSent
      /\ _testMaximumPacketAmount' <= _maximumPacketAmount'
      /\ _testMaximumPacketAmount' <= _fixedPacketAmount \/ _testMaximumPacketAmount' < amountSent
  <2>1. CASE isReported
    BY <1>3, <1>4, <2>1 DEF LowerMaximum
  <2>2. CASE ~isReported
    <3>1. subtract(amountSent, 1) = amountSent - 1
      <4>1. amountSent \in Long /\ 1 \in Long /\ 1 <= amountSent
        BY <1>1, <1>3, LongIsNat DEF Long
      <4> QED
        BY <4>1, SubtractBorrows
    <3>2. _maximumPacketAmount' = amountSent - 1
      BY <1>4, <2>2, <3>1 DEF LowerMaximum
    <3>3. _testMaximumPacketAmount' = minLong(_maximumPacketAmount', _fixedPacketAmount) \div 2
      BY <1>4, <2>2 DEF LowerMaximum
    <3>4. \A x \in Nat : x \div 2 \in Nat /\ x \div 2 <= x
      OBVIOUS
    <3> DEFINE m == minLong(_maximumPacketAmount', _fixedPacketAmount)
    <3>5. m \in Nat /\ m <= _maximumPacketAmount' /\ m <= _fixedPacketAmount
      BY <1>1, <1>3, <3>2 DEF minLong
    <3> HIDE DEF m
    <3> QED
      BY <1>1, <1>3, <3>2, <3>3, <3>4, <3>5 DEF m
  <2> QED
    BY <2>1, <2>2
<1>6. TypeOK'
  <2>1. _maximumPacketAmount' \in Long /\ _testMaximumPacketAmount' \in Long
    BY <1>1, <1>5, LongIsNat DEF Long
  <2> QED
    BY <2>1 DEF onAmountTooLargeError, Inv, TypeOK
<1>7. Known'
  <2>1. phase' = "ready" => _maximumPacketAmount' # 0
    BY <1>1 DEF onAmountTooLargeError, minLong
  <2>2. phase' \in {"failed", "ready"} /\ _fixedPacketAmount' = _fixedPacketAmount
    BY DEF onAmountTooLargeError
  <2>3. ~HasFixedRate => _testMaximumPacketAmount' <= maxLong(2, _fixedPacketAmount)
    BY <1>1, <1>2, <1>5 DEF maxLong
  <2>4. _testMaximumPacketAmount' <= maxLong(2, _maximumPacketAmount')
    BY <1>5 DEF maxLong
  <2> QED
    BY <1>5, <2>1, <2>2, <2>3, <2>4 DEF Known
<1>8. _maximumPacketAmount' <= _maximumPacketAmount
  BY <1>1, <1>2, <1>5 DEF maxLong
<1>9. _testMaximumPacketAmount' < amountSent
  BY <1>1, <1>5
<1> QED
  BY <1>6, <1>7, <1>8, <1>9 DEF Inv

LEMMA ShortageKeeps ==
  ASSUME Inv, onInsufficientLiquidityError
  PROVE  Inv'
<1> DEFINE n == minLong(amountSent, _testMaximumPacketAmount)
<1>1. /\ n \in Nat /\ n <= _testMaximumPacketAmount /\ n <= MaxLong
      /\ _testMaximumPacketAmount \in Nat /\ shortages \in Nat
      /\ _maximumPacketAmount \in Nat /\ _fixedPacketAmount \in Nat
  BY LongIsNat DEF Inv, TypeOK, minLong, Long
<1>2. TwoThirds(n) \in Nat /\ TwoThirds(n) <= n
  <2>1. \A x \in Nat : x - x \div 3 \in Nat /\ x - x \div 3 <= x
    OBVIOUS
  <2> HIDE DEF n
  <2> QED
    BY <1>1, <2>1 DEF TwoThirds
<1> DEFINE t == TwoThirds(n)
<1>3. /\ _testMaximumPacketAmount' \in Nat /\ _testMaximumPacketAmount' <= MaxLong
      /\ _testMaximumPacketAmount' <= 2 \/ _testMaximumPacketAmount' <= _testMaximumPacketAmount
  <2>1. _testMaximumPacketAmount' = maxLong(2, t)
    BY DEF onInsufficientLiquidityError
  <2> HIDE DEF t, n
  <2> QED
    BY <1>1, <1>2, <2>1, LongIsNat DEF maxLong, t
<1>4. TypeOK'
  <2>1. _testMaximumPacketAmount' \in Long
    BY <1>3, LongIsNat DEF Long
  <2> QED
    BY <1>1, <2>1 DEF onInsufficientLiquidityError, Inv, TypeOK
<1>5. Known'
  <2> HIDE DEF n, t
  <2> QED
    BY <1>1, <1>3 DEF onInsufficientLiquidityError, Inv, Known, maxLong
<1> QED
  BY <1>4, <1>5 DEF Inv

LEMMA InvNext ==
  Inv /\ [Next]_vars => Inv' /\ _maximumPacketAmount' <= _maximumPacketAmount
<1> SUFFICES ASSUME Inv, [Next]_vars
             PROVE  Inv' /\ _maximumPacketAmount' <= _maximumPacketAmount
  OBVIOUS
<1>1. _maximumPacketAmount \in Nat
  BY LongIsNat DEF Inv, TypeOK
<1>2. CASE UNCHANGED vars
  BY <1>1, <1>2 DEF vars, controller, Inv, TypeOK, Known
<1>3. CASE sendTestPacketVolley
  BY <1>3, VolleyKeeps
<1>4. CASE GiveUp
  BY <1>1, <1>4 DEF GiveUp, controller, Inv, TypeOK, Known
<1>5. CASE Send
  BY <1>1, <1>5, SendKeeps DEF Send, controller
<1>6. CASE onFulfill
  BY <1>1, <1>6, FulfillKeeps DEF onFulfill
<1>7. CASE onAmountTooLargeError
  BY <1>7, TooLargeKeeps
<1>8. CASE onInsufficientLiquidityError
  BY <1>1, <1>8, ShortageKeeps DEF onInsufficientLiquidityError
<1>9. CASE PathChanges
  BY <1>1, <1>9, CongestionAssumption DEF PathChanges, controller, Inv, TypeOK, Known
<1> QED
  BY <1>2, <1>3, <1>4, <1>5, <1>6, <1>7, <1>8, <1>9 DEF Next, Step, Answer

\* The registers of the controller (congestion.ts:20) never leave the range of a Long.
THEOREM CongestionTypes == Spec => []TypeOK
<1>1. Inv => TypeOK
  BY DEF Inv
<1> QED
  BY <1>1, InvInit, InvNext, PTL DEF Spec

\* A connection that has probed its path sends no packet beyond the maximum it knows or
\* the fixed one (congestion.ts:38), but for the 2 of a T04.
THEOREM WithinMaximumHolds == Spec => []WithinMaximum
<1>1. Inv => WithinMaximum
  <2> SUFFICES ASSUME Inv, phase = "waiting", ~HasFixedRate
               PROVE  amountSent <= maxLong(2, maximumPacketAmount)
    BY DEF WithinMaximum
  <2>1. /\ amountSent \in Nat /\ _testMaximumPacketAmount \in Nat
        /\ _maximumPacketAmount \in Nat /\ _fixedPacketAmount \in Nat
    BY LongIsNat DEF Inv, TypeOK
  <2>2. /\ amountSent <= _testMaximumPacketAmount
        /\ _testMaximumPacketAmount <= maxLong(2, _maximumPacketAmount)
        /\ _testMaximumPacketAmount <= maxLong(2, _fixedPacketAmount)
    BY DEF Inv, Known
  <2> QED
    BY <2>1, <2>2 DEF maximumPacketAmount, maxLong, minLong
<1> QED
  BY <1>1, InvInit, InvNext, PTL DEF Spec

\* Neither a volley nor an F08 ever raises the maximum (congestion.ts:42 and 76).
THEOREM MaximumOnlyFallsHolds == Spec => MaximumOnlyFalls
<1>1. Inv /\ [Next]_vars => [_maximumPacketAmount' <= _maximumPacketAmount]_vars
  BY InvNext
<1>2. Inv /\ [Next]_vars => Inv'
  BY InvNext
<1> QED
  BY <1>1, <1>2, InvInit, PTL DEF Spec, MaximumOnlyFalls

\* An F08 (congestion.ts:76) leaves the next packet smaller than the one it is for.
THEOREM SmallerAfterTooLargeHolds == Spec => SmallerAfterTooLarge
<1>1. Inv /\ [Next]_vars => [onAmountTooLargeError => _testMaximumPacketAmount' < amountSent]_vars
  BY TooLargeKeeps
<1>2. Inv /\ [Next]_vars => Inv'
  BY InvNext
<1> QED
  BY <1>1, <1>2, InvInit, PTL DEF Spec, SmallerAfterTooLarge
-----------------------------------------------------------------------------
(* multiplyDivide.                                                         *)
(*                                                                         *)
(* The step of both registers: two parts are added, and the remainder is    *)
(* brought below the divisor.                                               *)

LEMMA NormalizedType ==
  ASSUME RegistersOK, NEW q \in Long, NEW r \in Long
  PROVE  Normalized(q, r) \in Register
<1>1. args.c \in Long /\ 1 \in Long
  BY MaxLongAssumption DEF RegistersOK, Long
<1>2. add(q, 1) \in Long /\ subtract(r, args.c) \in Long
  BY <1>1, LongOps
<1> QED
  BY <1>2 DEF Normalized, Register

\* Two remainders never pass the width.
LEMMA NormalizedBelow ==
  ASSUME RegistersOK, SmallDivisor, NEW q \in Long,
         NEW r1 \in Long, NEW r2 \in Long, r1 < args.c, r2 < args.c
  PROVE  LET n == Normalized(q, add(r1, r2))
         IN  /\ n \in Register /\ n.rem < args.c
             /\ n.quo = IF r1 + r2 >= args.c THEN add(q, 1) ELSE q
             /\ n.rem = IF r1 + r2 >= args.c THEN r1 + r2 - args.c ELSE r1 + r2
<1> DEFINE c == args.c
           n == Normalized(q, add(r1, r2))
<1>1. c \in Long \ {0} /\ 1 \in Long
  BY MaxLongAssumption DEF RegistersOK, Long
<1>2. add(r1, r2) = r1 + r2 /\ r1 + r2 \in Long
  <2>1. r1 + r2 <= MaxLong
    BY <1>1, MaxLongAssumption DEF SmallDivisor, Long
  <2> QED
    BY <2>1, AddWraps, MaxLongAssumption DEF Long
<1>3. n \in Register
  BY <1>2, NormalizedType
<1>4. CASE r1 + r2 >= c
  <2>1. subtract(r1 + r2, c) = r1 + r2 - c
    BY <1>1, <1>2, <1>4, SubtractBorrows DEF Long
  <2>2. n = [quo |-> add(q, 1), rem |-> r1 + r2 - c]
    BY <1>2, <1>4, <2>1 DEF Normalized
  <2> QED
    BY <1>1, <1>3, <1>4, <2>2, MaxLongAssumption DEF Long
<1>5. CASE ~(r1 + r2 >= c)
  <2>1. n = [quo |-> q, rem |-> r1 + r2]
    BY <1>2, <1>5 DEF Normalized
  <2> QED
    BY <1>1, <1>3, <1>5, <2>1, MaxLongAssumption DEF Long
<1> QED
  BY <1>4, <1>5

\* Nothing wraps as long as the sum is part of a product that fits.
LEMMA NormalizedExact ==
  ASSUME RegistersOK, SmallDivisor, Fits, NEW q1 \in Long, NEW q2 \in Long,
         NEW r1 \in Long, NEW r2 \in Long, r1 < args.c, r2 < args.c,
         (q1 * args.c + r1) + (q2 * args.c + r2) <= Product
  PROVE  LET n == Normalized(add(q1, q2), add(r1, r2))
         IN  /\ n.quo * args.c + n.rem = (q1 * args.c + r1) + (q2 * args.c + r2)
             /\ q1 <= n.quo
<1> DEFINE c == args.c
           n == Normalized(add(q1, q2), add(r1, r2))
<1>1. /\ c \in Nat \ {0} /\ Product \in Nat
      /\ q1 \in Nat /\ q2 \in Nat /\ r1 \in Nat /\ r2 \in Nat /\ MaxLong \in Nat
  <2>1. args.a \in Nat /\ args.b \in Nat /\ c \in Nat \ {0}
    BY MaxLongAssumption DEF RegistersOK, Long
  <2>2. args.a * args.b \in Nat
    BY <2>1
  <2> QED
    BY <2>1, <2>2, MaxLongAssumption DEF Product, Long
<1>2. q1 * c \in Nat /\ q2 * c \in Nat /\ (q1 + q2) * c = q1 * c + q2 * c
      /\ (q1 + q2 + 1) * c = q1 * c + q2 * c + c
  BY <1>1
<1>3. (q1 + q2) * c + (r1 + r2) <= Product
  BY <1>1, <1>2
<1>4. q1 + q2 <= Product \div c
  <2> HIDE DEF c
  <2>1. q1 + q2 \in Nat /\ r1 + r2 \in Nat
    BY <1>1
  <2> QED
    BY <1>1, <1>3, <2>1, QuotientBound
<1>5. add(q1, q2) = q1 + q2 /\ q1 + q2 \in Long
  <2>1. q1 + q2 <= MaxLong
    <3>1. Product \div c \in Nat /\ Product \div c <= MaxLong
      BY <1>1, Division DEF Fits
    <3> HIDE DEF c
    <3> QED
      BY <1>1, <1>4, <3>1
  <2> QED
    BY <1>1, <2>1, AddWraps DEF Long
<1>6. /\ n.quo = IF r1 + r2 >= c THEN add(q1 + q2, 1) ELSE q1 + q2
      /\ n.rem = IF r1 + r2 >= c THEN r1 + r2 - c ELSE r1 + r2
  BY <1>5, NormalizedBelow
<1>7. CASE r1 + r2 >= c
  <2>1. q1 + q2 + 1 <= Product \div c
    <3>1. (q1 + q2 + 1) * c + (r1 + r2 - c) <= Product
      BY <1>1, <1>2, <1>3
    <3>2. q1 + q2 + 1 \in Nat /\ r1 + r2 - c \in Nat
      BY <1>1, <1>7
    <3> HIDE DEF c
    <3> QED
      BY <1>1, <3>1, <3>2, QuotientBound
  <2>2. add(q1 + q2, 1) = q1 + q2 + 1
    <3>1. Product \div c \in Nat /\ Product \div c <= MaxLong
      BY <1>1, Division DEF Fits
    <3>2. q1 + q2 + 1 <= MaxLong /\ 1 \in Long
      <4> HIDE DEF c
      <4> QED
        BY <1>1, <2>1, <3>1 DEF Long
    <3> QED
      BY <1>1, <1>5, <3>2, AddWraps
  <2>3. n.quo = q1 + q2 + 1 /\ n.rem = r1 + r2 - c
    BY <1>6, <1>7, <2>2
  <2> HIDE DEF n, c
  <2> QED
    BY <1>1, <1>2, <2>3 DEF c, n
<1>8. CASE ~(r1 + r2 >= c)
  <2>1. n.quo = q1 + q2 /\ n.rem = r1 + r2
    BY <1>6, <1>8
  <2> HIDE DEF n, c
  <2> QED
    BY <1>1, <1>2, <2>1 DEF c, n
<1> QED
  BY <1>7, <1>8
-----------------------------------------------------------------------------
(* The loop.                                                                *)

LoopInv == RegistersOK /\ LoopInvariant /\ SmallIsExact

LEMMA ArgumentTypes ==
  ASSUME RegistersOK
  PROVE  /\ args.a \in Nat /\ args.b \in Nat /\ args.c \in Nat \ {0} /\ Product \in Nat
         /\ multiplier \in Nat /\ MaxLong \in Nat
         /\ acc.quo \in Nat /\ acc.rem \in Nat /\ power.quo \in Nat /\ power.rem \in Nat
         /\ Value(acc) \in Nat /\ Value(power) \in Nat
<1>1. /\ args.a \in Nat /\ args.b \in Nat /\ args.c \in Nat \ {0}
      /\ multiplier \in Nat /\ MaxLong \in Nat
      /\ acc.quo \in Nat /\ acc.rem \in Nat /\ power.quo \in Nat /\ power.rem \in Nat
  BY MaxLongAssumption DEF RegistersOK, Long, Register
<1>2. \A x \in Nat : \A y \in Nat : x * y \in Nat
  OBVIOUS
<1>3. args.a * args.b \in Nat /\ acc.quo * args.c \in Nat /\ power.quo * args.c \in Nat
  BY <1>1, <1>2
<1> QED
  BY <1>1, <1>3 DEF Product, Value

LEMMA Halves ==
  ASSUME NEW x \in Nat, x # 0
  PROVE  /\ x \div 2 \in Nat /\ x \div 2 <= x
         /\ x = 2 * (x \div 2) + (x % 2) /\ x % 2 \in {0, 1}
OBVIOUS

\* A call begins with nothing added up and the whole multiplier to go.
LEMMA LoopInit == Call => LoopInv
<1> SUFFICES ASSUME Call PROVE LoopInv
  OBVIOUS
<1>1. args.a \in Nat /\ args.b \in Nat /\ args.c \in Nat \ {0} /\ args.c \in Long /\ args.b \in Long
  BY MaxLongAssumption DEF Call, Long
<1>2. /\ args.b \div args.c \in Nat /\ args.b % args.c \in Nat /\ args.b % args.c < args.c
      /\ args.b = (args.b \div args.c) * args.c + (args.b % args.c)
  BY <1>1, Division
<1>3. args.b \div args.c <= args.b
  BY <1>1
<1>4. power.quo \in Long /\ power.rem \in Long
  <2> DEFINE q == args.b \div args.c
             r == args.b % args.c
  <2>1. power.quo = q /\ power.rem = r
    BY DEF Call
  <2>2. q \in Nat /\ r \in Nat /\ q <= args.b /\ r < args.c
    BY <1>2, <1>3
  <2> HIDE DEF q, r
  <2> QED
    BY <1>1, <2>1, <2>2, MaxLongAssumption DEF Long
<1>5. RegistersOK
  <2>1. 0 \in Long
    BY MaxLongAssumption DEF Long
  <2>2. power \in Register /\ acc \in Register
    BY <1>4, <2>1 DEF Call, Register
  <2> QED
    BY <2>2 DEF Call, RegistersOK
<1>6. LoopInvariant
  <2>1. Value(power) = args.b
    BY <1>2 DEF Value, Call
  <2>2. Value(acc) = 0
    BY <1>1 DEF Value, Call
  <2>3. Value(acc) + multiplier * Value(power) = Product
    BY <1>1, <2>1, <2>2 DEF Call, Product
  <2> QED
    BY <1>1, <1>2, <2>3 DEF Call, LoopInvariant
<1> QED
  BY <1>5, <1>6 DEF Call, SmallIsExact, LoopInv

LEMMA NextAccType ==
  ASSUME RegistersOK
  PROVE  NextAcc \in Register
<1>1. add(acc.quo, power.quo) \in Long /\ add(acc.rem, power.rem) \in Long
  BY LongOps DEF RegistersOK, Register
<1> QED
  BY <1>1, NormalizedType DEF NextAcc, RegistersOK

LEMMA RegistersNext ==
  ASSUME RegistersOK, Loop
  PROVE  RegistersOK'
<1>1. args' = args /\ args \in [a : Long, b : Long, c : Long \ {0}]
  BY DEF Loop, RegistersOK
<1>2. CASE Saturate
  <2>1. MaxLong \in Long /\ 0 \in Long
    BY MaxLongAssumption DEF Long
  <2> QED
    BY <1>1, <1>2, <2>1 DEF Saturate, Return, RegistersOK, Register, locals
<1>3. CASE Turn
  <2>1. multiplier' \in Long
    BY <1>3, Halves, MaxLongAssumption DEF Turn, RegistersOK, Long
  <2>2. acc' \in Register
    BY <1>3, NextAccType DEF Turn
  <2>3. power' \in Register
    <3>1. multiply(power.quo, 2) \in Long /\ multiply(power.rem, 2) \in Long
      BY Doubling, LongOps DEF RegistersOK, Register
    <3> QED
      BY <1>3, <3>1, NormalizedType DEF Turn
  <2> QED
    BY <1>1, <1>3, <2>1, <2>2, <2>3 DEF Turn, RegistersOK
<1>4. CASE Finish
  BY <1>1, <1>4 DEF Finish, Return, RegistersOK, Register, locals
<1> QED
  BY <1>2, <1>3, <1>4 DEF Loop

\* While there is a multiplier left the next sum is a part of the product, so that
\* it is exact and not taken for an overflow.
LEMMA SumExact ==
  ASSUME LoopInv, SmallDivisor, Fits, returned = Nothing, multiplier # 0
  PROVE  /\ NextAcc.rem < args.c /\ ~Wrapped
         /\ Value(NextAcc) = Value(acc) + (multiplier % 2) * Value(power)
<1> USE DEF LoopInv
<1>1. /\ acc.rem < args.c /\ power.rem < args.c
      /\ Value(acc) + multiplier * Value(power) = Product
  BY DEF LoopInvariant
<1> USE ArgumentTypes
<1>2. CASE multiplier % 2 = 0
  <2>1. NextAcc = acc
    BY <1>2 DEF NextAcc
  <2>2. (multiplier % 2) * Value(power) = 0
    BY <1>2
  <2> QED
    BY <1>1, <2>1, <2>2 DEF Wrapped
<1>3. CASE multiplier % 2 # 0
  <2>1. multiplier % 2 = 1
    BY <1>3, Halves
  <2>2. NextAcc = Normalized(add(acc.quo, power.quo), add(acc.rem, power.rem))
    BY <1>3 DEF NextAcc
  <2>3. /\ acc.quo \in Long /\ acc.rem \in Long /\ power.quo \in Long /\ power.rem \in Long
    BY DEF RegistersOK, Register
  <2>4. Value(acc) + Value(power) <= Product
    <3>1. 1 * Value(power) <= multiplier * Value(power)
      BY TimesMonotone
    <3>2. 1 * Value(power) = Value(power) /\ multiplier * Value(power) \in Nat
      OBVIOUS
    <3> QED
      BY <1>1, <3>1, <3>2
  <2>5. /\ NextAcc.quo * args.c + NextAcc.rem = Value(acc) + Value(power)
        /\ acc.quo <= NextAcc.quo
    BY <1>1, <2>2, <2>3, <2>4, NormalizedExact DEF Value
  <2>6. NextAcc.rem < args.c
    <3>1. add(acc.quo, power.quo) \in Long
      BY <2>3, LongOps
    <3> QED
      BY <1>1, <2>2, <2>3, <3>1, NormalizedBelow
  <2>7. NextAcc.quo \in Nat
    BY NextAccType DEF Register, Long
  <2>8. (multiplier % 2) * Value(power) = Value(power)
    BY <2>1
  <2> QED
    BY <2>5, <2>6, <2>7, <2>8 DEF Wrapped, Value
<1> QED
  BY <1>2, <1>3

\* Doubling is exact while there is a multiplier for it.
LEMMA PowerExact ==
  ASSUME LoopInv, SmallDivisor, Fits, returned = Nothing, multiplier # 0, Turn
  PROVE  /\ power'.rem < args.c
         /\ multiplier \div 2 # 0 => power'.quo * args.c + power'.rem = 2 * Value(power)
<1> USE DEF LoopInv
<1>1. /\ power.rem < args.c
      /\ Value(acc) + multiplier * Value(power) = Product
  BY DEF LoopInvariant
<1>2. power' = Normalized(add(power.quo, power.quo), add(power.rem, power.rem))
  <2>1. power.quo \in Long /\ power.rem \in Long
    BY DEF RegistersOK, Register
  <2> QED
    BY <2>1, Doubling DEF Turn
<1>3. power.quo \in Long /\ power.rem \in Long
  BY DEF RegistersOK, Register
<1>4. power'.rem < args.c
  <2>1. add(power.quo, power.quo) \in Long
    BY <1>3, LongOps
  <2> QED
    BY <1>1, <1>2, <1>3, <2>1, NormalizedBelow
<1>5. ASSUME multiplier \div 2 # 0
      PROVE  power'.quo * args.c + power'.rem = 2 * Value(power)
  <2>1. 2 <= multiplier
    BY <1>5, ArgumentTypes
  <2>2. 2 * Value(power) <= multiplier * Value(power) /\ multiplier * Value(power) \in Nat
    BY <2>1, ArgumentTypes, TimesMonotone
  <2>3. Value(power) + Value(power) <= Product
    BY <1>1, <2>2, ArgumentTypes
  <2>4. power'.quo * args.c + power'.rem = Value(power) + Value(power)
    BY <1>1, <1>2, <1>3, <2>3, NormalizedExact DEF Value
  <2> QED
    BY <2>4, ArgumentTypes
<1> QED
  BY <1>4, <1>5

\* The values of both registers and the multiplier after a turn.
LEMMA LoopTurn ==
  ASSUME LoopInv, Loop, Turn
  PROVE  LoopInvariant'
<1> SUFFICES ASSUME SmallDivisor, Fits, returned = Nothing
             PROVE  /\ acc'.rem < args.c /\ power'.rem < args.c
                    /\ Value(acc)' + multiplier' * Value(power)' = Product
  BY DEF LoopInvariant, SmallDivisor, Fits, Product, Loop, Value
<1>1. args' = args /\ multiplier' = multiplier \div 2 /\ acc' = NextAcc /\ multiplier # 0
  BY DEF Turn, Loop
<1> DEFINE h == multiplier \div 2
           b == multiplier % 2
           X == Value(power)
           A == Value(acc)
<1>2. /\ A \in Nat /\ X \in Nat /\ multiplier \in Nat /\ args.c \in Nat /\ A + multiplier * X = Product
  BY ArgumentTypes DEF LoopInv, LoopInvariant
<1>3. h \in Nat /\ b \in {0, 1} /\ multiplier = 2 * h + b
  BY <1>1, <1>2, Halves
<1>4. acc'.rem < args.c /\ Value(acc)' = A + b * X
  BY <1>1, SumExact DEF Value
<1>5. power'.rem < args.c
  BY <1>1, PowerExact
<1>6. multiplier' * Value(power)' = h * (2 * X)
  <2>1. CASE h = 0
    <3>1. Value(power)' \in Int
      BY <1>1, <1>2, RegistersNext, MaxLongAssumption DEF LoopInv, RegistersOK, Register, Value, Long
    <3>2. \A x \in Int : 0 * x = 0
      OBVIOUS
    <3>3. 2 * X \in Int
      BY <1>2
    <3> HIDE DEF X, h
    <3> QED
      BY <1>1, <2>1, <3>1, <3>2, <3>3 DEF h
  <2>2. CASE h # 0
    <3>1. Value(power)' = 2 * X
      BY <1>1, <2>2, PowerExact DEF Value
    <3> QED
      BY <1>1, <3>1
  <2> QED
    BY <2>1, <2>2
<1>7. (A + b * X) + h * (2 * X) = A + multiplier * X
  <2>1. \A x, y, z \in Nat : (2 * y + z) * x = z * x + y * (2 * x)
    OBVIOUS
  <2>2. multiplier * X = b * X + h * (2 * X)
    <3> HIDE DEF X, h, b
    <3> QED
      BY <1>2, <1>3, <2>1
  <2>3. b * X \in Nat /\ h * (2 * X) \in Nat
    <3>1. \A x, y \in Nat : x * y \in Nat /\ y * (2 * x) \in Nat
      OBVIOUS
    <3> HIDE DEF X, h, b
    <3> QED
      BY <1>2, <1>3, <3>1
  <2> HIDE DEF X, h, b
  <2> QED
    BY <1>2, <2>2, <2>3
<1> HIDE DEF A, X, h, b
<1> QED
  BY <1>2, <1>4, <1>5, <1>6, <1>7

\* What is returned is exact, because nothing is left to multiply.
LEMMA LoopReturn ==
  ASSUME LoopInv, Loop, Saturate \/ Finish
  PROVE  SmallIsExact'
<1> SUFFICES ASSUME SmallDivisor, Fits
             PROVE  Exact(returned)'
  BY DEF SmallIsExact, SmallDivisor, Fits, Product, Loop
<1>1. args' = args /\ returned = Nothing
  BY DEF Loop
<1>2. CASE Saturate
  BY <1>1, <1>2, SumExact DEF Saturate
<1>3. CASE Finish
  <2>1. multiplier = 0 /\ returned' = [quo |-> acc.quo, rem |-> acc.rem]
    BY <1>3 DEF Finish, Return
  <2>2. /\ acc.rem < args.c /\ Value(acc) + multiplier * Value(power) = Product
        /\ Value(acc) \in Nat /\ Value(power) \in Nat
        /\ acc.quo \in Nat /\ acc.rem \in Nat /\ args.c \in Nat \ {0}
    BY <1>1, ArgumentTypes DEF LoopInv, LoopInvariant
  <2>3. Value(acc) = Product
    BY <2>1, <2>2
  <2>4. acc.quo = Product \div args.c /\ acc.rem = Product % args.c
    BY <2>2, <2>3, DivisionUnique DEF Value
  <2> QED
    BY <1>1, <2>1, <2>4 DEF Exact, Product
<1> QED
  BY <1>2, <1>3

LEMMA LoopNext == LoopInv /\ [Loop]_registers => LoopInv'
<1> SUFFICES ASSUME LoopInv, [Loop]_registers
             PROVE  LoopInv'
  OBVIOUS
<1>1. CASE UNCHANGED registers
  BY <1>1 DEF registers, locals, LoopInv, RegistersOK, LoopInvariant, SmallIsExact, SmallDivisor, Fits, Product,
              Value, Exact
<1>2. CASE Loop
  <2>1. RegistersOK'
    BY <1>2, RegistersNext DEF LoopInv
  <2>2. CASE Turn
    <3>1. SmallIsExact'
      BY <1>2, <2>2 DEF Turn, Loop, SmallIsExact
    <3> QED
      BY <1>2, <2>1, <2>2, <3>1, LoopTurn DEF LoopInv
  <2>3. CASE Saturate \/ Finish
    <3>1. returned' # Nothing
      <4>1. acc.quo \in Nat /\ MaxLong \in Nat
        BY ArgumentTypes DEF LoopInv
      <4> QED
        BY <2>3, <4>1 DEF Saturate, Finish, Return, Nothing
    <3>2. LoopInvariant'
      BY <3>1 DEF LoopInvariant
    <3> QED
      BY <1>2, <2>1, <2>3, <3>2, LoopReturn DEF LoopInv
  <2> QED
    BY <1>2, <2>2, <2>3 DEF Loop
<1> QED
  BY <1>1, <1>2

\* The registers of multiplyDivide (long.ts:121) never leave their width, and what they
\* hold, with what is still to be multiplied, is the product.
THEOREM MulDivLoop == multiplyDivide => [](RegistersOK /\ LoopInvariant)
<1>1. LoopInv => RegistersOK /\ LoopInvariant
  BY DEF LoopInv
<1> QED
  BY <1>1, LoopInit, LoopNext, PTL DEF multiplyDivide

\* multiplyDivide (long.ts:121) returns quotient and remainder of the product, at every
\* width, where they fit and the divisor is at most half of it.
THEOREM MulDivExact == multiplyDivide => []SmallIsExact
<1>1. LoopInv => SmallIsExact
  BY DEF LoopInv
<1> QED
  BY <1>1, LoopInit, LoopNext, PTL DEF multiplyDivide

-----------------------------------------------------------------------------
(* The functions built on it.                                               *)

\* Rounding up is one more for a remainder, and rounding half up one more for half of the
\* divisor.
LEMMA Roundings ==
  ASSUME NEW c \in Nat \ {0}, NEW q \in Nat, NEW r \in Nat, r < c
  PROVE  /\ (q * c + r + c - 1) \div c = IF r = 0 THEN q ELSE q + 1
         /\ (2 * (q * c + r) + c) \div (2 * c) = IF 2 * r >= c THEN q + 1 ELSE q
<1>1. \A n \in Nat : n * c \in Nat /\ (n + 1) * c = n * c + c /\ n * (2 * c) = 2 * (n * c)
  OBVIOUS
<1>2. (q * c + r + c - 1) \div c = IF r = 0 THEN q ELSE q + 1
  <2>1. CASE r = 0
    <3>1. q * c + r + c - 1 = q * c + (c - 1) /\ c - 1 \in Nat /\ c - 1 < c
      BY <1>1, <2>1
    <3>2. (q * c + (c - 1)) \div c = q
      BY <3>1, DivisionUnique
    <3> QED BY <2>1, <3>1, <3>2
  <2>2. CASE r # 0
    <3>1. q * c + r + c - 1 = (q + 1) * c + (r - 1) /\ r - 1 \in Nat /\ r - 1 < c /\ q + 1 \in Nat
      BY <1>1, <2>2
    <3>2. ((q + 1) * c + (r - 1)) \div c = q + 1
      BY <3>1, DivisionUnique
    <3> QED BY <2>2, <3>1, <3>2
  <2> QED BY <2>1, <2>2
<1>3. (2 * (q * c + r) + c) \div (2 * c) = IF 2 * r >= c THEN q + 1 ELSE q
  <2> DEFINE d == 2 * c
             s == 2 * r + c
  <2>1. d \in Nat \ {0} /\ s \in Nat
    OBVIOUS
  <2>2. CASE 2 * r >= c
    <3>1. 2 * (q * c + r) + c = (q + 1) * d + (s - d) /\ s - d \in Nat /\ s - d < d /\ q + 1 \in Nat
      <4>1. q * c \in Nat /\ (q + 1) * d = 2 * (q * c + c)
        BY <1>1
      <4> QED BY <2>2, <4>1
    <3>2. ((q + 1) * d + (s - d)) \div d = q + 1
      <4> HIDE DEF d, s
      <4> QED BY <2>1, <3>1, DivisionUnique
    <3> QED BY <2>2, <3>1, <3>2
  <2>3. CASE ~(2 * r >= c)
    <3>1. 2 * (q * c + r) + c = q * d + s /\ s < d
      <4>1. q * c \in Nat /\ q * d = 2 * (q * c)
        BY <1>1
      <4> QED BY <2>3, <4>1
    <3>2. (q * d + s) \div d = q
      <4> HIDE DEF d, s
      <4> QED BY <2>1, <3>1, DivisionUnique
    <3> QED BY <2>3, <3>1, <3>2
  <2> QED BY <2>2, <2>3
<1> QED BY <1>2, <1>3

\* RoundUp compares with half of the divisor without doubling the remainder.
LEMMA RoundUpHalf ==
  ASSUME NEW r, NEW c \in Nat \ {0}, r.rem \in Nat
  PROVE  RoundUp(r, c) <=> 2 * r.rem >= c
<1>1. /\ c \div 2 \in Nat /\ c % 2 \in {0, 1} /\ c = 2 * (c \div 2) + (c % 2)
  BY Halves
<1> DEFINE h == c \div 2
           m == r.rem
<1>2. CASE c % 2 = 1
  <2>1. c = 2 * h + 1
    BY <1>1, <1>2
  <2>2. RoundUp(r, c) <=> m # 0 /\ m > h
    BY <1>2 DEF RoundUp
  <2> HIDE DEF h, m
  <2>3. h \in Nat /\ m \in Nat
    BY <1>1 DEF h, m
  <2>4. (m # 0 /\ m > h) <=> 2 * m >= c
    BY <2>1, <2>3
  <2> QED BY <2>2, <2>4 DEF m
<1>3. CASE c % 2 = 0
  <2>1. c = 2 * h
    BY <1>1, <1>3
  <2>2. RoundUp(r, c) <=> m # 0 /\ m >= h
    BY <1>3 DEF RoundUp
  <2> HIDE DEF h, m
  <2>3. h \in Nat /\ m \in Nat
    BY <1>1 DEF h, m
  <2>4. (m # 0 /\ m >= h) <=> 2 * m >= c
    BY <2>1, <2>3
  <2> QED BY <2>2, <2>4 DEF m
<1> QED BY <1>1, <1>2, <1>3

\* multiplyDivideCeil and multiplyDivideRound (long.ts:102, 109) round as they should at every
\* width, and give MaxLong instead of wrapping to 0.
THEOREM CeilAndRoundHolds == multiplyDivide => []CeilAndRound
<1>1. ASSUME LoopInv PROVE CeilAndRound
  <2> SUFFICES ASSUME SmallDivisor, Fits, returned # Nothing
               PROVE  /\ multiplyDivideCeil(returned, args.c)
                           = minLong((Product + args.c - 1) \div args.c, MaxLong)
                      /\ multiplyDivideRound(returned, args.c)
                           = minLong((2 * Product + args.c) \div (2 * args.c), MaxLong)
    BY DEF CeilAndRound
  <2> DEFINE c == args.c
             q == Product \div c
             r == Product % c
  <2>1. c \in Nat \ {0} /\ Product \in Nat /\ MaxLong \in Nat
    BY <1>1, ArgumentTypes DEF LoopInv
  <2>2. q \in Nat /\ r \in Nat /\ r < c /\ Product = q * c + r /\ q <= MaxLong
    BY <2>1, Division DEF Fits
  <2>3. returned.quo = q /\ returned.rem = r
    BY <1>1 DEF LoopInv, SmallIsExact, Exact
  <2>4. RoundUp(returned, c) <=> 2 * r >= c
    BY <2>1, <2>2, <2>3, RoundUpHalf
  <2> HIDE DEF c, q, r
  <2>5. /\ (Product + c - 1) \div c = IF r = 0 THEN q ELSE q + 1
        /\ (2 * Product + c) \div (2 * c) = IF 2 * r >= c THEN q + 1 ELSE q
    BY <2>1, <2>2, Roundings
  <2>6. q # MaxLong => add(q, 1) = q + 1 /\ add(q, 0) = q
    <3>1. q \in Long /\ 0 \in Long /\ 1 \in Long
      BY <2>2, MaxLongAssumption DEF Long
    <3> QED BY <2>1, <2>2, <3>1, AddWraps
  <2>7. multiplyDivideCeil(returned, c) = minLong((Product + c - 1) \div c, MaxLong)
    BY <2>1, <2>2, <2>3, <2>5, <2>6 DEF multiplyDivideCeil, minLong
  <2>8. multiplyDivideRound(returned, c) = minLong((2 * Product + c) \div (2 * c), MaxLong)
    BY <2>1, <2>2, <2>3, <2>4, <2>5, <2>6 DEF multiplyDivideRound, minLong
  <2> QED BY <2>7, <2>8 DEF c
<1> QED BY <1>1, LoopInit, LoopNext, PTL DEF multiplyDivide
=============================================================================
