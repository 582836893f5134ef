----------------------------- MODULE LongArith -----------------------------
(***************************************************************************)
(* util/long.ts: arithmetic on unsigned 64-bit Longs, the type of every    *)
(* amount of money in the program.  The width is a parameter: MaxLong is   *)
(* Long.MAX_UNSIGNED_VALUE, the operations of the `long` package wrap      *)
(* around at MaxLong + 1, and the checked operations of util/long.ts are   *)
(* built from the wrapping ones and comparisons.                           *)
(***************************************************************************)
EXTENDS Integers

CONSTANT MaxLong

ASSUME MaxLongAssumption == MaxLong \in Nat /\ MaxLong % 2 = 1

Long == 0 .. MaxLong

\* The `long` package: addition, subtraction and multiplication modulo 2^64.
add(a, b)      == (a + b) % (MaxLong + 1)
subtract(a, b) == (a - b) % (MaxLong + 1)
multiply(a, b) == (a * b) % (MaxLong + 1)

minLong(a, b) == IF a < b THEN a ELSE b
maxLong(a, b) == IF a > b THEN a ELSE b

checkedAdd(a, b) ==
  LET sum      == add(a, b)
      overflow == sum < a \/ sum < b
  IN  [sum |-> IF overflow THEN MaxLong ELSE sum, overflow |-> overflow]

checkedSubtract(a, b) ==
  LET difference == subtract(a, b)
      underflow  == difference > a /\ difference > b
  IN  [difference |-> IF underflow THEN 0 ELSE difference, underflow |-> underflow]

checkedMultiply(a, b) ==
  LET product  == multiply(a, b)
      overflow == product < a \/ product < b
  IN  [product |-> IF overflow THEN MaxLong ELSE product, overflow |-> overflow]

-----------------------------------------------------------------------------
(* What the operations are for, over unbounded integers.                    *)

SaturatingSum(a, b)        == minLong(a + b, MaxLong)
SaturatingDifference(a, b) == maxLong(a - b, 0)
SaturatingProduct(a, b)    == minLong(a * b, MaxLong)

\* multiplyDivideFloor and multiplyDivideCeil where the quotient fits in a Long;
\* MulDiv models the loop that computes them and says when that is so.
Floor(a, b, c) == (a * b) \div c
Ceil(a, b, c)  == (a * b + c - 1) \div c
=============================================================================
