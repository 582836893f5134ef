-------------------------- MODULE LongArithProofs --------------------------
(***************************************************************************)
(* What the checked operations of util/long.ts return, for every width,    *)
(* what the sum of the amounts of a finite set is, and that a recursion    *)
(* over the numbers defines a function.                                    *)
(***************************************************************************)
EXTENDS LongArith, FiniteSets, Functions, FiniteSetTheorems, WellFoundedInduction, TLAPS

\* A sum of two residues wraps at most once.
LEMMA WrapOnce ==
  \A m \in Nat \ {0} : \A x \in 0 .. 2 * m - 1 : x % m = IF x < m THEN x ELSE x - m
OBVIOUS

\* A difference of two residues borrows at most once.
LEMMA BorrowOnce ==
  \A m \in Nat \ {0} : \A x \in (-m) .. m - 1 : x % m = IF x < 0 THEN x + m ELSE x
OBVIOUS

\* Long.add is addition unless the sum passes MaxLong.
LEMMA AddWraps ==
  ASSUME NEW a \in Long, NEW b \in Long
  PROVE  add(a, b) = IF a + b <= MaxLong THEN a + b ELSE a + b - (MaxLong + 1)
<1> DEFINE m == MaxLong + 1
           x == a + b
<1>1. m \in Nat \ {0} /\ x \in 0 .. 2 * m - 1
  BY MaxLongAssumption DEF Long
<1>2. x % m = IF x < m THEN x ELSE x - m
  <2> HIDE DEF m, x
  <2> QED BY <1>1, WrapOnce
<1> QED BY <1>2, MaxLongAssumption DEF add, Long

\* Long.subtract is subtraction unless the difference is negative.
LEMMA SubtractBorrows ==
  ASSUME NEW a \in Long, NEW b \in Long
  PROVE  subtract(a, b) = IF b <= a THEN a - b ELSE a - b + (MaxLong + 1)
<1> DEFINE m == MaxLong + 1
           x == a - b
<1>1. m \in Nat \ {0} /\ x \in (-m) .. m - 1
  BY MaxLongAssumption DEF Long
<1>2. x % m = IF x < 0 THEN x + m ELSE x
  <2> HIDE DEF m, x
  <2> QED BY <1>1, BorrowOnce
<1> QED BY <1>2, MaxLongAssumption DEF subtract, Long

\* checkedAdd (long.ts:57) saturates at MaxLong, and reports the overflow exactly
\* when the true sum does not fit.
THEOREM CheckedAddSaturates ==
  ASSUME NEW a \in Long, NEW b \in Long
  PROVE  /\ checkedAdd(a, b) = [sum |-> SaturatingSum(a, b), overflow |-> a + b > MaxLong]
         /\ SaturatingSum(a, b) \in Long
<1>1. add(a, b) = IF a + b <= MaxLong THEN a + b ELSE a + b - (MaxLong + 1)
  BY AddWraps
<1>2. (add(a, b) < a \/ add(a, b) < b) = (a + b > MaxLong)
  BY <1>1, MaxLongAssumption DEF Long
<1>3. SaturatingSum(a, b) = IF a + b > MaxLong THEN MaxLong ELSE add(a, b)
  BY <1>1, MaxLongAssumption DEF Long, SaturatingSum, minLong
<1>4. checkedAdd(a, b) = [sum |-> SaturatingSum(a, b), overflow |-> a + b > MaxLong]
  BY <1>2, <1>3 DEF checkedAdd
<1>5. SaturatingSum(a, b) \in Long
  BY MaxLongAssumption DEF Long, SaturatingSum, minLong
<1> QED BY <1>4, <1>5

\* checkedSubtract (long.ts:69) is subtraction when the difference is not negative,
\* and always a Long.
LEMMA CheckedSubtractExact ==
  ASSUME NEW a \in Long, NEW b \in Long
  PROVE  /\ b <= a => checkedSubtract(a, b) = [difference |-> a - b, underflow |-> FALSE]
         /\ checkedSubtract(a, b).difference \in Long
<1>1. subtract(a, b) = IF b <= a THEN a - b ELSE a - b + (MaxLong + 1)
  BY SubtractBorrows
<1>2. subtract(a, b) \in Long
  BY <1>1, MaxLongAssumption DEF Long
<1>3. checkedSubtract(a, b).difference \in {0, subtract(a, b)}
  BY DEF checkedSubtract
<1>4. 0 \in Long
  BY MaxLongAssumption DEF Long
<1>5. ASSUME b <= a
      PROVE  checkedSubtract(a, b) = [difference |-> a - b, underflow |-> FALSE]
  <2>1. (subtract(a, b) > a /\ subtract(a, b) > b) = FALSE
    BY <1>1, <1>5, MaxLongAssumption DEF Long
  <2> QED BY <2>1, <1>1, <1>5 DEF checkedSubtract
<1> QED BY <1>2, <1>3, <1>4, <1>5

\* For a subtrahend of less than half of the width, checkedSubtract saturates at 0, and
\* reports the underflow exactly when there is one.
THEOREM CheckedSubtractSaturates ==
  ASSUME NEW a \in Long, NEW b \in Long, 2 * b <= MaxLong
  PROVE  checkedSubtract(a, b) = [difference |-> SaturatingDifference(a, b), underflow |-> a < b]
<1>1. CASE b <= a
  <2>1. SaturatingDifference(a, b) = a - b /\ (a < b) = FALSE
    BY <1>1 DEF Long, SaturatingDifference, maxLong
  <2> QED BY <1>1, <2>1, CheckedSubtractExact
<1>2. CASE ~ (b <= a)
  <2>1. subtract(a, b) = a - b + (MaxLong + 1)
    BY <1>2, SubtractBorrows
  <2>2. (subtract(a, b) > a /\ subtract(a, b) > b) = TRUE
    BY <1>2, <2>1, MaxLongAssumption DEF Long
  <2>3. SaturatingDifference(a, b) = 0 /\ (a < b) = TRUE
    BY <1>2 DEF Long, SaturatingDifference, maxLong
  <2> QED BY <2>2, <2>3 DEF checkedSubtract
<1> QED BY <1>1, <1>2

\* An underflow is missed exactly when the subtrahend is so large that the wrapped
\* difference does not exceed it.
THEOREM CheckedSubtractMisses ==
  ASSUME NEW a \in Long, NEW b \in Long, a < b
  PROVE  checkedSubtract(a, b).underflow = (a - b + (MaxLong + 1) > b)
<1>1. subtract(a, b) = a - b + (MaxLong + 1)
  BY SubtractBorrows DEF Long
<1>2. (subtract(a, b) > a /\ subtract(a, b) > b) = (a - b + (MaxLong + 1) > b)
  BY <1>1, MaxLongAssumption DEF Long
<1> QED
  BY <1>2 DEF checkedSubtract

\* checkedMultiply (long.ts:86) reports an overflow for a product with 0, and saturates it.
THEOREM CheckedMultiplyOfZero ==
  ASSUME NEW n \in Long \ {0}
  PROVE  /\ checkedMultiply(0, n) = [product |-> MaxLong, overflow |-> TRUE]
         /\ SaturatingProduct(0, n) = 0
<1>1. n \in Nat /\ 0 < n /\ MaxLong \in Nat /\ MaxLong # 0
  BY MaxLongAssumption DEF Long
<1>2. multiply(0, n) = 0 /\ 0 * n = 0
  BY <1>1 DEF multiply
<1>3. (multiply(0, n) < 0 \/ multiply(0, n) < n) = TRUE
  BY <1>1, <1>2
<1>4. checkedMultiply(0, n) = [product |-> MaxLong, overflow |-> TRUE]
  BY <1>3 DEF checkedMultiply
<1>5. SaturatingProduct(0, n) = 0
  BY <1>1, <1>2 DEF SaturatingProduct, minLong
<1> QED
  BY <1>4, <1>5
-----------------------------------------------------------------------------
(* Facts about products and quotients that the proofs of other modules use. *)

\* Multiplying by a divisor keeps the order.
LEMMA TimesMonotone ==
  ASSUME NEW x \in Nat, NEW y \in Nat, NEW c \in Nat, x <= y
  PROVE  x * c <= y * c
<1>1. PICK d \in Nat : y = x + d
  <2>1. y - x \in Nat /\ y = x + (y - x)
    OBVIOUS
  <2> QED
    BY <2>1
<1>2. y * c = x * c + d * c
  BY <1>1
<1>3. x * c \in Nat /\ d * c \in Nat
  OBVIOUS
<1> QED
  BY <1>2, <1>3

\* Division with remainder.
LEMMA Division ==
  ASSUME NEW p \in Nat, NEW c \in Nat \ {0}
  PROVE  /\ p \div c \in Nat /\ p % c \in Nat /\ p % c < c
         /\ p = (p \div c) * c + (p % c)
<1>1. p \div c \in Nat /\ p % c \in 0 .. c - 1
  OBVIOUS
<1>2. p = c * (p \div c) + (p % c)
  OBVIOUS
<1>3. c * (p \div c) = (p \div c) * c
  BY <1>1
<1> QED
  BY <1>1, <1>2, <1>3

\* A part of the product has no larger quotient.
LEMMA QuotientBound ==
  ASSUME NEW p \in Nat, NEW c \in Nat \ {0}, NEW q \in Nat, NEW r \in Nat, q * c + r <= p
  PROVE  q <= p \div c
<1> DEFINE s == p \div c
<1>1. s \in Nat /\ p < s * c + c
  BY Division
<1>2. SUFFICES ASSUME s + 1 <= q
               PROVE  FALSE
  BY <1>1
<1>3. (s + 1) * c <= q * c
  BY <1>1, <1>2, TimesMonotone
<1>4. (s + 1) * c = s * c + c
  BY <1>1
<1>5. q * c \in Nat /\ s * c \in Nat
  BY <1>1
<1> QED
  BY <1>1, <1>3, <1>4, <1>5

\* Quotient and remainder are unique.
LEMMA DivisionUnique ==
  ASSUME NEW c \in Nat \ {0}, NEW q \in Nat, NEW r \in Nat, r < c
  PROVE  (q * c + r) \div c = q /\ (q * c + r) % c = r
<1> DEFINE p == q * c + r
           s == p \div c
           t == p % c
<1>1. p \in Nat
  <2>1. q * c \in Nat
    OBVIOUS
  <2> QED
    BY <2>1
<1>2. s \in Nat /\ t \in Nat /\ t < c /\ p = s * c + t
  BY <1>1, Division
<1>3. q <= s
  BY <1>1, QuotientBound
<1>4. ~(q + 1 <= s)
  <2> SUFFICES ASSUME q + 1 <= s PROVE FALSE
    OBVIOUS
  <2>1. (q + 1) * c <= s * c
    BY <1>2, TimesMonotone
  <2>2. (q + 1) * c = q * c + c
    OBVIOUS
  <2>3. q * c \in Nat /\ s * c \in Nat
    BY <1>2
  <2> HIDE DEF s, t
  <2> QED
    BY <1>2, <2>1, <2>2, <2>3
<1>5. q = s
  BY <1>2, <1>3, <1>4
<1>6. q * c \in Nat /\ s * c = q * c
  BY <1>5
<1> HIDE DEF s, t
<1> QED
  <2>1. t = r
    BY <1>2, <1>6
  <2> QED
    BY <1>5, <2>1 DEF s, t
\* The operations of the package stay in the range, whatever the operands.
LEMMA LongOps ==
  ASSUME NEW x \in Long, NEW y \in Long
  PROVE  add(x, y) \in Long /\ subtract(x, y) \in Long
<1>1. MaxLong + 1 \in Nat \ {0} /\ x + y \in Int /\ x - y \in Int
  BY MaxLongAssumption DEF Long
<1>2. \A m \in Nat \ {0} : \A z \in Int : z % m \in 0 .. m - 1
  OBVIOUS
<1>3. (x + y) % (MaxLong + 1) \in 0 .. (MaxLong + 1) - 1 /\ (x - y) % (MaxLong + 1) \in 0 .. (MaxLong + 1) - 1
  BY <1>1, <1>2
<1> QED
  BY <1>3, MaxLongAssumption DEF add, subtract, Long

LEMMA Doubling ==
  ASSUME NEW x \in Long
  PROVE  multiply(x, 2) = add(x, x)
<1>1. x * 2 = x + x
  BY MaxLongAssumption DEF Long
<1> QED
  BY <1>1 DEF multiply, add

\* Factors keep the order only if they are themselves in order.
LEMMA CancelFactor ==
  ASSUME NEW x \in Nat, NEW y \in Nat, NEW c \in Nat \ {0}, x * c <= y * c
  PROVE  x <= y
<1> SUFFICES ASSUME y + 1 <= x PROVE FALSE
  OBVIOUS
<1>1. (y + 1) * c <= x * c
  BY TimesMonotone
<1>2. (y + 1) * c = y * c + c /\ y * c \in Nat
  OBVIOUS
<1> QED BY <1>1, <1>2

\* A quotient of naturals is a natural.
LEMMA QuotientNat == \A x \in Nat : \A c \in Nat \ {0} : x \div c \in Nat
OBVIOUS

\* A quotient is at most what bounds the product.
LEMMA QuotientAtMost ==
  ASSUME NEW p \in Nat, NEW c \in Nat \ {0}, NEW n \in Nat, p <= n * c
  PROVE  p \div c \in Nat /\ p \div c <= n
<1>1. /\ p \div c \in Nat /\ p % c \in Nat
      /\ p = (p \div c) * c + (p % c)
  BY Division
<1>2. (p \div c) * c <= n * c
  <2>1. (p \div c) * c \in Nat /\ n * c \in Nat
    BY <1>1
  <2> DEFINE q == p \div c
             r == p % c
  <2> HIDE DEF q, r
  <2>2. q * c \in Nat /\ n * c \in Nat /\ r \in Nat /\ p = q * c + r
    BY <1>1, <2>1 DEF q, r
  <2>3. q * c <= n * c
    BY <2>2
  <2> QED BY <2>3 DEF q
<1> QED BY <1>1, <1>2, CancelFactor

\* A part of an amount is no more than the amount.
LEMMA FloorOfPart ==
  ASSUME NEW x \in Nat, NEW a \in Nat, NEW c \in Nat \ {0}, a <= c
  PROVE  Floor(x, a, c) \in Nat /\ Floor(x, a, c) <= x
<1>1. x * a \in Nat /\ x * a = a * x /\ x * c = c * x
  OBVIOUS
<1>2. x * a <= x * c
  BY <1>1, TimesMonotone
<1> QED BY <1>1, <1>2, QuotientAtMost DEF Floor

\* An amount that the inverse of a rate allows fits in a Long once it is converted.
LEMMA FloorFits ==
  ASSUME NEW x \in Nat, NEW num \in Nat \ {0}, NEW den \in Nat \ {0}, x <= Floor(MaxLong, den, num)
  PROVE  Floor(x, num, den) \in Long
<1> DEFINE q == Floor(MaxLong, den, num)
<1>1. MaxLong * den \in Nat /\ MaxLong \in Nat
  BY MaxLongAssumption
<1>2. q \in Nat /\ q * num <= MaxLong * den
  <2> DEFINE p == MaxLong * den
             r == p % num
  <2>1. q \in Nat /\ r \in Nat /\ p = q * num + r
    BY <1>1, Division DEF Floor
  <2> HIDE DEF p, q, r
  <2>2. q * num \in Nat
    BY <2>1
  <2>3. q * num <= p
    BY <2>1, <2>2
  <2> QED BY <2>1, <2>3 DEF p
<1>3. x * num <= MaxLong * den
  <2>1. x * num <= q * num
    BY <1>2, TimesMonotone
  <2>2. x * num \in Nat /\ q * num \in Nat
    BY <1>2
  <2> HIDE DEF q
  <2> QED BY <1>1, <1>2, <2>1, <2>2
<1> QED BY <1>1, <1>3, QuotientAtMost DEF Floor, Long

\* checkedSubtract is exact below half of a Long, where it sees every underflow.
LEMMA SubtractBelowHalf ==
  ASSUME NEW a \in Long, NEW b \in Long, 2 * a <= MaxLong, 2 * b <= MaxLong
  PROVE  checkedSubtract(a, b).difference = IF b <= a THEN a - b ELSE 0
<1>1. subtract(a, b) = IF b <= a THEN a - b ELSE a - b + (MaxLong + 1)
  BY SubtractBorrows
<1> QED BY <1>1, MaxLongAssumption DEF checkedSubtract, Long

\* checkedSubtract of Longs is a Long.
LEMMA SubtractIsLong ==
  ASSUME NEW a \in Long, NEW b \in Long
  PROVE  checkedSubtract(a, b).difference \in Long
<1>1. subtract(a, b) = IF b <= a THEN a - b ELSE a - b + (MaxLong + 1)
  BY SubtractBorrows
<1> QED BY <1>1, MaxLongAssumption DEF checkedSubtract, Long

\* A product of Longs divided is an integer.
LEMMA CeilIsInt ==
  ASSUME NEW a \in Nat, NEW b \in Nat, NEW c \in Nat \ {0}
  PROVE  Ceil(a, b, c) \in Int
<1>1. a * b \in Nat
  OBVIOUS
<1> DEFINE x == a * b + c - 1
<1>2. x \in Int
  BY <1>1
<1>3. x \div c \in Int
  <2> HIDE DEF x
  <2> QED BY <1>2
<1> QED BY <1>3 DEF Ceil

-----------------------------------------------------------------------------
(* Sums of amounts over a finite set: what SumFunctionOnSet computes.  The  *)
(* fold it is defined by is a recursive function on the subsets of the set, *)
(* and the lemmas follow from the least-counterexample principle.           *)

\* The element that Functions takes first when it adds up over s.
Pick(s) == CHOOSE x \in s : TRUE

\* g is the recursion by which Functions adds up f over the subsets of S.
IsSum(g, f, S) ==
  g = [s \in SUBSET S |-> IF s = {} THEN 0 ELSE f[Pick(s)] + g[s \ {Pick(s)}]]

\* A sum is the value at S of some such g, if there is one.
LEMMA SumIsChosen ==
  ASSUME NEW f, NEW S
  PROVE  SumFunctionOnSet(f, S) = (CHOOSE g : IsSum(g, f, S))[S]
BY DEF SumFunctionOnSet, FoldFunctionOnSet, MapThenFoldSet, IsSum, Pick

\* Induction over the subsets of a finite set, as the principle of the least counterexample.
LEMMA MinimalSubset ==
  ASSUME NEW S, IsFiniteSet(S), NEW Bad \in SUBSET SUBSET S, Bad # {}
  PROVE  \E A \in Bad : \A B \in Bad : B \subseteq A => B = A
<1>1. IsWellFoundedOn(StrictSubsetOrdering(S), SUBSET S)
  BY FS_StrictSubsetOrderingWellFounded, FS_FiniteSubsetsOfFinite
<1>2. PICK A \in Bad : \A B \in Bad : ~ (<<B, A>> \in StrictSubsetOrdering(S))
  BY <1>1, WFMin
<1> QED BY <1>2 DEF StrictSubsetOrdering

\* Recursions for f agree on the subsets they share.
LEMMA SumUnique ==
  ASSUME NEW f, NEW A, NEW B, IsFiniteSet(A), A \subseteq B,
         NEW g, NEW h, IsSum(g, f, A), IsSum(h, f, B)
  PROVE  \A s \in SUBSET A : g[s] = h[s]
<1> DEFINE Bad == {s \in SUBSET A : g[s] # h[s]}
<1> SUFFICES ASSUME Bad # {} PROVE FALSE
  OBVIOUS
<1>1. PICK s \in Bad : \A t \in Bad : t \subseteq s => t = s
  <2>1. Bad \in SUBSET SUBSET A
    OBVIOUS
  <2> HIDE DEF Bad
  <2> QED BY <2>1, MinimalSubset
<1>2. s \in SUBSET A /\ s \in SUBSET B /\ g[s] # h[s]
  BY <1>1
<1>3. /\ g[s] = IF s = {} THEN 0 ELSE f[Pick(s)] + g[s \ {Pick(s)}]
      /\ h[s] = IF s = {} THEN 0 ELSE f[Pick(s)] + h[s \ {Pick(s)}]
  BY <1>2 DEF IsSum
<1>4. s # {} => g[s \ {Pick(s)}] = h[s \ {Pick(s)}]
  <2> HAVE s # {}
  <2>1. Pick(s) \in s
    BY DEF Pick
  <2> QED BY <1>1, <1>2, <2>1
<1> QED BY <1>2, <1>3, <1>4

\* There is such a g: it is put together from those of smaller sets.
LEMMA SumExists ==
  ASSUME NEW f, NEW S, IsFiniteSet(S)
  PROVE  \E g : IsSum(g, f, S)
<1> DEFINE Bad == {A \in SUBSET S : ~ \E g : IsSum(g, f, A)}
<1> SUFFICES ASSUME Bad # {} PROVE FALSE
  OBVIOUS
<1>1. PICK A \in Bad : \A t \in Bad : t \subseteq A => t = A
  <2>1. Bad \in SUBSET SUBSET S
    OBVIOUS
  <2> HIDE DEF Bad
  <2> QED BY <2>1, MinimalSubset
<1> DEFINE G(s) == CHOOSE g : IsSum(g, f, s)
<1>2. ASSUME NEW s \in SUBSET A, s # A PROVE IsSum(G(s), f, s)
  <2>1. \E g : IsSum(g, f, s)
    BY <1>1, <1>2
  <2> QED BY <2>1
<1>3. ASSUME NEW s \in SUBSET A, s # A, s # {}
      PROVE  G(s)[s] = f[Pick(s)] + G(s \ {Pick(s)})[s \ {Pick(s)}]
  <2> DEFINE t == s \ {Pick(s)}
  <2>1. Pick(s) \in s
    BY <1>3 DEF Pick
  <2>2. t \in SUBSET A /\ t # A /\ t \in SUBSET s /\ s \in SUBSET s
    BY <1>3, <2>1
  <2>3. IsSum(G(s), f, s) /\ IsSum(G(t), f, t)
    BY <1>2, <1>3, <2>2
  <2>4. G(s)[s] = f[Pick(s)] + G(s)[t]
    <3> HIDE DEF G
    <3> QED BY <1>3, <2>2, <2>3 DEF IsSum
  <2>5. G(t)[t] = G(s)[t]
    <3>1. IsFiniteSet(t)
      BY <2>2, FS_Subset
    <3> HIDE DEF G, t
    <3> QED BY <2>2, <2>3, <3>1, SumUnique
  <2> QED BY <2>4, <2>5
<1> DEFINE h == [s \in SUBSET A |-> IF s = {} THEN 0
                                    ELSE f[Pick(s)] + G(s \ {Pick(s)})[s \ {Pick(s)}]]
<1> HIDE DEF G
<1>4. ASSUME NEW s \in SUBSET A, s # {}
      PROVE  G(s \ {Pick(s)})[s \ {Pick(s)}] = h[s \ {Pick(s)}]
  <2> DEFINE t == s \ {Pick(s)}
  <2>1. Pick(s) \in s
    BY <1>4 DEF Pick
  <2>2. t \in SUBSET A /\ t # A
    BY <1>4, <2>1
  <2>3. CASE t = {}
    <3>1. IsSum(G(t), f, t)
      BY <1>2, <2>2
    <3>2. G(t)[t] = 0
      <4> HIDE DEF t
      <4> QED BY <3>1, <2>3 DEF IsSum
    <3> QED BY <2>2, <2>3, <3>2
  <2>4. CASE t # {}
    <3>1. G(t)[t] = f[Pick(t)] + G(t \ {Pick(t)})[t \ {Pick(t)}]
      <4> HIDE DEF t
      <4> QED BY <1>3, <2>2, <2>4
    <3>2. h[t] = f[Pick(t)] + G(t \ {Pick(t)})[t \ {Pick(t)}]
      <4> HIDE DEF t
      <4> QED BY <2>2, <2>4
    <3> QED BY <3>1, <3>2
  <2> QED BY <2>3, <2>4
<1>5. h = [s \in SUBSET A |-> IF s = {} THEN 0 ELSE f[Pick(s)] + h[s \ {Pick(s)}]]
  <2>1. ASSUME NEW s \in SUBSET A
        PROVE  h[s] = IF s = {} THEN 0 ELSE f[Pick(s)] + h[s \ {Pick(s)}]
    <3>1. h[s] = IF s = {} THEN 0 ELSE f[Pick(s)] + G(s \ {Pick(s)})[s \ {Pick(s)}]
      OBVIOUS
    <3> HIDE DEF h
    <3> QED BY <1>4, <3>1
  <2> DEFINE e(s) == IF s = {} THEN 0 ELSE f[Pick(s)] + h[s \ {Pick(s)}]
  <2>2. h = [s \in SUBSET A |-> h[s]]
    OBVIOUS
  <2> HIDE DEF h
  <2> QED BY <2>1, <2>2
<1>6. IsSum(h, f, A)
  <2> HIDE DEF h
  <2> QED BY <1>5 DEF IsSum
<1> QED BY <1>1, <1>6

\* A sum is the value of a recursion that exists.
LEMMA SumIsSum ==
  ASSUME NEW f, NEW S, IsFiniteSet(S)
  PROVE  \E g : IsSum(g, f, S) /\ SumFunctionOnSet(f, S) = g[S]
<1> DEFINE g == CHOOSE g : IsSum(g, f, S)
<1>1. IsSum(g, f, S)
  BY SumExists
<1>2. SumFunctionOnSet(f, S) = g[S]
  BY SumIsChosen
<1> QED BY <1>1, <1>2

\* The sum over no elements is 0.
LEMMA SumOfNone == ASSUME NEW f PROVE SumFunctionOnSet(f, {}) = 0
<1>1. IsFiniteSet({})
  BY FS_EmptySet
<1> QED BY <1>1, SumIsSum DEF IsSum

\* A sum is its first term and the sum of the rest.
LEMMA SumStep ==
  ASSUME NEW f, NEW S, IsFiniteSet(S), S # {}
  PROVE  /\ Pick(S) \in S
         /\ SumFunctionOnSet(f, S) = f[Pick(S)] + SumFunctionOnSet(f, S \ {Pick(S)})
<1> DEFINE T == S \ {Pick(S)}
<1>1. Pick(S) \in S
  BY DEF Pick
<1>2. IsFiniteSet(T) /\ T \subseteq S /\ T \in SUBSET T
  BY FS_Subset
<1>3. PICK g : IsSum(g, f, S) /\ SumFunctionOnSet(f, S) = g[S]
  BY SumIsSum
<1>4. PICK h : IsSum(h, f, T) /\ SumFunctionOnSet(f, T) = h[T]
  BY <1>2, SumIsSum
<1>5. h[T] = g[T]
  <2> HIDE DEF T
  <2>1. \A s \in SUBSET T : h[s] = g[s]
    BY <1>2, <1>3, <1>4, SumUnique
  <2> QED BY <1>2, <2>1
<1>6. g[S] = f[Pick(S)] + g[T]
  BY <1>3 DEF IsSum
<1> QED BY <1>1, <1>3, <1>4, <1>5, <1>6

\* A sum stays in any set that is closed under addition.
LEMMA SumInSet ==
  ASSUME NEW f, NEW S, IsFiniteSet(S), NEW T, 0 \in T, \A x, y \in T : x + y \in T,
         \A s \in S : f[s] \in T
  PROVE  SumFunctionOnSet(f, S) \in T
<1> DEFINE Bad == {A \in SUBSET S : SumFunctionOnSet(f, A) \notin T}
<1> SUFFICES ASSUME Bad # {} PROVE FALSE
  OBVIOUS
<1>1. PICK A \in Bad : \A B \in Bad : B \subseteq A => B = A
  <2>1. Bad \in SUBSET SUBSET S
    OBVIOUS
  <2> HIDE DEF Bad
  <2> QED BY <2>1, MinimalSubset
<1>2. IsFiniteSet(A) /\ A # {}
  <2>1. A \in SUBSET S /\ SumFunctionOnSet(f, A) \notin T
    BY <1>1
  <2>2. IsFiniteSet(A)
    BY <2>1, FS_Subset
  <2>3. SumFunctionOnSet(f, {}) \in T
    BY SumOfNone
  <2> QED BY <2>1, <2>2, <2>3
<1>3. /\ Pick(A) \in A
      /\ SumFunctionOnSet(f, A) = f[Pick(A)] + SumFunctionOnSet(f, A \ {Pick(A)})
  BY <1>2, SumStep
<1>4. SumFunctionOnSet(f, A \ {Pick(A)}) \in T
  BY <1>1, <1>3
<1> QED BY <1>1, <1>3, <1>4

\* A sum of integers is one.
LEMMA SumIsInt ==
  ASSUME NEW f, NEW S, IsFiniteSet(S), \A s \in S : f[s] \in Int
  PROVE  SumFunctionOnSet(f, S) \in Int
<1>1. 0 \in Int /\ \A x, y \in Int : x + y \in Int
  OBVIOUS
<1> QED BY <1>1, SumInSet

\* A sum of natural numbers is one.
LEMMA SumIsNat ==
  ASSUME NEW f, NEW S, IsFiniteSet(S), \A s \in S : f[s] \in Nat
  PROVE  SumFunctionOnSet(f, S) \in Nat
<1>1. 0 \in Nat /\ \A x, y \in Nat : x + y \in Nat
  OBVIOUS
<1> QED BY <1>1, SumInSet

\* Any term may be taken out of a sum: the order of the terms does not matter.
LEMMA SumWithout ==
  ASSUME NEW f, NEW S, IsFiniteSet(S), \A s \in S : f[s] \in Int, NEW x \in S
  PROVE  SumFunctionOnSet(f, S) = f[x] + SumFunctionOnSet(f, S \ {x})
<1> DEFINE Bad == {A \in SUBSET S : \E y \in A :
                     SumFunctionOnSet(f, A) # f[y] + SumFunctionOnSet(f, A \ {y})}
<1> SUFFICES ASSUME Bad # {} PROVE FALSE
  OBVIOUS
<1>1. PICK A \in Bad : \A B \in Bad : B \subseteq A => B = A
  <2>1. Bad \in SUBSET SUBSET S
    OBVIOUS
  <2> HIDE DEF Bad
  <2> QED BY <2>1, MinimalSubset
<1>2. PICK y \in A : SumFunctionOnSet(f, A) # f[y] + SumFunctionOnSet(f, A \ {y})
  BY <1>1
<1> DEFINE p == Pick(A)
<1>3. IsFiniteSet(A) /\ A # {} /\ A \in SUBSET S
  BY <1>1, <1>2, FS_Subset
<1>4. p \in A /\ SumFunctionOnSet(f, A) = f[p] + SumFunctionOnSet(f, A \ {p})
  BY <1>3, SumStep
<1> HIDE DEF p
<1>5. p # y
  BY <1>2, <1>4
<1> DEFINE B == A \ {p}
           C == A \ {y}
           D == A \ {p, y}
<1>6. /\ B \in SUBSET S /\ B \subseteq A /\ B # A /\ y \in B /\ B \ {y} = D
      /\ C \in SUBSET S /\ C \subseteq A /\ C # A /\ p \in C /\ C \ {p} = D
      /\ D \in SUBSET S
  BY <1>2, <1>3, <1>4, <1>5
<1>7. SumFunctionOnSet(f, B) = f[y] + SumFunctionOnSet(f, D)
  <2>1. B \notin Bad
    <3> HIDE DEF B, Bad
    <3> QED BY <1>1, <1>6
  <2> HIDE DEF B, C, D
  <2> QED BY <1>6, <2>1
<1>8. SumFunctionOnSet(f, C) = f[p] + SumFunctionOnSet(f, D)
  <2>1. C \notin Bad
    <3> HIDE DEF C, Bad
    <3> QED BY <1>1, <1>6
  <2> HIDE DEF B, C, D
  <2> QED BY <1>6, <2>1
<1>9. SumFunctionOnSet(f, D) \in Int /\ f[p] \in Int /\ f[y] \in Int
  <2>1. IsFiniteSet(D)
    BY <1>6, FS_Subset
  <2> HIDE DEF D
  <2> QED BY <1>2, <1>3, <1>4, <1>6, <2>1, SumIsInt
<1>10. SumFunctionOnSet(f, A) = f[p] + SumFunctionOnSet(f, B)
  BY <1>4
<1>11. SumFunctionOnSet(f, A) # f[y] + SumFunctionOnSet(f, C)
  BY <1>2
<1> HIDE DEF B, C, D
<1> QED BY <1>7, <1>8, <1>9, <1>10, <1>11

\* A term may be put into a sum.
LEMMA SumWith ==
  ASSUME NEW f, NEW S, IsFiniteSet(S), NEW x, x \notin S, \A s \in S \cup {x} : f[s] \in Int
  PROVE  SumFunctionOnSet(f, S \cup {x}) = f[x] + SumFunctionOnSet(f, S)
<1>1. IsFiniteSet(S \cup {x}) /\ (S \cup {x}) \ {x} = S
  BY FS_AddElement
<1>2. SumFunctionOnSet(f, S \cup {x}) = f[x] + SumFunctionOnSet(f, (S \cup {x}) \ {x})
  BY <1>1, SumWithout
<1> QED BY <1>1, <1>2

\* The sum of sums is taken term by term.
LEMMA SumPlus ==
  ASSUME NEW f, NEW g, NEW h, NEW S, IsFiniteSet(S),
         \A s \in S : f[s] \in Int /\ g[s] \in Int /\ h[s] = f[s] + g[s]
  PROVE  SumFunctionOnSet(h, S) = SumFunctionOnSet(f, S) + SumFunctionOnSet(g, S)
<1> DEFINE Bad == {A \in SUBSET S :
                     SumFunctionOnSet(h, A) # SumFunctionOnSet(f, A) + SumFunctionOnSet(g, A)}
<1> SUFFICES ASSUME Bad # {} PROVE FALSE
  OBVIOUS
<1>1. PICK A \in Bad : \A B \in Bad : B \subseteq A => B = A
  <2>1. Bad \in SUBSET SUBSET S
    OBVIOUS
  <2> HIDE DEF Bad
  <2> QED BY <2>1, MinimalSubset
<1>2. IsFiniteSet(A) /\ A # {}
  <2>1. /\ A \in SUBSET S
        /\ SumFunctionOnSet(h, A) # SumFunctionOnSet(f, A) + SumFunctionOnSet(g, A)
    BY <1>1
  <2>2. IsFiniteSet(A)
    BY <2>1, FS_Subset
  <2>3. SumFunctionOnSet(f, {}) = 0 /\ SumFunctionOnSet(g, {}) = 0 /\ SumFunctionOnSet(h, {}) = 0
    BY SumOfNone
  <2>4. SumFunctionOnSet(h, {}) = SumFunctionOnSet(f, {}) + SumFunctionOnSet(g, {})
    BY <2>3
  <2>5. A # {}
    BY <2>1, <2>4
  <2> QED BY <2>2, <2>5
<1> DEFINE B == A \ {Pick(A)}
<1>3. Pick(A) \in A
  BY <1>2, SumStep
<1>4. /\ SumFunctionOnSet(f, A) = f[Pick(A)] + SumFunctionOnSet(f, B)
      /\ SumFunctionOnSet(g, A) = g[Pick(A)] + SumFunctionOnSet(g, B)
      /\ SumFunctionOnSet(h, A) = h[Pick(A)] + SumFunctionOnSet(h, B)
  BY <1>2, SumStep
<1>5. SumFunctionOnSet(h, B) = SumFunctionOnSet(f, B) + SumFunctionOnSet(g, B)
  BY <1>1, <1>3
<1>6. SumFunctionOnSet(f, B) \in Int /\ SumFunctionOnSet(g, B) \in Int
  <2>1. IsFiniteSet(B) /\ \A s \in B : f[s] \in Int /\ g[s] \in Int
    BY <1>1, <1>2, FS_RemoveElement
  <2> HIDE DEF B
  <2> QED BY <2>1, SumIsInt
<1>7. SumFunctionOnSet(h, A) # SumFunctionOnSet(f, A) + SumFunctionOnSet(g, A)
  BY <1>1
<1>8. f[Pick(A)] \in Int /\ g[Pick(A)] \in Int /\ h[Pick(A)] = f[Pick(A)] + g[Pick(A)]
  BY <1>1, <1>3
<1> HIDE DEF B
<1> QED BY <1>4, <1>5, <1>6, <1>7, <1>8

\* A sum of terms that are no larger is no larger.
LEMMA SumAtMost ==
  ASSUME NEW f, NEW g, NEW S, IsFiniteSet(S),
         \A s \in S : f[s] \in Int /\ g[s] \in Int /\ f[s] <= g[s]
  PROVE  SumFunctionOnSet(f, S) <= SumFunctionOnSet(g, S)
<1> DEFINE d == [s \in S |-> g[s] - f[s]]
<1>1. \A s \in S : f[s] \in Int /\ d[s] \in Int /\ g[s] = f[s] + d[s] /\ d[s] \in Nat
  OBVIOUS
<1> HIDE DEF d
<1>2. SumFunctionOnSet(g, S) = SumFunctionOnSet(f, S) + SumFunctionOnSet(d, S)
  BY <1>1, SumPlus
<1>3. SumFunctionOnSet(d, S) \in Nat
  BY <1>1, SumIsNat
<1>4. SumFunctionOnSet(f, S) \in Int
  BY <1>1, SumIsInt
<1> QED BY <1>2, <1>3, <1>4

\* Only the terms of a sum matter.
LEMMA SumSame ==
  ASSUME NEW f, NEW g, NEW S, IsFiniteSet(S), \A s \in S : f[s] \in Int /\ f[s] = g[s]
  PROVE  SumFunctionOnSet(f, S) = SumFunctionOnSet(g, S)
<1>1. \A s \in S : f[s] \in Int /\ g[s] \in Int /\ f[s] <= g[s] /\ g[s] <= f[s]
  OBVIOUS
<1>2. SumFunctionOnSet(f, S) <= SumFunctionOnSet(g, S)
  BY <1>1, SumAtMost
<1>3. SumFunctionOnSet(g, S) <= SumFunctionOnSet(f, S)
  BY <1>1, SumAtMost
<1>4. SumFunctionOnSet(f, S) \in Int /\ SumFunctionOnSet(g, S) \in Int
  BY <1>1, SumIsInt
<1> QED BY <1>2, <1>3, <1>4

\* No term of a sum of natural numbers is larger than the sum.
LEMMA SumBoundsPart ==
  ASSUME NEW f, NEW S, IsFiniteSet(S), \A s \in S : f[s] \in Nat, NEW x \in S
  PROVE  f[x] <= SumFunctionOnSet(f, S)
<1>1. SumFunctionOnSet(f, S) = f[x] + SumFunctionOnSet(f, S \ {x})
  BY SumWithout
<1>2. SumFunctionOnSet(f, S \ {x}) \in Nat
  BY FS_RemoveElement, SumIsNat
<1> QED BY <1>1, <1>2

\* A common factor may be taken out of a sum.
LEMMA SumTimes ==
  ASSUME NEW f, NEW h, NEW S, IsFiniteSet(S), NEW c \in Int,
         \A s \in S : f[s] \in Int /\ h[s] = c * f[s]
  PROVE  SumFunctionOnSet(h, S) = c * SumFunctionOnSet(f, S)
<1> DEFINE Bad == {A \in SUBSET S : SumFunctionOnSet(h, A) # c * SumFunctionOnSet(f, A)}
<1> SUFFICES ASSUME Bad # {} PROVE FALSE
  OBVIOUS
<1>1. PICK A \in Bad : \A B \in Bad : B \subseteq A => B = A
  <2>1. Bad \in SUBSET SUBSET S
    OBVIOUS
  <2> HIDE DEF Bad
  <2> QED BY <2>1, MinimalSubset
<1>2. IsFiniteSet(A) /\ A # {}
  <2>1. A \in SUBSET S /\ SumFunctionOnSet(h, A) # c * SumFunctionOnSet(f, A)
    BY <1>1
  <2>2. IsFiniteSet(A)
    BY <2>1, FS_Subset
  <2>3. SumFunctionOnSet(f, {}) = 0 /\ SumFunctionOnSet(h, {}) = 0
    BY SumOfNone
  <2>4. SumFunctionOnSet(h, {}) = c * SumFunctionOnSet(f, {})
    BY <2>3
  <2>5. A # {}
    BY <2>1, <2>4
  <2> QED BY <2>2, <2>5
<1> DEFINE B == A \ {Pick(A)}
<1>3. Pick(A) \in A
  BY <1>2, SumStep
<1>4. /\ SumFunctionOnSet(f, A) = f[Pick(A)] + SumFunctionOnSet(f, B)
      /\ SumFunctionOnSet(h, A) = h[Pick(A)] + SumFunctionOnSet(h, B)
  BY <1>2, SumStep
<1>5. SumFunctionOnSet(h, B) = c * SumFunctionOnSet(f, B)
  BY <1>1, <1>3
<1>6. SumFunctionOnSet(f, B) \in Int
  <2>1. IsFiniteSet(B) /\ \A s \in B : f[s] \in Int
    BY <1>1, <1>2, FS_RemoveElement
  <2> HIDE DEF B
  <2> QED BY <2>1, SumIsInt
<1>7. SumFunctionOnSet(h, A) # c * SumFunctionOnSet(f, A)
  BY <1>1
<1>8. f[Pick(A)] \in Int /\ h[Pick(A)] = c * f[Pick(A)]
  BY <1>1, <1>3
<1>9. \A x, y \in Int : c * (x + y) = c * x + c * y
  OBVIOUS
<1> HIDE DEF B
<1> QED BY <1>4, <1>5, <1>6, <1>7, <1>8, <1>9

\* A sum of ones counts its terms.
LEMMA SumOfOnes ==
  ASSUME NEW f, NEW S, IsFiniteSet(S), \A s \in S : f[s] = 1
  PROVE  SumFunctionOnSet(f, S) = Cardinality(S)
<1> DEFINE Bad == {A \in SUBSET S : SumFunctionOnSet(f, A) # Cardinality(A)}
<1> SUFFICES ASSUME Bad # {} PROVE FALSE
  OBVIOUS
<1>1. PICK A \in Bad : \A B \in Bad : B \subseteq A => B = A
  <2>1. Bad \in SUBSET SUBSET S
    OBVIOUS
  <2> HIDE DEF Bad
  <2> QED BY <2>1, MinimalSubset
<1>2. IsFiniteSet(A) /\ A # {}
  <2>1. A \in SUBSET S /\ SumFunctionOnSet(f, A) # Cardinality(A)
    BY <1>1
  <2>2. IsFiniteSet(A)
    BY <2>1, FS_Subset
  <2>3. SumFunctionOnSet(f, {}) = Cardinality({})
    BY SumOfNone, FS_EmptySet
  <2> QED BY <2>1, <2>2, <2>3
<1> DEFINE B == A \ {Pick(A)}
<1>3. Pick(A) \in A /\ SumFunctionOnSet(f, A) = f[Pick(A)] + SumFunctionOnSet(f, B)
  BY <1>2, SumStep
<1>4. SumFunctionOnSet(f, B) = Cardinality(B)
  BY <1>1, <1>3
<1>5. f[Pick(A)] = 1 /\ SumFunctionOnSet(f, A) # Cardinality(A)
  BY <1>1, <1>3
<1>6. Cardinality(B) = Cardinality(A) - 1 /\ Cardinality(A) \in Nat
  BY <1>2, <1>3, FS_RemoveElement, FS_CardinalityType
<1> HIDE DEF B
<1> QED BY <1>3, <1>4, <1>5, <1>6

\* A set of numbers has a smallest.
LEMMA LeastNumber ==
  ASSUME NEW S \in SUBSET Nat, S # {}
  PROVE  \E s \in S : \A t \in S : s <= t
<1>1. PICK s \in S : \A t \in S : ~ (<<t, s>> \in OpToRel(<, Nat))
  BY NatLessThanWellFounded, WFMin
<1>2. ASSUME NEW m \in Nat, NEW n \in Nat, m < n
      PROVE  <<m, n>> \in OpToRel(<, Nat)
  BY <1>2, Zenon DEF OpToRel
<1>3. ASSUME NEW t \in S
      PROVE  s <= t
  <2>1. s \in Nat /\ t \in Nat
    OBVIOUS
  <2>2. ~ (t < s)
    BY <1>1, <1>2, <2>1
  <2> QED BY <2>1, <2>2
<1> QED BY <1>3

LEMMA SmallestNumber ==
  ASSUME NEW S \in SUBSET Nat, S # {}
  PROVE  (CHOOSE s \in S : \A t \in S : s <= t) \in S
BY LeastNumber

\* A finite set of numbers has a largest.
LEMMA LargestNumber ==
  ASSUME NEW S, S \subseteq Nat, IsFiniteSet(S), S # {}
  PROVE  \E m \in S : \A n \in S : n <= m
<1> DEFINE Bad == {A \in SUBSET S : A # {} /\ ~ \E m \in A : \A n \in A : n <= m}
<1> SUFFICES ASSUME Bad # {} PROVE FALSE
  OBVIOUS
<1>1. PICK A \in Bad : \A B \in Bad : B \subseteq A => B = A
  <2>1. Bad \in SUBSET SUBSET S /\ Bad # {} /\ IsFiniteSet(S)
    OBVIOUS
  <2> HIDE DEF Bad
  <2> QED BY ONLY <2>1, MinimalSubset
<1>2. PICK x \in A : TRUE
  OBVIOUS
<1> DEFINE B == A \ {x}
<1>3. CASE B = {}
  <2>1. A = {x} /\ x \in Nat
    BY <1>2, <1>3
  <2> QED BY <2>1
<1>4. CASE B # {}
  <2>1. B \in SUBSET S /\ B \notin Bad
    BY <1>1, <1>2
  <2>2. PICK m \in B : \A n \in B : n <= m
    BY <1>4, <2>1
  <2>3. m \in Nat /\ x \in Nat /\ m \in A /\ \A n \in A : n = x \/ n <= m
    BY <2>2
  <2>4. CASE x <= m
    BY <2>3, <2>4
  <2>5. CASE m <= x
    <3>1. \A n \in A : n <= x
      <4> SUFFICES ASSUME NEW n \in A PROVE n <= x
        OBVIOUS
      <4>1. n \in Nat
        OBVIOUS
      <4> QED BY <2>3, <2>5, <4>1
    <3> QED BY <1>2, <3>1
  <2> QED BY <2>3, <2>4, <2>5
<1> QED BY <1>3, <1>4

\* What is served in order, each from what the ones before have left, is within the whole.
LEMMA ServedInOrder ==
  ASSUME NEW S, S \subseteq Nat, IsFiniteSet(S), NEW f, \A s \in S : f[s] \in Nat,
         NEW limit \in Nat,
         \A s \in S : f[s] = 0 \/ f[s] <= limit - SumFunctionOnSet(f, {t \in S : t < s})
  PROVE  SumFunctionOnSet(f, S) \in Nat /\ SumFunctionOnSet(f, S) <= limit
<1>0. SumFunctionOnSet(f, S) \in Nat
  BY SumIsNat
<1> DEFINE Bad == {A \in SUBSET S : (\A a \in A, t \in S : t < a => t \in A)
                                     /\ ~(SumFunctionOnSet(f, A) <= limit)}
<1> SUFFICES ASSUME Bad # {} PROVE FALSE
  BY <1>0
<1>1. PICK A \in Bad : \A B \in Bad : B \subseteq A => B = A
  <2>1. Bad \in SUBSET SUBSET S /\ Bad # {} /\ IsFiniteSet(S)
    OBVIOUS
  <2> HIDE DEF Bad
  <2> QED BY ONLY <2>1, MinimalSubset
<1>2. /\ A \in SUBSET S /\ IsFiniteSet(A) /\ A \in SUBSET Nat
      /\ \A a \in A, t \in S : t < a => t \in A
      /\ ~(SumFunctionOnSet(f, A) <= limit)
  BY <1>1, FS_Subset
<1>3. A # {}
  BY <1>2, SumOfNone
<1>4. PICK m \in A : \A n \in A : n <= m
  BY <1>2, <1>3, LargestNumber
<1> DEFINE B == A \ {m}
<1>5. B = {t \in S : t < m}
  <2>1. ASSUME NEW t \in S
        PROVE  t \in B <=> t < m
    <3>1. t \in Nat /\ m \in Nat
      BY <1>2
    <3>2. t \in A => t <= m
      BY <1>4
    <3>3. t < m => t \in A
      BY <1>2
    <3> QED BY <3>1, <3>2, <3>3
  <2> QED BY <1>2, <2>1
<1>6. SumFunctionOnSet(f, B) <= limit /\ SumFunctionOnSet(f, B) \in Nat
  <2>1. B \in SUBSET S /\ IsFiniteSet(B)
    BY <1>2, FS_Subset
  <2>2. SumFunctionOnSet(f, B) \in Nat
    BY <2>1, SumIsNat
  <2>3. \A a \in B, t \in S : t < a => t \in B
    <3> SUFFICES ASSUME NEW a \in B, NEW t \in S, t < a PROVE t < m
      BY <1>5
    <3>1. a \in Nat /\ t \in Nat /\ m \in Nat /\ a < m
      BY <1>5
    <3> QED BY <3>1
  <2>4. B \notin Bad
    BY <1>1, <1>4
  <2> QED BY <2>1, <2>2, <2>3, <2>4
<1>7. SumFunctionOnSet(f, A) = f[m] + SumFunctionOnSet(f, B)
  <2>1. \A s \in A : f[s] \in Int
    <3>1. \A s \in S : f[s] \in Int
      OBVIOUS
    <3> QED BY <1>2, <3>1
  <2>2. m \in A /\ IsFiniteSet(A)
    BY <1>2
  <2> QED BY ONLY <2>1, <2>2, SumWithout
<1>8. f[m] \in Nat /\ (f[m] = 0 \/ f[m] <= limit - SumFunctionOnSet(f, B))
  BY <1>2, <1>5
<1> HIDE DEF B
<1> QED BY <1>2, <1>6, <1>7, <1>8
-----------------------------------------------------------------------------
(* Recursion over the numbers.                                              *)

\* A recursion starts from z and steps on from an earlier value.
Recursion(z, step, prev, T) ==
  /\ z \in T
  /\ step \in [Nat -> [T -> T]] /\ prev \in [Nat -> Nat]
  /\ \A n \in Nat \ {0} : prev[n] < n

\* Its values up to n.
Computes(g, n, z, step, prev, T) ==
  /\ g \in [0 .. n -> T]
  /\ \A m \in 0 .. n : g[m] = IF m = 0 THEN z ELSE step[m][g[prev[m]]]

LEMMA ComputesUnique ==
  ASSUME NEW T, NEW z, NEW step, NEW prev, Recursion(z, step, prev, T)
  PROVE  \A k \in Nat : \A n \in Nat : \A g : \A h :
           /\ k <= n
           /\ Computes(g, k, z, step, prev, T) /\ Computes(h, n, z, step, prev, T)
           => \A m \in 0 .. k : g[m] = h[m]
<1> SUFFICES ASSUME NEW k \in Nat, NEW n \in Nat, k <= n, NEW g, NEW h,
                    Computes(g, k, z, step, prev, T), Computes(h, n, z, step, prev, T)
             PROVE  \A m \in 0 .. k : g[m] = h[m]
  OBVIOUS
<1> DEFINE Bad == {m \in 0 .. k : g[m] # h[m]}
<1>1. SUFFICES ASSUME Bad # {} PROVE FALSE
  OBVIOUS
<1>2. PICK m \in Bad : \A i \in Bad : m <= i
  <2>1. Bad \in SUBSET Nat
    OBVIOUS
  <2> HIDE DEF Bad
  <2> QED BY <1>1, <2>1, LeastNumber
<1>3. m \in 0 .. k /\ m \in 0 .. n /\ g[m] # h[m]
  OBVIOUS
<1>4. CASE m = 0
  BY <1>3, <1>4 DEF Computes
<1>5. CASE m # 0
  <2>1. prev[m] \in 0 .. k /\ prev[m] < m
    BY <1>3, <1>5 DEF Recursion
  <2>2. prev[m] \notin Bad
    BY <1>2, <2>1
  <2>3. g[prev[m]] = h[prev[m]]
    BY <2>1, <2>2
  <2> QED BY <1>3, <1>5, <2>3 DEF Computes
<1> QED BY <1>4, <1>5

LEMMA ComputesExists ==
  ASSUME NEW T, NEW z, NEW step, NEW prev, Recursion(z, step, prev, T)
  PROVE  \A n \in Nat : \E g : Computes(g, n, z, step, prev, T)
<1> DEFINE Bad == {n \in Nat : ~ \E g : Computes(g, n, z, step, prev, T)}
<1>1. SUFFICES ASSUME Bad # {} PROVE FALSE
  OBVIOUS
<1>2. PICK n \in Bad : \A i \in Bad : n <= i
  <2>1. Bad \in SUBSET Nat
    OBVIOUS
  <2> HIDE DEF Bad
  <2> QED BY <1>1, <2>1, LeastNumber
<1>3. n \in Nat /\ ~ \E g : Computes(g, n, z, step, prev, T)
  OBVIOUS
<1>4. n # 0
  <2> SUFFICES ASSUME n = 0 PROVE FALSE
    OBVIOUS
  <2> DEFINE g == [m \in 0 .. 0 |-> z]
  <2>1. Computes(g, 0, z, step, prev, T)
    BY DEF Computes, Recursion
  <2> QED BY <1>3, <2>1
<1>5. PICK h : Computes(h, n - 1, z, step, prev, T)
  <2>1. n - 1 \in Nat /\ ~ (n <= n - 1)
    BY <1>3, <1>4
  <2>2. n - 1 \notin Bad
    BY <1>2, <2>1
  <2> QED BY <2>1, <2>2
<1>6. prev[n] \in 0 .. n - 1
  BY <1>3, <1>4 DEF Recursion
<1> DEFINE g == [m \in 0 .. n |-> IF m = n THEN step[n][h[prev[n]]] ELSE h[m]]
<1>7. Computes(g, n, z, step, prev, T)
  <2>1. h[prev[n]] \in T /\ step[n] \in [T -> T]
    BY <1>3, <1>5, <1>6 DEF Computes, Recursion
  <2>2. g \in [0 .. n -> T]
    BY <1>3, <1>5, <2>1 DEF Computes
  <2>3. ASSUME NEW m \in 0 .. n
        PROVE  g[m] = IF m = 0 THEN z ELSE step[m][g[prev[m]]]
    <3>1. CASE m = n
      BY <1>3, <1>4, <1>6, <3>1 DEF Recursion
    <3>2. CASE m # n
      <4>1. m \in 0 .. n - 1 /\ g[m] = h[m]
        BY <1>3, <3>2
      <4>2. m # 0 => prev[m] \in 0 .. n - 1 /\ g[prev[m]] = h[prev[m]]
        BY <1>3, <4>1 DEF Recursion
      <4> HIDE DEF g
      <4> QED BY <1>5, <4>1, <4>2 DEF Computes
    <3> QED BY <3>1, <3>2
  <2> HIDE DEF g
  <2> QED BY <2>2, <2>3 DEF Computes
<1> QED BY <1>3, <1>7

\* There is a function that a recursion defines.
LEMMA RecursionDefines ==
  ASSUME NEW T, NEW z, NEW step, NEW prev, Recursion(z, step, prev, T)
  PROVE  \E f \in [Nat -> T] : \A n \in Nat : f[n] = IF n = 0 THEN z ELSE step[n][f[prev[n]]]
<1> DEFINE G(n) == CHOOSE g : Computes(g, n, z, step, prev, T)
           f == [n \in Nat |-> G(n)[n]]
<1>1. \A n \in Nat : Computes(G(n), n, z, step, prev, T)
  BY ComputesExists
<1> HIDE DEF G
<1>0. \A k \in Nat : \A n \in Nat : \A g : \A h :
        /\ k <= n
        /\ Computes(g, k, z, step, prev, T) /\ Computes(h, n, z, step, prev, T)
        => \A m \in 0 .. k : g[m] = h[m]
  BY ComputesUnique
<1>2. f \in [Nat -> T]
  <2>1. ASSUME NEW n \in Nat PROVE G(n)[n] \in T
    <3>1. n \in 0 .. n
      OBVIOUS
    <3> QED BY <1>1, <3>1 DEF Computes
  <2> QED BY <2>1
<1>3. ASSUME NEW n \in Nat
      PROVE  f[n] = IF n = 0 THEN z ELSE step[n][f[prev[n]]]
  <2>1. n \in 0 .. n
    OBVIOUS
  <2>2. CASE n = 0
    BY <1>1, <2>1, <2>2 DEF Computes
  <2>3. CASE n # 0
    <3>1. prev[n] \in Nat /\ prev[n] <= n
      BY <2>3 DEF Recursion
    <3>2. G(prev[n])[prev[n]] = G(n)[prev[n]]
      <4> DEFINE k == prev[n]
                 g == G(k)
                 h == G(n)
      <4>1. Computes(g, k, z, step, prev, T) /\ Computes(h, n, z, step, prev, T)
        BY <1>1, <3>1
      <4>2. k \in Nat /\ k <= n
        BY <3>1
      <4> HIDE DEF g, h, k
      <4>3. \A m \in 0 .. k : g[m] = h[m]
        BY <4>1, <4>2, <1>0
      <4>4. k \in 0 .. k
        BY <4>2
      <4>5. g[k] = h[k]
        BY <4>3, <4>4
      <4> QED BY <4>5 DEF g, h, k
    <3>3. f[prev[n]] = G(n)[prev[n]]
      BY <3>1, <3>2
    <3>4. f[n] = G(n)[n]
      OBVIOUS
    <3> HIDE DEF f
    <3> QED BY <1>1, <2>1, <2>3, <3>3, <3>4 DEF Computes
  <2> QED BY <2>2, <2>3
<1> HIDE DEF f
<1> QED BY <1>2, <1>3
=============================================================================
