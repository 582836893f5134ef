------------------------------- MODULE MulDiv -------------------------------
(***************************************************************************)
(* multiplyDivide of util/long.ts, the loop by which every amount is       *)
(* converted by an exchange rate, split over streams or allowed a margin:  *)
(* a * b / c with a 128-bit product and 64-bit registers.  One step is one *)
(* turn of the loop; the arguments are any Longs, the divisor is not 0.    *)
(***************************************************************************)
EXTENDS LongArith

VARIABLES
  args,        \* the arguments of the call
  multiplier,  \* what is left of a
  acc,         \* quo and rem: the part of the product added up so far
  power,       \* qn and rn: b * 2^i as quotient and remainder
  returned     \* what is returned, or Nothing

locals    == <<multiplier, acc, power>>
registers == <<args, locals, returned>>

Nothing == [quo |-> -1, rem |-> 0]

Call ==
  /\ args \in [a : Long, b : Long, c : Long \ {0}]
  /\ multiplier = args.a
  /\ acc = [quo |-> 0, rem |-> 0]
  /\ power = [quo |-> args.b \div args.c, rem |-> args.b % args.c]
  /\ returned = Nothing

\* Mutant: a remainder equal to the divisor stays one.
NormalizedLate(quo, rem) ==
  IF rem > args.c THEN [quo |-> add(quo, 1), rem |-> subtract(rem, args.c)]
  ELSE [quo |-> quo, rem |-> rem]

\* A remainder that has reached the divisor is one more in the quotient.
Normalized(quo, rem) ==
  IF rem >= args.c THEN [quo |-> add(quo, 1), rem |-> subtract(rem, args.c)]
  ELSE [quo |-> quo, rem |-> rem]

NextAcc ==
  IF multiplier % 2 = 0 THEN acc
  ELSE Normalized(add(acc.quo, power.quo), add(acc.rem, power.rem))

Return(quo, rem) ==
  /\ returned' = [quo |-> quo, rem |-> rem]
  /\ UNCHANGED locals

\* A sum smaller than before is taken for an overflow.
Wrapped == NextAcc.quo < acc.quo

Saturate ==
  /\ multiplier # 0 /\ Wrapped
  /\ Return(MaxLong, 0)

Turn ==
  /\ multiplier # 0 /\ ~Wrapped
  /\ acc' = NextAcc
  /\ multiplier' = multiplier \div 2
  /\ power' = Normalized(multiply(power.quo, 2), multiply(power.rem, 2))
  /\ UNCHANGED returned

Finish == multiplier = 0 /\ Return(acc.quo, acc.rem)

Loop == returned = Nothing /\ (Saturate \/ Turn \/ Finish) /\ UNCHANGED args

multiplyDivide == Call /\ [][Loop]_registers
-----------------------------------------------------------------------------
(* The functions built on it.                                               *)

multiplyDivideCeil(r, c) ==
  IF r.quo = MaxLong THEN r.quo ELSE add(r.quo, IF r.rem = 0 THEN 0 ELSE 1)

\* Mutant: the same comparison for odd and even divisors.
RoundAlike(r, c) == r.rem # 0 /\ r.rem >= c \div 2

RoundUp(r, c) ==
  r.rem # 0 /\ IF c % 2 = 1 THEN r.rem > c \div 2 ELSE r.rem >= c \div 2

multiplyDivideRound(r, c) ==
  IF r.quo # MaxLong /\ RoundUp(r, c) THEN add(r.quo, 1) ELSE r.quo
-----------------------------------------------------------------------------
(* Properties.                                                              *)

Register == [quo : Long, rem : Long]

\* Every variable holds a value of the kind the code gives it.
RegistersOK ==
  /\ args \in [a : Long, b : Long, c : Long \ {0}]
  /\ multiplier \in Long /\ acc \in Register /\ power \in Register
  /\ returned \in Register \cup {Nothing}

Product == args.a * args.b

Fits == Product \div args.c <= MaxLong

\* The registers hold what they are for only if twice a remainder fits in them.
SmallDivisor == 2 * args.c <= MaxLong + 1

Value(r) == r.quo * args.c + r.rem

Exact(r) == r.quo = Product \div args.c /\ r.rem = Product % args.c

\* Why the loop is right: what is added up and what is still to be multiplied make
\* up the product, in every turn.
LoopInvariant ==
  SmallDivisor /\ Fits /\ returned = Nothing =>
    /\ acc.rem < args.c /\ power.rem < args.c
    /\ Value(acc) + multiplier * Value(power) = Product

\* multiplyDivide returns the quotient and the remainder of the product, where they
\* fit, for every divisor up to half of a Long.
SmallIsExact == SmallDivisor /\ Fits /\ returned # Nothing => Exact(returned)

\* multiplyDivideCeil and multiplyDivideRound round up, and half up, and never wrap.
CeilAndRound ==
  SmallDivisor /\ Fits /\ returned # Nothing =>
    /\ multiplyDivideCeil(returned, args.c)
         = minLong((Product + args.c - 1) \div args.c, MaxLong)
    /\ multiplyDivideRound(returned, args.c)
         = minLong((2 * Product + args.c) \div (2 * args.c), MaxLong)
=============================================================================
