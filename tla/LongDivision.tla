---------------------------- MODULE LongDivision ----------------------------
(***************************************************************************)
(* binary_long_divide and binary_long_modulus of reil/immediate.cpp, which  *)
(* divide what is wider than a word: the divisor is shifted up to the       *)
(* dividend, and subtracted where it goes while it is shifted down again.   *)
(* The Immediates they shift, compare and subtract have a byte more than    *)
(* the operands, so nothing is lost and they are integers here.            *)
(***************************************************************************)
EXTENDS Numerals

CONSTANT Operands      \* bound: the pairs <<lhs, rhs>> that are divided
ASSUME OperandsAssumption ==
  Operands \subseteq {p \in Nat \X Nat : 0 < p[2] /\ p[2] < p[1]}

VARIABLES pair, dividend, divisor, bit, quotient, done
dvars == <<pair, dividend, divisor, bit, quotient, done>>

lhs == pair[1]
rhs == pair[2]

\* The normalisation compares the numbers of leading zeros.
Highest(n) == CHOOSE k \in 0 .. n : TwoTo[k] <= n /\ n < TwoTo[k + 1]

\* A mutant: the divisor is shifted back, but the bit is not counted.
NormaliseUncounted(p) ==
  LET shift == Highest(p[1]) - Highest(p[2])
      aligned == p[2] * TwoTo[shift]
  IN  bit = shift /\ divisor = IF aligned >= p[1] THEN aligned \div 2 ELSE aligned

\* operator/ and operator% get here only if rhs is not zero and less than lhs.
Normalise(p) ==
  LET shift == Highest(p[1]) - Highest(p[2])
      aligned == p[2] * TwoTo[shift]
  IN  IF aligned >= p[1]
      THEN divisor = aligned \div 2 /\ bit = shift - 1
      ELSE divisor = aligned /\ bit = shift

\* A mutant: what is equal is not subtracted.
SubtractingStrictly == dividend > divisor
Subtracting == dividend >= divisor

\* A mutant: the next bit is only gone on to after a subtraction.
IterateOnSubtraction ==
  /\ ~done /\ Subtracting
  /\ dividend' = dividend - divisor
  /\ quotient' = quotient + TwoTo[bit]
  /\ IF bit # 0 THEN bit' = bit - 1 /\ divisor' = divisor \div 2 /\ done' = FALSE
                ELSE done' = TRUE /\ UNCHANGED <<bit, divisor>>
  /\ UNCHANGED pair

\* One iteration of the loop, and what follows the loop when no bit is left.
Iterate ==
  /\ ~done
  /\ dividend' = IF Subtracting THEN dividend - divisor ELSE dividend
  /\ quotient' = IF Subtracting THEN quotient + TwoTo[bit] ELSE quotient
  /\ IF bit # 0 THEN bit' = bit - 1 /\ divisor' = divisor \div 2 /\ done' = FALSE
                ELSE done' = TRUE /\ UNCHANGED <<bit, divisor>>
  /\ UNCHANGED pair

InitDivision ==
  /\ pair \in Operands
  /\ Normalise(pair)
  /\ dividend = lhs /\ quotient = 0 /\ done = FALSE

SpecDivision == InitDivision /\ [][Iterate]_dvars

-----------------------------------------------------------------------------
(* Correctness.                                                             *)

\* What is left of the dividend is what has not been divided yet, the divisor
\* is rhs shifted by bit, and it is never more than twice too small; the bits of
\* the quotient still to come are clear, so that or-ing them in adds them.
LoopInvariant ==
  /\ bit \in Nat /\ {dividend, divisor, quotient} \subseteq Nat
  /\ lhs = quotient * rhs + dividend
  /\ divisor = rhs * TwoTo[bit]
  /\ ~done => dividend <= 2 * divisor /\ quotient % TwoTo[bit + 1] = 0

\* The remainder is at most rhs.  It is rhs, and the quotient is one too small,
\* exactly if lhs is rhs shifted by one bit or more: the divisor is then shifted down
\* although it equals the dividend.
AlmostDivided ==
  done => /\ lhs = quotient * rhs + dividend
          /\ dividend <= rhs
          /\ dividend = rhs <=> lhs = rhs * TwoTo[Highest(lhs) - Highest(rhs)]

\* immediate.cpp:437: "now we compute the quotient in max(bit) subtractions and
\* shifts".
QuotientComputed == done => quotient = lhs \div rhs
=============================================================================
