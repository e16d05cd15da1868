------------------------------ MODULE Arithmetic ------------------------------
(***************************************************************************)
(* The operators of Immediate against the integers.  A behaviour is one     *)
(* call; the division of wide operands takes a step for each iteration of   *)
(* its loop, the other operators are one step.                              *)
(***************************************************************************)
EXTENDS Immediate, LongDivision

CONSTANT Inputs        \* bound: pairs of operands of one width
ASSUME InputsAssumption ==
  \A p \in Inputs :
    /\ width(p[1]) \in Nat \ {0} /\ p \in Bytes(width(p[1])) \X Bytes(width(p[1]))
    /\ size(p[1]) < Base * Base          \* size() is a uint16_t

VARIABLES op, a, b, result
vars == <<op, a, b, result, dvars>>

Pending == <<>>
Operations == {"Add", "Sub", "Mul", "Div", "Mod", "And", "Or", "Xor", "Lshl", "Lshr",
               "Ashr", "Sex", "Less", "LessOrEqual"}

\* operator/ and operator% call binary_long_divide and binary_long_modulus.
Long(o, p) ==
  /\ o \in {"Div", "Mod"}
  /\ Bool(p[2]) /\ width(p[1]) \notin DivideBytes /\ Less(p[2], p[1])

Init ==
  /\ op \in Operations
  /\ \E p \in Inputs :
       /\ a = p[1] /\ b = p[2] /\ pair = <<Value(p[1]), Value(p[2])>>
       /\ IF Long(op, p)
          THEN Normalise(pair) /\ dividend = lhs /\ done = FALSE
          ELSE divisor = 0 /\ bit = 0 /\ dividend = 0 /\ done = TRUE
  /\ quotient = 0
  /\ result = Pending

Return(o, value) ==
  /\ op = o /\ result = Pending /\ done
  /\ result' = value
  /\ UNCHANGED <<op, a, b, dvars>>

n == size(a)
Truth(condition) == Imm(ByteBits, IF condition THEN 1 ELSE 0)

Add == SumReturns(width(a)) /\ Return("Add", Plus(a, b))
Sub == SumReturns(width(a)) /\ Return("Sub", Minus(a, b))
Mul == ProductReturns(width(a)) /\ Return("Mul", Multiply(a, b))
Conjunction == Return("And", And(a, b))
Disjunction == Return("Or", Or(a, b))
Exclusion == Return("Xor", Xor(a, b))
Lshl == Return("Lshl", ShiftLeft(a, Count(b)))
Lshr == Return("Lshr", ShiftRight(a, Count(b)))
Ashr == Return("Ashr", ShiftRightArithmetic(a, b))
Sex == Return("Sex", SignExtend(a, 2 * n))
CompareLess == Return("Less", Truth(Less(a, b)))
CompareLessOrEqual == Return("LessOrEqual", Truth(LessOrEqual(a, b)))

Div ==
  Return("Div", IF Long(op, <<a, b>>)             THEN Imm(n, quotient)
                ELSE IF ~Bool(b)                  THEN Imm(n, 0)
                ELSE IF a = b                     THEN Imm(n, 1)
                ELSE IF width(a) \in DivideBytes  THEN Imm(n, Word(a) \div Word(b))
                ELSE Imm(n, 0))
\* The remainder of a long division keeps the byte the dividend has been given.
Mod ==
  Return("Mod", IF Long(op, <<a, b>>)             THEN Imm(n + ByteBits, dividend)
                ELSE IF ~Bool(b) \/ a = b         THEN Imm(n, 0)
                ELSE IF width(a) \in DivideBytes  THEN Imm(n, Word(a) % Word(b))
                ELSE a)

\* The dividend has a byte more than the operands.
Divide ==
  /\ Subtracting => SumReturns(width(a) + 1)
  /\ Iterate /\ UNCHANGED <<op, a, b, result>>

Next ==
  \/ Add \/ Sub \/ Mul \/ Conjunction \/ Disjunction \/ Exclusion
  \/ Lshl \/ Lshr \/ Ashr \/ Sex \/ CompareLess \/ CompareLessOrEqual
  \/ Div \/ Mod \/ Divide

\* The code is sequential: while a step can be taken one is.
Spec == Init /\ [][Next]_vars /\ WF_vars(Next)

-----------------------------------------------------------------------------
(* Correctness.                                                             *)

x == pair[1]
y == pair[2]
Span == TwoTo[n]
Signed(value) == IF value >= Span \div 2 THEN value - Span ELSE value
\* The count of a shift, and the bits beyond the operand it may reach.
Shift == IF y % (Base * Base) > n THEN n ELSE y % (Base * Base)

Expected ==
  CASE op = "Add"  -> x + y
    [] op = "Sub"  -> (x - y) % (Span * Span)
    [] op = "Mul"  -> x * y
    [] op = "And"  -> BitByBit([p \in {0, 1} \X {0, 1} |-> p[1] * p[2]], x, y, n)
    [] op = "Or"   -> BitByBit([p \in {0, 1} \X {0, 1} |-> IF p = <<0, 0>> THEN 0 ELSE 1], x, y, n)
    [] op = "Xor"  -> BitByBit([p \in {0, 1} \X {0, 1} |-> IF p[1] = p[2] THEN 0 ELSE 1], x, y, n)
    [] op = "Lshl" -> (x * TwoTo[Shift]) % Span
    [] op = "Lshr" -> x \div TwoTo[Shift]
    [] op = "Ashr" -> IF y % (Base * Base) > n THEN 0 ELSE (Signed(x) \div TwoTo[Shift]) % Span
    [] op = "Sex"  -> Signed(x) % (Span * Span)
    [] op = "Less" -> IF x < y THEN 1 ELSE 0
    [] op = "LessOrEqual" -> IF x <= y THEN 1 ELSE 0

\* Carries, borrows, diagonals, halves and shifts across bytes lose nothing: an
\* operator has the result it has on integers, sums and products of the double
\* width and all of it.  But for Ashr, which forgets the sign when it is asked to
\* shift by more than the size; the translator takes the count modulo the size.
ResultsExact ==
  result # Pending /\ op \notin {"Div", "Mod"} => Value(result) = Expected

\* The loop of a long division; see LongDivision.
LoopExact == Long(op, <<a, b>>) => LoopInvariant

\* Quotient and remainder, with zero for a division by zero, and but for the long
\* division of a multiple of rhs by a power of two, which ends one rhs too early.
Divided ==
  LET long == Long(op, <<a, b>>) /\ x = y * TwoTo[Highest(x) - Highest(y)]
      q == IF y = 0 THEN 0 ELSE x \div y
  IN  /\ op = "Div" /\ result # Pending =>
           Value(result) = IF long THEN q - 1 ELSE q
      /\ op = "Mod" /\ result # Pending =>
           Value(result) = IF long THEN y ELSE IF y = 0 THEN 0 ELSE x % y

\* Every call on operands of less than half of what a uint8_t counts returns; above
\* it sums, products and long divisions stay in their loops.
Short == \E w \in {width(a) + 1} : SumReturns(w)
Returned == result # Pending
CallsReturn == Short ~> Returned
=============================================================================
