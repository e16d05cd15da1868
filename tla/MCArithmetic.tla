----------------------------- MODULE MCArithmetic -----------------------------
(***************************************************************************)
(* Bytes of three bits: all operands of one and two bytes, which are words; *)
(* operands of three and four bytes, which have the lattice multiplication  *)
(* and the long division, of which that of four bytes does not return; and  *)
(* of five, whose sums and products do not return either.                   *)
(***************************************************************************)
EXTENDS Arithmetic

CONSTANTS Corners       \* the bytes in the operands of three and four bytes

Pairs(s) == s \X s
AllOf(w) == [0 .. w - 1 -> ByteValues]
MCInputs ==
  Pairs(AllOf(1)) \cup Pairs(AllOf(2)) \cup Pairs([0 .. 2 -> Corners])
  \cup ([0 .. 3 -> Corners] \X [0 .. 3 -> Corners \ {1}]) \cup Pairs([0 .. 4 -> {1}])

\* The pairs the long division is checked on by itself.
MCOperands == {p \in (1 .. 80) \X (1 .. 80) : p[2] < p[1]}
=============================================================================
