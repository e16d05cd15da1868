-------------------------------- MODULE Reil --------------------------------
(***************************************************************************)
(* reil/reil.h: REIL instructions and their operands, and the arithmetic of *)
(* reil/immediate.cpp that the analysis and the interpreter share.  All     *)
(* values have one width here, so Str and Sex copy; of the binary opcodes   *)
(* Compute has a sample, as both sides apply the same operators.            *)
(***************************************************************************)
EXTENDS Integers, Sequences

CONSTANT Modulus     \* 2 to the power of the width of a value
ASSUME ModulusAssumption == Modulus \in Nat \ {0, 1}
Values == 0 .. Modulus - 1

\* An operand is its kind and its value or index.
Imm(value) == <<"imm", value>>
Reg(index) == <<"reg", index>>
Tmp(index) == <<"tmp", index>>
Off(offset) == <<"off", offset>>
None == <<"none", 0>>

\* The input1 of a Jcc to another native instruction is a hint (reil.cpp).
kJump == Imm(0)
kCall == Imm(1)
kReturn == Imm(2)

Instruction(opcode, input0, input1, input2, output) ==
  [opcode |-> opcode, input0 |-> input0, input1 |-> input1, input2 |-> input2,
   output |-> output]

\* Immediate's operators, for those binary opcodes that the code uses.
Compute(opcode, a, b) ==
  CASE opcode = "Add" -> (a + b) % Modulus
    [] opcode = "Sub" -> (a - b) % Modulus
    [] opcode = "Equ" -> IF a = b THEN 1 ELSE 0
BinaryOpcodes == {"Add", "Sub", "Equ"}

\* Registers and temporaries, and all that can be read.
Places == {"reg", "tmp"} \X Nat
Operands == Places \cup ({"imm"} \X Values)

\* What an instruction reads, and the place it writes.
Reads(ri) ==
  CASE ri.opcode \in BinaryOpcodes         -> {ri.input0, ri.input1}
    [] ri.opcode \in {"Str", "Sex", "Ldm"} -> {ri.input0}
    [] ri.opcode = "Ite"                   -> {ri.input0, ri.input1, ri.input2}
    [] ri.opcode = "Stm"                   -> {ri.input0, ri.output}
    [] ri.opcode = "Jcc"                   -> {ri.input0} \cup {o \in {ri.output} : o[1] # "off"}
    [] OTHER                               -> {}
Writing == BinaryOpcodes \cup {"Str", "Sex", "Ite", "Ldm"}
Writes(ri) == {p \in {ri.output} : ri.opcode \in Writing}
=============================================================================
