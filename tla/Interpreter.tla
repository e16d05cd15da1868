---------------------------- MODULE Interpreter ----------------------------
(***************************************************************************)
(* reil/interpreter.cpp, "the intended semantics of the translated IL       *)
(* instructions" (README.md): what one REIL instruction does to registers,  *)
(* temporaries and memory, and how one native instruction follows another.  *)
(***************************************************************************)
EXTENDS Reil

VARIABLES pc,         \* pc_: address of the native instruction
          offset,     \* offset_: of the REIL instruction in it
          values,     \* registers_ and temporaries_: the value of each one set
          memory      \* memory_

machine == <<pc, offset, values, memory>>

Value(operand) ==
  IF operand[1] = "imm" THEN operand[2] ELSE values[operand]

Assign(place, value) ==
  [p \in DOMAIN values \cup {place} |-> IF p = place THEN value ELSE values[p]]

\* Start: the temporaries go with the native instruction they belong to.
WithoutTemporaries(vals) == [p \in {q \in DOMAIN vals : q[1] # "tmp"} |-> vals[p]]

\* Execute goes on at the next offset, or behind the last instruction with the next
\* native instruction (4 bytes on).
Proceed(reil, next, vals) ==
  IF next < Len(reil[pc])
  THEN /\ pc' = pc /\ offset' = next /\ values' = vals
  ELSE /\ pc' = pc + 1 /\ offset' = 0 /\ values' = WithoutTemporaries(vals)
Advance(reil, vals) == Proceed(reil, offset + 1, vals)

\* Add, Sub, Equ, Str, Sex, Ite, Ldm: something is written to the output.
Result(ri) ==
  CASE ri.opcode \in BinaryOpcodes  -> Compute(ri.opcode, Value(ri.input0),
                                                          Value(ri.input1))
    [] ri.opcode \in {"Str", "Sex"} -> Value(ri.input0)
    [] ri.opcode = "Ite"            -> IF Value(ri.input0) # 0 THEN Value(ri.input1)
                                                               ELSE Value(ri.input2)
    [] ri.opcode = "Ldm"            -> memory[Value(ri.input0)]

Write(reil, ri) ==
  /\ ri.opcode \in Writing
  /\ Advance(reil, Assign(ri.output, Result(ri)))
  /\ UNCHANGED memory

Stm(reil, ri) ==
  /\ ri.opcode = "Stm"
  /\ memory' = [memory EXCEPT ![Value(ri.output)] = Value(ri.input0)]
  /\ Advance(reil, values)

\* Nop, and Unkn and Sys, whose effect is not known.
Nothing(reil, ri) ==
  /\ ri.opcode \in {"Nop", "Unkn", "Sys"}
  /\ Advance(reil, values)
  /\ UNCHANGED memory

\* A jump that is not taken.
Fall(reil, ri) ==
  /\ ri.opcode = "Jcc" /\ Value(ri.input0) = 0
  /\ Advance(reil, values)
  /\ UNCHANGED memory

\* A jump within the native instruction.
Jump(reil, ri) ==
  /\ ri.opcode = "Jcc" /\ Value(ri.input0) # 0
  /\ ri.output[1] = "off"
  /\ Proceed(reil, ri.output[2], values)
  /\ UNCHANGED memory

\* A jump to another native instruction.
Leave(reil, ri) ==
  /\ ri.opcode = "Jcc" /\ Value(ri.input0) # 0
  /\ ri.output[1] # "off"
  /\ pc' = Value(ri.output) /\ offset' = 0 /\ values' = WithoutTemporaries(values)
  /\ UNCHANGED memory

SingleStep(reil) ==
  LET ri == reil[pc][offset + 1]
  IN  \/ Write(reil, ri) \/ Stm(reil, ri) \/ Nothing(reil, ri)
      \/ Fall(reil, ri) \/ Jump(reil, ri) \/ Leave(reil, ri)
=============================================================================
