----------------------------- MODULE Translation -----------------------------
(***************************************************************************)
(* reil/translation.cpp: labels and Finalise, which takes them out of the   *)
(* code of a native instruction, and reil/interpreter.cpp walking through   *)
(* what is left.  Code is a sequence of jumps to labels, of labels and of   *)
(* pieces in between, each of which has an outcome.                         *)
(***************************************************************************)
EXTENDS Integers, Sequences

Jcc(holds, label) == [op |-> "Jcc", holds |-> holds, label |-> label]
Nop(label) == [op |-> "Nop", label |-> label]
Piece(outcome) == [op |-> "Piece", outcome |-> outcome]
Offset(holds, offset) == [op |-> "Offset", holds |-> holds, offset |-> offset]

\* A mutant: jumps go to where the label was, as if it was still there.
EraseBehind(code, i) ==
  LET l == code[i + 1].label
      retargeted == [j \in DOMAIN code |->
                       IF code[j].op = "Jcc" /\ code[j].label = l
                       THEN Offset(code[j].holds, i + 1) ELSE code[j]]
  IN  IF i = Len(code) - 1 THEN retargeted
      ELSE SubSeq(retargeted, 1, i) \o SubSeq(retargeted, i + 2, Len(code))

\* The loop of Finalise at index i (from 0): jumps to a label go to its index, and the
\* label is erased unless it is the last instruction.  What then is at i is passed over.
Erase(code, i) ==
  LET l == code[i + 1].label
      retargeted == [j \in DOMAIN code |->
                       IF code[j].op = "Jcc" /\ code[j].label = l
                       THEN Offset(code[j].holds, i) ELSE code[j]]
  IN  IF i = Len(code) - 1 THEN retargeted
      ELSE SubSeq(retargeted, 1, i) \o SubSeq(retargeted, i + 2, Len(code))

Finalise(code) ==
  LET at[i \in 0 .. Len(code)] ==
        IF i = 0 THEN code
        ELSE LET before == at[i - 1]
             IN  IF i <= Len(before) /\ before[i].op = "Nop" THEN Erase(before, i - 1)
                 ELSE before
  IN  at[Len(code)]

\* A label is no operand of a jump: Interpreter::GetOperand aborts.
Abort == "abort"

\* Execute: the outcome of the last piece on the way through the code, or default.
Execute(code, default) ==
  LET final == Finalise(code)
      from[offset \in 0 .. Len(final)] ==
        IF offset = Len(final) THEN <<>>
        ELSE LET ri == final[offset + 1]
             IN  IF ri.op = "Offset" /\ ri.holds THEN from[ri.offset]
                 ELSE IF ri.op = "Jcc" /\ ri.holds THEN <<Abort>>
                 ELSE LET rest == from[offset + 1]
                      IN  IF ri.op = "Piece" /\ rest = <<>> THEN <<ri.outcome>> ELSE rest
      outcome == from[0]
  IN  IF outcome = <<>> THEN default ELSE outcome[1]
=============================================================================
