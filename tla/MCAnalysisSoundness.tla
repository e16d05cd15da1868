------------------------- MODULE MCAnalysisSoundness -------------------------
(***************************************************************************)
(* The native instructions the analysis is checked on, with the REIL code   *)
(* that the translator gives for them (branches as in translator.cpp:711).  *)
(***************************************************************************)
EXTENDS AnalysisSoundness

Native(class, target, reil) == [class |-> class, target |-> target, reil |-> reil]
Plain(reil) == Native("other", 0, reil)
Binary(opcode, a, b, out) == Instruction(opcode, a, b, None, out)
Unary(opcode, a, out) == Instruction(opcode, a, None, None, out)

x0 == Reg(0)
x1 == Reg(1)

Mov(reg, value) == Plain(<<Unary("Str", Imm(value), reg)>>)
Add(a, b, reg) == Plain(<<Binary("Add", a, b, Tmp(0)), Unary("Str", Tmp(0), reg)>>)
Ldr(reg, address) == Plain(<<Unary("Ldm", address, Tmp(0)), Unary("Str", Tmp(0), reg)>>)
Store(reg, address) ==
  Plain(<<Unary("Str", reg, Tmp(0)), Unary("Stm", Tmp(0), address)>>)
Cbz(reg, t) ==
  Native("maybe_branch", t,
    <<Instruction("Ite", reg, Imm(0), Imm(1), Tmp(0)), Unary("Str", Imm(t), Tmp(1)),
      Binary("Jcc", Tmp(0), kJump, Tmp(1))>>)
Br(reg, t) == Native("branch", t, <<Binary("Jcc", Imm(1), kJump, reg)>>)
Blr(reg) == Native("call", 0, <<Binary("Jcc", Imm(1), kCall, reg)>>)
Bl(t) == Native("call", t, <<Binary("Jcc", Imm(1), kCall, Imm(t))>>)
Ret(reg) == Native("return", 0, <<Binary("Jcc", Imm(1), kReturn, reg)>>)
Unknown == Plain(<<Unary("Unkn", None, None)>>)
Svc == Plain(<<Unary("Sys", Imm(0), None)>>)
\* As in the count of leading zeros: a jump within the native instruction.
Select(reg, a, b, out) ==
  Plain(<<Unary("Jcc", reg, Off(3)), Unary("Str", a, Tmp(0)),
          Unary("Jcc", Imm(1), Off(4)), Unary("Str", b, Tmp(0)), Unary("Str", Tmp(0), out)>>)

\* Addresses 6 and 7 are mapped, 7 for reading only.
MCImage == [a \in {6, 7} |-> [value |-> 3, writable |-> a = 6]]

Mixed == {Mov(x0, 1), Mov(x1, 3), Add(x0, x1, x0), Ldr(x0, Imm(5)), Ldr(x1, Imm(6)),
          Store(x0, Imm(6)), Cbz(x0, 4), Cbz(x0, 1), Br(x1, 3), Br(x0, 0), Blr(x1),
          Bl(1), Ret(x1), Svc, Unknown, Select(x0, x1, Imm(0), x0)}

\* What it takes to merge.
Merging == {Mov(x0, 1), Cbz(x1, 3), Ret(x0)}
=============================================================================
