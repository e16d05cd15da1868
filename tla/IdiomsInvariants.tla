--------------------------- MODULE IdiomsInvariants ---------------------------
(***************************************************************************)
(* The inductive invariants Comparisons and Computing of the emulator, of  *)
(* which ConditionMeaning and IdiomsCompute are the last step, and the     *)
(* terms in which ArithmeticProofs says what an instruction leaves.        *)
(***************************************************************************)
EXTENDS Idioms

\* Flags are bits.
ZeroOne == {0, 1}
Flagged == [n : ZeroOne, z : ZeroOne, c : ZeroOne, v : ZeroOne]
-----------------------------------------------------------------------------
(* Steps of the emulator.                                                   *)

\* The registers that the sequences use and the flags are those of a machine.
Sound == flags \in Flagged /\ \A r \in 0 .. 5 : registers[r] \in Cpu!Addresses

\* A word for ADDS (op 0) or SUBS (op 1), which CMP is with register 31 as d.
Adds(w, op1, rn, m, d) ==
  /\ w.class = "AddSubtractShiftedRegister" /\ w.sf = 0 /\ w.op = op1 /\ w.S = 1
  /\ w.shift = 0 /\ w.imm = 0 /\ w.n = rn /\ w.m = m /\ w.d = d

\* A word for ADC (op 0) or SBC (op 1).
AddsCarry(w, op1, rn, m, d) ==
  /\ w.class = "AddSubtractWithCarry" /\ w.sf = 0 /\ w.op = op1
  /\ w.opcode2 = 0 /\ w.n = rn /\ w.m = m /\ w.d = d

\* The flags are written if S is 1.
Flagging(w, i) == IF w.S = 1 THEN i.set_flags = TRUE ELSE i.set_flags = FALSE

\* What is left to do of an instruction that has its sum.
Finishes(i, sum) ==
  Cpu!Proceed(Cpu!Set(Cpu!SetFlags(Cpu!Machine, i, sum.flags), i, 0, sum.result))

\* A comparison changes the flags alone.
FlagsOnly(f) == registers' = registers /\ flags' = f /\ pc' = pc + 4
-----------------------------------------------------------------------------
(* Code that jumps inside an instruction.                                   *)

\* The code of a conditional compare, before and after its labels are taken out.
Choice(h, t, p, q) == <<Cpu!Jcc(h, 0), Cpu!Piece(p), Cpu!Jcc(t, 1), Cpu!Nop(0),
                        Cpu!Piece(q), Cpu!Nop(1)>>

\* The jumps to a label that is taken out get the place it was at.
ErasedTo(c, d, l, i) ==
  \A j \in DOMAIN c : d[j] = IF c[j].op = "Jcc" /\ c[j].label = l
                       THEN Cpu!Offset(c[j].holds, i) ELSE c[j]

\* A sequence without its element i + 1.
Spliced(d, l, i, e) ==
  /\ DOMAIN d = 1 .. l /\ d = [j \in 1 .. l |-> d[j]]
  /\ e = SubSeq(d, 1, i) \o SubSeq(d, i + 2, l)

InRange(d, S, i, l) == \A j \in i .. l : d[j] \in S

\* The loop of Finalise, and the walk of Execute.
Erased(c, k) == IF k <= Len(c) /\ c[k].op = "Nop" THEN Cpu!Erase(c, k - 1) ELSE c
IsLoop(f, c) == f = [k \in 0 .. Len(c) |-> IF k = 0 THEN c ELSE Erased(f[k - 1], k)]

Walked(c, from, k) ==
  IF k = Len(c) THEN <<>>
  ELSE IF c[k + 1].op = "Offset" /\ c[k + 1].holds THEN from[c[k + 1].offset]
  ELSE IF c[k + 1].op = "Jcc" /\ c[k + 1].holds THEN <<Cpu!Abort>>
  ELSE IF c[k + 1].op = "Piece" /\ from[k + 1] = <<>> THEN <<c[k + 1].outcome>> ELSE from[k + 1]
IsWalk(f, c) == f = [k \in 0 .. Len(c) |-> Walked(c, f, k)]

\* The code of a conditional compare as Finalise leaves it.
IsFinal(d, h, t, p, q) ==
  /\ Len(d) = 5
  /\ d[1] = Cpu!Offset(h, 3) /\ d[2] = Cpu!Piece(p) /\ d[3] = Cpu!Offset(t, 4)
  /\ d[4] = Cpu!Piece(q) /\ d[5] = Cpu!Nop(1)

\* One outcome if the first jump is taken, the other if not.
Chooses(h, p, q, default) ==
  Cpu!Execute(Choice(h, TRUE, p, q), default) = IF h THEN q ELSE p
-----------------------------------------------------------------------------
(* The conditional compare.                                                 *)

\* The flags that a number stands for, and those that a condition does not hold for.
Spelled(v) == Cpu!Nzcv(Cpu!Bit(v, 3), Cpu!Bit(v, 2), Cpu!Bit(v, 1), Cpu!Bit(v, 0))
-----------------------------------------------------------------------------
(* The sequences.                                                           *)

\* What is compared by the sequences, and what the flags say before their branches.
Relates(cond, rn, m) == Related(cond, half(rn), half(m), Cpu!W)
BothRelate(first, cond) == Relates(first, 0, 1) /\ Relates(cond, 2, 3)
WideRelates(cond) == Related(cond, Wide(0, 1), Wide(2, 3), 2 * Cpu!W)
Difference(rn, m) == Arm!DifferenceFlags(half(rn), half(m), 0, Cpu!W)

AtTwo(cond, relation) ==
  \/ pc = 0
  \/ pc = 4 /\ (Arm!Holds(cond, flags) <=> relation)
  \/ pc = IF relation THEN 12 ELSE 8
AtThree(cond, compared, relation) ==
  \/ pc = 0
  \/ pc = 4 /\ compared
  \/ pc = 8 /\ (Arm!Holds(cond, flags) <=> relation)
  \/ pc = IF relation THEN 16 ELSE 12

Comparing == \A cond \in Relations : program = Sequence(Compared(cond)) =>
  Sound /\ AtTwo(cond, Relates(cond, 0, 1))
BothComparing == \A first, cond \in Relations :
  program = Sequence(BothCompared(first, cond)) =>
    Sound /\ AtThree(cond, Arm!Holds(first, flags) <=> Relates(first, 0, 1),
            BothRelate(first, cond))
WideComparing == \A cond \in {2, 3, 10, 11} :
  program = Sequence(WideCompared(cond)) =>
    Sound /\ AtThree(cond, flags = Difference(0, 2), WideRelates(cond))

\* The inductive invariant: what the flags say in front of each instruction of a sequence.
Comparisons == Comparing /\ BothComparing /\ WideComparing
-----------------------------------------------------------------------------
(* What the sequences that compute leave behind.                           *)

\* The registers that the sequences use are there.
Complete == Sound /\ Used \subseteq DOMAIN registers

\* An instruction writes one register and flags.
Writes(d, v, f) ==
  /\ registers' = [registers EXCEPT ![d] = v] /\ flags' = f /\ memory' = memory /\ pc' = pc + 4
-----------------------------------------------------------------------------
(* Sums that carry.                                                         *)

\* What ADC (op 0) and SBC (op 1) compute, and the carry they leave.
Total(op1, u, v, c) == IF op1 = 1 THEN u - v - (1 - c) ELSE u + v + c
Carry(op1, z) == IF z >= (IF op1 = 1 THEN 0 ELSE TwoTo[Cpu!W]) THEN 1 ELSE 0
AddedTo(op1, v) == IF op1 = 1 THEN Cpu!Not(v, Cpu!W) ELSE v

\* The result of a sum, in a register.
Sums(op1, u, v, c, d) ==
  \E f \in Flagged : /\ Writes(d, Total(op1, u, v, c) % TwoTo[Cpu!W], f)
                     /\ f.c = Carry(op1, Total(op1, u, v, c))

\* The other registers stay.
Keeps(d) == \A r \in Used \ {d} : registers'[r] = registers[r] /\ half(r)' = half(r)

\* A number with the digit p in base t, and what is left.
Splits(z, t, p, k) == z = p + t * k
Joined(z, s, t, p, up) == (z + t * s) % (t * t) = p + t * up

\* What is summed, and that the digits of two sums make the sum.
SumOf(op1, u, v) == IF op1 = 1 THEN u - v ELSE u + v

SumsTo(op1, t, z, u, v, up, vp) ==
  (z % t) + t * (Total(op1, up, vp, Carry(op1, z)) % t)
  = SumOf(op1, u + t * up, v + t * vp) % TwoTo[Cpu!X]

\* What the flags and the registers say in front of each instruction.
LowSum(op1) == Total(op1, half(0), half(2), op1)
SumLeft(op1) == Wide(4, 5) = SumOf(op1, Wide(0, 1), Wide(2, 3)) % TwoTo[Cpu!X]
AtSum(op1) ==
  \/ pc = 0
  \/ /\ pc = 4 /\ half(4) = LowSum(op1) % TwoTo[Cpu!W] /\ flags.c = Carry(op1, LowSum(op1))
  \/ pc = 8 /\ SumLeft(op1)
Summing == \A op1 \in {0, 1} : program = Sequence(WideSum(op1)) => Complete /\ AtSum(op1)
-----------------------------------------------------------------------------
(* Products.                                                                *)

\* The opcodes of the multiplications by their fields.
Multiplies(opcode, kind, sf) ==
  \/ opcode = "kMadd" /\ kind = 0
  \/ opcode = "kMsub" /\ kind = 1
  \/ opcode = "kUmulh" /\ kind = 12 /\ sf = 1
MultipliedAs(i, w, opcode) ==
  /\ i.opcode = opcode /\ i.set_flags = FALSE
  /\ i.operands[1] = Cpu!x(Cpu!Size(w.sf), w.d) /\ i.operands[2] = Cpu!x(Cpu!Size(w.sf), w.n)
  /\ i.operands[3] = Cpu!x(Cpu!Size(w.sf), w.m) /\ i.operands[4] = Cpu!x(Cpu!Size(w.sf), w.a)

\* A product has two halves, each as long as its factors.
IsPower(t, len) == t = TwoTo[len]
HasHalves(u, v, t, len) ==
  /\ Cpu!Mul(u, v, 2 * len) = u * v /\ u * v \in Nat
  /\ (u * v) % t \in 0 .. t - 1 /\ (u * v) \div t \in 0 .. t - 1
  /\ u * v = t * ((u * v) \div t) + ((u * v) % t)

\* MUL leaves the low half of the product, and UMULH the high one.
ProductPart(high, u, v) ==
  IF high = 1 THEN (u * v) \div TwoTo[Cpu!X] ELSE (u * v) % TwoTo[Cpu!X]
Multiplying(high, d) == Multiplied(1, IF high = 1 THEN 6 ELSE 0, 0, 0, 1, 31, d)

\* What MUL and UMULH have left.
LowLeft == registers[4] = ProductPart(0, registers[0], registers[1])
ProductLeft == registers[4] + TwoTo[Cpu!X] * registers[5] = registers[0] * registers[1]
Producing == program = Sequence(WideProduct) =>
  Complete /\ (pc = 0 \/ (pc = 4 /\ LowLeft) \/ (pc = 8 /\ ProductLeft))
-----------------------------------------------------------------------------
(* Quotients with a sign, and remainders.                                   *)

\* The quotient of the magnitudes.
Absolute(u) == Arm!Magnitude(Arm!Signed(u, Cpu!W))
Negative(u) == IF Arm!Signed(u, Cpu!W) < 0 THEN 1 ELSE 0

\* The quotient rounded to 0: its sign is that of numbers with signs apart.
Apart(u, v) == Negative(u) # Negative(v)
TruncatedQuotient(u, v) ==
  IF Apart(u, v) THEN -Cpu!Div(Absolute(u), Absolute(v)) ELSE Cpu!Div(Absolute(u), Absolute(v))

\* The multiples of t are left out of account.
Congr(z, s, t) == \E i \in Int : z = s + t * i
Small(z) == -TwoTo[Cpu!W - 1] <= z /\ z < TwoTo[Cpu!W - 1]

\* What RemaindersLeft asks of signed numbers.
RemainderOk(u, v, q, r) ==
  LET z == Arm!Signed(u, Cpu!W)
      d == Arm!Signed(v, Cpu!W)
      s == Arm!Signed(r, Cpu!W)
  IN  /\ Arm!Signed(q, Cpu!W) * d + s = z
      /\ Arm!Magnitude(s) < Arm!Magnitude(d) /\ (s = 0 \/ (s < 0) = (z < 0))

\* Division without a sign (opc 2) and with one (opc 3).
QuotientOpcode(opc) == IF opc = 3 THEN "kSdiv" ELSE "kUdiv"
Ratio(opc, u, v) == IF opc = 3 THEN Cpu!Sdiv(u, v, Cpu!W) ELSE Cpu!Div(u, v)
DividedAs(i, w) ==
  /\ i.opcode = QuotientOpcode(w.opc) /\ i.set_flags = FALSE
  /\ i.operands[1] = Cpu!x(Cpu!W, w.d) /\ i.operands[2] = Cpu!x(Cpu!W, w.n)
  /\ i.operands[3] = Cpu!x(Cpu!W, w.m)

\* What is left of a division.
LeftOver(u, q, v) == (u - q * v) % TwoTo[Cpu!W]
Divides(opc) == half(4) = Ratio(opc, half(0), half(1))
LeavesOver == half(5) = LeftOver(half(0), half(4), half(1))
AtRemainder(opc) ==
  \/ pc = 0
  \/ pc = 4 /\ Divides(opc)
  \/ pc = 8 /\ Divides(opc) /\ LeavesOver
Leaving == \A opc \in {2, 3} :
  program = Sequence(RemainderOf(opc)) => Complete /\ AtRemainder(opc)
-----------------------------------------------------------------------------
(* Frames.                                                                  *)

\* The operand of a pair, as it is decoded.
Paired(load) == IF load = 0 THEN "kStp" ELSE "kLdp"
Indexing(w) ==
  Cpu!Indexed(Cpu!x_or_sp(Cpu!X, w.n), Cpu!sign_extend_bits(w.imm) * 8, Cpu!X * 2, w.op3)
PairedAs(i, w) ==
  /\ i.opcode = Paired(w.load)
  /\ i.operands[1] = Cpu!x(Cpu!X, w.t) /\ i.operands[2] = Cpu!x(Cpu!X, w.t2)
  /\ i.operands[3] = Indexing(w)

\* A place in memory that is written back to the stack pointer, before (mode 3) or after.
AtStack(o, offset, mode) ==
  /\ o.kind = "ImmediateOffset" /\ o.base.name = 32 /\ o.offset.value = offset % TwoTo[Cpu!X]
  /\ o.size = Cpu!X * 2 /\ o.writeback /\ (o.post_index <=> mode = 1)

\* What the address is for.
Moved(sp, offset) == (sp + (offset % TwoTo[Cpu!X])) % TwoTo[Cpu!X]

\* Two registers are packed to one number, and unpacked from it.
Packed(t, u, v) ==
  /\ Cpu!Pack(<<u, v>>, Cpu!X) = u + t * v
  /\ (u + t * v) % TwoTo[Cpu!X * 2] = u + t * v
  /\ u + t * v \in Nat /\ u + t * v < TwoTo[Byte * 16]
  /\ (u + t * v) % t = u /\ ((u + t * v) \div t) % t = v

\* STP: two registers are pushed.
Lowered(by) == Moved(registers[32], (-by) * 8)
Pushing(by) == StackPair(0, TwoTo[OffsetBits] - by, 3, 0, 1)
Both == registers[0] + TwoTo[Cpu!X] * registers[1]
Pushes(by) ==
  /\ registers' = [registers EXCEPT ![32] = Lowered(by)] /\ flags' = flags
  /\ memory' = Cpu!SetMemory(memory, Lowered(by), Both, Cpu!X * 2)
  /\ pc' = pc + 4

\* LDP: two registers are popped.
GivenBack(by) == Moved(registers[32], by * 8)
Popping(by) == StackPair(1, by, 1, 4, 5)
Stacked == Cpu!GetMemory(memory, registers[32], Cpu!X * 2) = Both
Pops(by) ==
  /\ registers' = [[[registers EXCEPT ![32] = GivenBack(by)] EXCEPT ![4] = registers[0]]
                     EXCEPT ![5] = registers[1]]
  /\ flags' = flags /\ pc' = pc + 4

\* In front of each instruction: what is on the stack, and how far the pointer has moved.
AtFrame(by) ==
  \/ pc = 0 /\ registers[32] = registers[30]
  \/ pc = 4 /\ registers[32] = Moved(registers[30], (-by) * 8) /\ Stacked
  \/ /\ pc = 8 /\ registers[4] = registers[0] /\ registers[5] = registers[1]
     /\ registers[32] = registers[30]
Framed == Complete /\ {registers[30], registers[32]} \subseteq Cpu!Addresses
Framing == \A by \in 1 .. TwoTo[OffsetBits - 1] - 1 :
  program = Sequence(Frame(by)) => Framed /\ AtFrame(by)

\* The inductive invariant of the sequences that compute, from the first state on.
Computing == Summing /\ Producing /\ Leaving /\ Framing
=============================================================================
