----------------------------- MODULE Translator -----------------------------
(***************************************************************************)
(* reil/aarch64/translator.cpp and reil/aarch64/emulator.cpp: an emulator   *)
(* that decodes, translates and interprets one instruction of a program     *)
(* after the other.  The REIL code that a Translate... function emits is    *)
(* written as the values its temporaries have once it is interpreted; an    *)
(* operand that is a register is read where the code reads it.              *)
(***************************************************************************)
EXTENDS Decoder, Translation, FiniteSetsExt

CONSTANTS Starts,              \* bound: sets of programs, each with the states they start in
          Contents,            \* bound: what memory holds then
          InstructionBytes     \* 4

Addresses == 0 .. TwoTo[X] - 1

VARIABLES program,             \* what is at an address, if it is an instruction
          minimal,             \* kMinimalBranches
          registers, flags, memory, pc
state == <<registers, flags, memory, pc>>
vars == <<program, minimal, state>>

\* The machine as a value: m.x, m.f, m.mem.
Machine == [x |-> registers, f |-> flags, mem |-> memory]

-----------------------------------------------------------------------------
(* REIL on values of a given size.                                          *)

Bit(v, k) == (v \div TwoTo[k]) % 2
Bits(Op(_, _), a, b, size) ==
  Number(2, [k \in 0 .. size - 1 |-> IF Op(Bit(a, k) = 1, Bit(b, k) = 1) THEN 1 ELSE 0], size)
And(a, b, size) == Bits(LAMBDA p, q : p /\ q, a, b, size)
Or(a, b, size) == Bits(LAMBDA p, q : p \/ q, a, b, size)
Xor(a, b, size) == Bits(LAMBDA p, q : p # q, a, b, size)
Not(a, size) == TwoTo[size] - 1 - a
SignBit(a, size) == Bit(a, size - 1)
Lshl(a, count, size) == (a * TwoTo[count]) % TwoTo[size]
Lshr(a, count) == a \div TwoTo[count]
\* The sign is or-ed in from the left.
Ashr(a, count, size) ==
  (a \div TwoTo[count]) + SignBit(a, size) * (TwoTo[size] - TwoTo[size - count])
Sex(a, size, result_size) ==
  (a + SignBit(a, size) * (TwoTo[result_size] - TwoTo[size])) % TwoTo[result_size]
Bisz(a) == IF a = 0 THEN 1 ELSE 0
Bisnz(a) == 1 - Bisz(a)
\* Mul, and the Str to a temporary that takes its low bits.
Mul(a, b, size) ==
  LET from[k \in 0 .. size] ==
        IF k = size THEN 0 ELSE (Bit(b, k) * a + 2 * from[k + 1]) % TwoTo[size]
  IN  from[0]
Smul(a, b, size) == Mul(Sex(a, size, 2 * size), Sex(b, size, 2 * size), 2 * size)

SignedToUnsigned(a, size) ==
  LET negative == SignBit(a, size)
  IN  [value |-> Or(negative * ((Not(a, size) + 1) % TwoTo[size]),
                    (1 - negative) * (a % TwoTo[size - 1]), size),
       sign |-> negative]
UnsignedToSigned(a, sign, size) ==
  Or(sign * ((Not(a, size) + 1) % TwoTo[size]), Bisz(sign) * (a % TwoTo[size - 1]), size)
Div(a, b) == IF b = 0 THEN 0 ELSE a \div b
Sdiv(a, b, size) ==
  LET lhs == SignedToUnsigned(a, size)
      rhs == SignedToUnsigned(b, size)
  IN  UnsignedToSigned(Div(lhs.value, rhs.value), Xor(lhs.sign, rhs.sign, 1), size)

-----------------------------------------------------------------------------
(* Operands.                                                                *)

GetMemory(mem, address, size) ==
  Number(TwoTo[Byte], [k \in 0 .. size \div Byte - 1 |-> mem[(address + k) % TwoTo[X]]],
         size \div Byte)
SetMemory(mem, address, value, size) ==
  [a \in Addresses |->
     LET k == (a - address) % TwoTo[X]
     IN  IF k < size \div Byte THEN (value \div TwoTo[Byte * k]) % TwoTo[Byte] ELSE mem[a]]

RegisterValue(m, name) ==
  IF name = kXzr THEN 0 ELSE IF name = kPc THEN pc ELSE m.x[name]
SetRegister(m, name, value) ==
  IF name = kXzr THEN m ELSE [m EXCEPT !.x[name] = value % TwoTo[X]]

ApplyExtend(extend, value, size) ==
  LET from == CASE extend.type \in {"Uxtb", "Sxtb"} -> Byte
                [] extend.type \in {"Uxth", "Sxth"} -> H
                [] extend.type \in {"Uxtw", "Sxtw"} -> W
                [] OTHER                            -> X
      tmp == value % TwoTo[from]
      extended == IF extend.type \in {"Sxtb", "Sxth", "Sxtw", "Sxtx"}
                  THEN Sex(tmp, from, size) ELSE tmp % TwoTo[size]
  IN  Lshl(extended, extend.count, size)

ApplyShift(shift, value, size) ==
  CASE shift.type = "None" -> value
    [] shift.type = "Lsl"  -> Lshl(value, shift.count, size)
    [] shift.type = "Lsr"  -> Lshr(value, shift.count)
    [] shift.type = "Asr"  -> Ashr(value, shift.count, size)
    [] shift.type = "Ror"  -> Or(Lshr(value, shift.count),
                                 Lshl(value, size - shift.count, size), size)

Address(m, o) ==
  LET offset == IF o.kind = "ImmediateOffset" THEN o.offset.value
                ELSE ApplyExtend(o.extend, RegisterValue(m, o.offset.name), X)
  IN  (RegisterValue(m, o.base.name) + offset) % TwoTo[X]
\* A mutant: the base is changed before the access, post-indexed or not.
AccessedAfterwards(m, o) == Address(m, o)
Accessed(m, o) == IF o.post_index THEN RegisterValue(m, o.base.name) ELSE Address(m, o)
WriteBack(m, o) == IF o.writeback THEN SetRegister(m, o.base.name, Address(m, o)) ELSE m

GetOperand(m, o) ==
  CASE o.kind = "Immediate" -> o.value
    [] o.kind = "Register"  -> RegisterValue(m, o.name) % TwoTo[o.size]
    [] OTHER                -> GetMemory(m.mem, Accessed(m, o), o.size)

SetOperand(m, o, value) ==
  IF o.kind = "Register" THEN SetRegister(m, o.name, value)
  ELSE WriteBack([m EXCEPT !.mem = SetMemory(@, Accessed(m, o), value % TwoTo[o.size], o.size)],
                 o)

\* The operand with an index of the instruction; reading one writes its base back.
Op(i, index) == i.operands[index + 1]
Get(m, i, index) == GetOperand(m, Op(i, index))
Set(m, i, index, value) == SetOperand(m, Op(i, index), value)
After(m, i, index) == WriteBack(m, Op(i, index))
SizeOf(i, index) == Op(i, index).size

Nzcv(n, z, c, v) == [n |-> n, z |-> z, c |-> c, v |-> v]
SetFlags(m, i, f) == IF i.set_flags THEN [m EXCEPT !.f = f] ELSE m

\* A mutant: the overflow is that of the operands, not of the operands and the result.
AddComparingOperands(lhs, rhs, carry, size) ==
  LET tmp4 == rhs + carry + lhs
      result == tmp4 % TwoTo[size]
  IN  [result |-> result,
       flags |-> Nzcv(SignBit(result, size), Bisz(result), Bit(tmp4, size),
                      And(SignBit(lhs, size), SignBit(rhs, size), 1))]
AddWithCarry(lhs, rhs, carry, size) ==
  LET tmp4 == rhs + carry + lhs
      result == tmp4 % TwoTo[size]
      sign == SignBit(result, size)
  IN  [result |-> result,
       flags |-> Nzcv(sign, Bisz(result), Bit(tmp4, size),
                      And(Xor(SignBit(lhs, size), sign, 1), Xor(SignBit(rhs, size), sign, 1), 1))]

\* kMinimalBranches adds up the bits from the left while they are clear; otherwise
\* there is a jump for every bit, and a piece of code for it to jump to.
CountLeadingZeroBits(value, size) ==
  LET Label(k) == k + 1
      done == 0
      jumps == [j \in 1 .. size |-> Jcc(Bit(value, size - j) = 1, Label(size - j))]
      pieces == [j \in 1 .. 3 * size |->
                   LET k == size - 1 - (j - 1) \div 3
                   IN  CASE j % 3 = 1 -> Nop(Label(size - 1 - k))
                         [] j % 3 = 2 -> Piece(k)
                         [] j % 3 = 0 -> Jcc(TRUE, done)]
  IN  IF minimal
      THEN MapThenSumSet(LAMBDA k : IF \A j \in k .. size - 1 : Bit(value, j) = 0
                                    THEN 1 ELSE 0, 0 .. size - 1)
      ELSE Execute(jumps \o <<Piece(size), Jcc(TRUE, done)>> \o pieces \o <<Nop(done)>>, 0)
CountLeadingSignBits(value, size) ==
  LET tmp1 == Lshl(value % TwoTo[size - 1], 1, size)
  IN  CountLeadingZeroBits(Or(Xor(tmp1, value, size), 1, size), size)

ConditionHolds(f, cc) ==
  LET result == CASE cc \div 2 = 0 -> f.z
                  [] cc \div 2 = 1 -> f.c
                  [] cc \div 2 = 2 -> f.n
                  [] cc \div 2 = 3 -> f.v
                  [] cc \div 2 = 4 -> And(f.c, Bisz(f.z), 1)
                  [] cc \div 2 = 5 -> Bisz(Xor(f.n, f.v, 1))
                  [] cc \div 2 = 6 -> And(Bisz(Xor(f.n, f.v, 1)), Bisz(f.z), 1)
                  [] cc \div 2 = 7 -> 1
  IN  IF cc # 15 /\ cc % 2 = 1 THEN Bisz(result) ELSE result

Pack(values, size) == Or(values[1], Lshl(values[2], size, 2 * size), 2 * size)
Unpack(value, size) == <<value % TwoTo[size], Lshr(value, size) % TwoTo[size]>>

-----------------------------------------------------------------------------
(* The Translate... functions, each with the machine before and the         *)
(* instruction; SingleStep of the emulator goes on where Execute returns.   *)

Leave(m, address) ==
  /\ registers' = m.x /\ flags' = m.f /\ memory' = m.mem
  /\ pc' = address % TwoTo[X]
Proceed(m) == Leave(m, pc + InstructionBytes)

PcRelativeAddressing(m, i) ==
  /\ i.opcode \in {"kAdr", "kAdrp"}
  /\ LET base == IF i.opcode = "kAdrp" THEN pc - (pc % TwoTo[PageBits]) ELSE pc
     IN  Proceed(Set(m, i, 0, base + ApplyShift(Op(i, 2), Get(m, i, 1), X)))

\* What the additions and subtractions have in common.
AddSubtract(m, i, subtract, rhs) ==
  LET size == SizeOf(i, 1)
      sum == IF subtract THEN AddWithCarry(Get(m, i, 1), Not(rhs, size), 1, size)
                         ELSE AddWithCarry(Get(m, i, 1), rhs, 0, size)
  IN  Proceed(Set(SetFlags(m, i, sum.flags), i, 0, sum.result))

AddSubtractImmediate(m, i) ==
  /\ i.opcode \in {"kAddImmediate", "kSubImmediate"}
  /\ AddSubtract(m, i, i.opcode = "kSubImmediate",
                 ApplyShift(Op(i, 3), Get(m, i, 2), SizeOf(i, 1)))

LogicalFlags(result, size) == Nzcv(SignBit(result, size), Bisz(result), 0, 0)

LogicalImmediate(m, i) ==
  /\ i.opcode \in {"kAndImmediate", "kOrrImmediate", "kEorImmediate"}
  /\ LET size == SizeOf(i, 1)
         lhs == Get(m, i, 1)
         rhs == Get(m, i, 2)
         result == CASE i.opcode = "kAndImmediate" -> And(lhs, rhs, size)
                     [] i.opcode = "kOrrImmediate" -> Or(lhs, rhs, size)
                     [] i.opcode = "kEorImmediate" -> Xor(lhs, rhs, size)
     IN  Proceed(Set(SetFlags(m, i, LogicalFlags(result, size)), i, 0, result))

MoveWideImmediate(m, i) ==
  /\ i.opcode \in {"kMovn", "kMovz", "kMovk"}
  /\ LET size == SizeOf(i, 0)
         value == ApplyShift(Op(i, 2), Get(m, i, 1), size)
         mask == Not(ApplyShift(Op(i, 2), TwoTo[H] - 1, size), size)
         result == CASE i.opcode = "kMovn" -> Not(value, size)
                     [] i.opcode = "kMovz" -> value
                     [] i.opcode = "kMovk" -> Or(And(Get(m, i, 0), mask, size), value, size)
     IN  Proceed(Set(m, i, 0, result))

Bitfield(m, i) ==
  /\ i.opcode \in {"kSbfm", "kBfm", "kUbfm"}
  /\ LET size == SizeOf(i, 1)
         src == Get(m, i, 1)
         dst == Get(m, i, 0)
         immr == Op(i, 2).value
         imms == Op(i, 3).value
         masks == DecodeBitMasks(size, imms, immr)
         wmask == masks[1] % TwoTo[size]
         tmask == masks[2] % TwoTo[size]
         rotated == Or(Lshl(src, size - immr, size), Lshr(src, immr), size)
         sign == Bit(src, imms) * Not(tmask, size)
         merged == Or(And(rotated, wmask, size), And(dst, Not(wmask, size), size), size)
         result ==
           CASE i.opcode = "kSbfm" ->
                  Or(And(rotated, And(tmask, wmask, size), size), sign, size)
             [] i.opcode = "kBfm" ->
                  Or(And(merged, tmask, size), And(dst, Not(tmask, size), size), size)
             [] i.opcode = "kUbfm" -> And(rotated, And(tmask, wmask, size), size)
     IN  Proceed(Set(m, i, 0, result))

Extract(m, i) ==
  /\ i.opcode = "kExtr"
  /\ LET size == SizeOf(i, 0)
         joined == Or(Get(m, i, 2), Lshl(Get(m, i, 1), size, 2 * size), 2 * size)
     IN  Proceed(Set(m, i, 0, Lshr(joined, Get(m, i, 3)) % TwoTo[size]))

\* Jcc: to the address if the condition is not zero.
Jump(m, condition, address) == IF condition # 0 THEN Leave(m, address) ELSE Proceed(m)

ConditionalBranch(m, i) ==
  /\ i.opcode = "kBCond"
  /\ Jump(m, ConditionHolds(m.f, i.cc), pc + Get(m, i, 0))

\* Unkn and Sys are left to the user of the interpreter, and Nop does nothing.
ExceptionGeneration(m, i) ==
  /\ i.opcode \in {"kSvc", "kHvc", "kSmc", "kBrk", "kHlt", "kDcps1", "kDcps2", "kDcps3"}
  /\ Proceed(m)
System(m, i) ==
  /\ i.opcode \in {"kHint", "kSys", "kMsr", "kSysl", "kMrs"}
  /\ Proceed(m)

\* BLR has written x30 when it reads its target.
BranchRegister(m, i) ==
  \/ i.opcode \in {"kBr", "kRet"} /\ Leave(m, Get(m, i, 0))
  \/ /\ i.opcode = "kBlr"
     /\ LET linked == SetRegister(m, 30, pc + InstructionBytes)
        IN  Leave(linked, Get(linked, i, 0))
  \/ i.opcode \in {"kEret", "kDrps"} /\ Proceed(m)

BranchImmediate(m, i) ==
  \/ i.opcode = "kB" /\ Leave(m, pc + Get(m, i, 0))
  \/ /\ i.opcode = "kBl"
     /\ Leave(SetRegister(m, 30, pc + InstructionBytes), pc + Get(m, i, 0))

CompareAndBranch(m, i) ==
  /\ i.opcode \in {"kCbz", "kCbnz"}
  /\ LET value == Get(m, i, 0)
     IN  Jump(m, IF i.opcode = "kCbz" THEN Bisz(value) ELSE value, pc + Get(m, i, 1))

TestAndBranch(m, i) ==
  /\ i.opcode \in {"kTbz", "kTbnz"}
  /\ LET value == And(Get(m, i, 0), Lshl(1, Get(m, i, 1), X), X)
     IN  Jump(m, IF i.opcode = "kTbz" THEN Bisz(value) ELSE value, pc + Get(m, i, 2))

\* A register or two from memory, extended by Extended.
LoadPair(m, i, Extended(_)) ==
  LET values == Unpack(Get(m, i, 2), SizeOf(i, 0))
      first == Set(After(m, i, 2), i, 0, Extended(values[1]))
  IN  Proceed(Set(first, i, 1, Extended(values[2])))
Load(m, i) == Proceed(Set(After(m, i, 1), i, 0, Get(m, i, 1)))
Signed(m, i, size) == 
  Proceed(Set(After(m, i, 1), i, 0, Sex(Get(m, i, 1), SizeOf(i, 1), size)))
Same(value) == value

\* CAS jumps over its store; with kMinimalBranches it stores what it has read.
CompareAndSwap(m, i) ==
  LET tmp1 == Get(m, i, 2)
      equal == Get(m, i, 0) = tmp1
      stored == Set(m, i, 2, Get(m, i, 1))
  IN  Proceed(IF minimal
              THEN Set(m, i, 2, IF equal THEN Get(m, i, 1) ELSE tmp1)
              ELSE Execute(<<Jcc(~equal, 0), Piece(stored), Nop(0)>>, m))

\* Nothing else runs: an exclusive store succeeds, and says so first.
LoadStoreExclusive(m, i) ==
  LET told == Set(m, i, 0, 0)
  IN  \/ i.opcode = "kCas" /\ CompareAndSwap(m, i)
      \/ i.opcode \in {"kLdxr", "kLdar"} /\ Load(m, i)
      \/ i.opcode = "kLdxp" /\ LoadPair(m, i, Same)
      \/ i.opcode = "kStlr" /\ Proceed(Set(m, i, 1, Get(m, i, 0)))
      \/ i.opcode = "kStxr" /\ Proceed(Set(told, i, 2, Get(told, i, 1)))
      \/ /\ i.opcode = "kStxp"
         /\ Proceed(Set(told, i, 3, Pack(<<Get(told, i, 1), Get(told, i, 2)>>, SizeOf(i, 1))))

LoadLiteral(m, i) ==
  \/ i.opcode = "kLdrLiteral" /\ Load(m, i)
  \/ i.opcode = "kLdrsLiteral" /\ Signed(m, i, X)
  \/ i.opcode = "kPrfmLiteral" /\ Proceed(m)

LoadStorePair(m, i) ==
  \/ i.opcode = "kLdp" /\ LoadPair(m, i, Same)
  \/ i.opcode = "kLdpsw" /\ LoadPair(m, i, LAMBDA value : Sex(value, W, X))
  \/ i.opcode = "kStp" /\ Proceed(Set(m, i, 2, Pack(<<Get(m, i, 0), Get(m, i, 1)>>, SizeOf(i, 0))))

LoadOrStore(m, i) ==
  \/ i.opcode = "kLdr" /\ Load(m, i)
  \/ i.opcode = "kLdrs" /\ Signed(m, i, SizeOf(i, 0))
  \/ i.opcode = "kStr" /\ Proceed(Set(m, i, 1, Get(m, i, 0)))
  \/ i.opcode = "kPrfm" /\ Proceed(m)

DataProcessingTwoSource(m, i) ==
  LET size == SizeOf(i, 1)
      lhs == Get(m, i, 1)
      rhs == Get(m, i, 2)
      count == rhs % size
      result ==
        CASE i.opcode = "kUdiv" -> Div(lhs, rhs)
          [] i.opcode = "kSdiv" -> Sdiv(lhs, rhs, size)
          [] i.opcode = "kLsl"  -> Lshl(lhs, count, size)
          [] i.opcode = "kLsr"  -> Lshr(lhs, count)
          [] i.opcode = "kAsr"  -> Ashr(lhs, count, size)
          [] i.opcode = "kRor"  -> Or(Lshr(lhs, count), Lshl(lhs, size - count, size), size)
  IN  \/ /\ i.opcode \in {"kUdiv", "kSdiv", "kLsl", "kLsr", "kAsr", "kRor"}
         /\ Proceed(Set(m, i, 0, result))
      \/ i.opcode = "kPacga" /\ Proceed(m)

\* The bytes of an element of so many, the other way round: with masks for REV16 and
\* REV32, one after the other for REV.
Reversed(value, size, bytes) ==
  MapThenSumSet(LAMBDA k :
      LET mirrored == bytes * (k \div bytes) + bytes - 1 - (k % bytes)
      IN  ((value \div TwoTo[Byte * k]) % TwoTo[Byte]) * TwoTo[Byte * mirrored],
    0 .. size \div Byte - 1)

DataProcessingOneSource(m, i) ==
  LET size == SizeOf(i, 1)
      value == Get(m, i, 1)
      result ==
        CASE i.opcode = "kRbit"  -> MapThenSumSet(LAMBDA k : Bit(value, k) * TwoTo[size - 1 - k],
                                                  0 .. size - 1)
          [] i.opcode = "kRev16" -> Reversed(value, size, 2)
          [] i.opcode = "kRev32" -> Reversed(value, size, 4)
          [] i.opcode = "kRev"   -> Reversed(value, size, size \div Byte)
          [] i.opcode = "kClz"   -> CountLeadingZeroBits(value, size)
          [] i.opcode = "kCls"   -> CountLeadingSignBits(value, size)
  IN  \/ /\ i.opcode \in {"kRbit", "kRev16", "kRev32", "kRev", "kClz", "kCls"}
         /\ Proceed(Set(m, i, 0, result))
      \/ i.opcode = "kPacia" /\ Proceed(m)

LogicalShiftedRegister(m, i) ==
  /\ i.opcode \in {"kAnd", "kBic", "kOrr", "kOrn", "kEor", "kEon"}
  /\ LET size == SizeOf(i, 1)
         lhs == Get(m, i, 1)
         rhs == ApplyShift(Op(i, 3), Get(m, i, 2), size)
         result == CASE i.opcode = "kAnd" -> And(lhs, rhs, size)
                     [] i.opcode = "kBic" -> And(lhs, Not(rhs, size), size)
                     [] i.opcode = "kOrr" -> Or(lhs, rhs, size)
                     [] i.opcode = "kOrn" -> Or(lhs, Not(rhs, size), size)
                     [] i.opcode = "kEor" -> Xor(lhs, rhs, size)
                     [] i.opcode = "kEon" -> Xor(lhs, Not(rhs, size), size)
     IN  Proceed(Set(SetFlags(m, i, LogicalFlags(result, size)), i, 0, result))

AddSubtractShiftedRegister(m, i) ==
  /\ i.opcode \in {"kAddShiftedRegister", "kSubShiftedRegister"}
  /\ AddSubtract(m, i, i.opcode = "kSubShiftedRegister",
                 ApplyShift(Op(i, 3), Get(m, i, 2), SizeOf(i, 1)))

AddSubtractExtendedRegister(m, i) ==
  /\ i.opcode \in {"kAddExtendedRegister", "kSubExtendedRegister"}
  /\ AddSubtract(m, i, i.opcode = "kSubExtendedRegister",
                 ApplyExtend(Op(i, 3), Get(m, i, 2) % TwoTo[SizeOf(i, 1)], SizeOf(i, 1)))

AddSubtractWithCarry(m, i) ==
  /\ i.opcode \in {"kAdc", "kSbc"}
  /\ LET size == SizeOf(i, 1)
         rhs == Get(m, i, 2)
         sum == AddWithCarry(Get(m, i, 1), IF i.opcode = "kSbc" THEN Not(rhs, size) ELSE rhs,
                             m.f.c, size)
     IN  Proceed(Set(SetFlags(m, i, sum.flags), i, 0, sum.result))

\* With kMinimalBranches the condition is kept before the flags are written one by one.
ConditionalCompare(m, i) ==
  /\ i.opcode \in {"kCcmn", "kCcmp"}
  /\ LET size == SizeOf(i, 0)
         lhs == Get(m, i, 0)
         rhs == Get(m, i, 1)
         nzcv == Op(i, 2).value
         otherwise == Nzcv(Bit(nzcv, 3), Bit(nzcv, 2), Bit(nzcv, 1), Bit(nzcv, 0))
         compared == IF i.opcode = "kCcmn" THEN AddWithCarry(lhs, Not(rhs, size), 1, size)
                                           ELSE AddWithCarry(lhs, rhs, 0, size)
         holds == ConditionHolds(m.f, i.cc) # 0
         code == <<Jcc(holds, 0), Piece(otherwise), Jcc(TRUE, 1),
                   Nop(0), Piece(compared.flags), Nop(1)>>
     IN  Proceed([m EXCEPT !.f = IF minimal
                                 THEN IF holds THEN compared.flags ELSE otherwise
                                 ELSE Execute(code, m.f)])

ConditionalSelect(m, i) ==
  /\ i.opcode \in {"kCsel", "kCsinc", "kCsinv", "kCsneg"}
  /\ LET size == SizeOf(i, 2)
         rhs == Get(m, i, 2)
         changed == CASE i.opcode = "kCsel"  -> rhs
                      [] i.opcode = "kCsinc" -> (rhs + 1) % TwoTo[size]
                      [] i.opcode = "kCsinv" -> Not(rhs, size)
                      [] i.opcode = "kCsneg" -> (Not(rhs, size) + 1) % TwoTo[size]
     IN  Proceed(Set(m, i, 0, IF ConditionHolds(m.f, i.cc) # 0 THEN Get(m, i, 1) ELSE changed))

\* A difference is kept as it is until it is stored, modulo the size of the register.
DataProcessingThreeSource(m, i) ==
  /\ i.opcode \in {"kMadd", "kMsub", "kSmaddl", "kSmsubl", "kSmulh", "kUmaddl", "kUmsubl", "kUmulh"}
  /\ LET size == SizeOf(i, 1)
         a == Get(m, i, 1)
         b == Get(m, i, 2)
         c == Get(m, i, 3)
         result == CASE i.opcode \in {"kMadd", "kUmaddl"} -> c + Mul(a, b, 2 * size)
                     [] i.opcode \in {"kMsub", "kUmsubl"} -> c - Mul(a, b, 2 * size)
                     [] i.opcode = "kSmaddl" -> c + Smul(a, b, size)
                     [] i.opcode = "kSmsubl" -> c - Smul(a, b, size)
                     [] i.opcode = "kSmulh"  -> Lshr(Smul(a, b, size), X)
                     [] i.opcode = "kUmulh"  -> Lshr(Mul(a, b, 2 * size), X)
     IN  Proceed(Set(m, i, 0, result % TwoTo[SizeOf(i, 0)]))

\* Everything else, CASP among it, is one Unkn.
Unknown(m, i) == i.opcode \in {"kUnallocated", "kCasp"} /\ Proceed(m)

-----------------------------------------------------------------------------
\* The emulator: the constructor, then what its user sets before it steps.
Init ==
  /\ \E k \in DOMAIN Starts :
       /\ program \in Starts[k].programs /\ minimal \in Starts[k].minimal
       /\ registers \in Starts[k].registers /\ flags \in Starts[k].flags
       /\ pc = Starts[k].pc
  /\ memory \in Contents

Translate(m, i) ==
  \/ PcRelativeAddressing(m, i) \/ AddSubtractImmediate(m, i) \/ LogicalImmediate(m, i)
  \/ MoveWideImmediate(m, i) \/ Bitfield(m, i) \/ Extract(m, i)
  \/ ConditionalBranch(m, i) \/ ExceptionGeneration(m, i) \/ System(m, i)
  \/ BranchRegister(m, i) \/ BranchImmediate(m, i) \/ CompareAndBranch(m, i)
  \/ TestAndBranch(m, i) \/ LoadStoreExclusive(m, i) \/ LoadLiteral(m, i)
  \/ LoadStorePair(m, i) \/ LoadOrStore(m, i) \/ DataProcessingTwoSource(m, i)
  \/ DataProcessingOneSource(m, i) \/ LogicalShiftedRegister(m, i)
  \/ AddSubtractShiftedRegister(m, i) \/ AddSubtractExtendedRegister(m, i)
  \/ AddSubtractWithCarry(m, i) \/ ConditionalCompare(m, i) \/ ConditionalSelect(m, i)
  \/ DataProcessingThreeSource(m, i) \/ Unknown(m, i)

\* The program is apart from the memory it loads from and stores to.
SingleStep ==
  /\ pc \in DOMAIN program
  /\ Translate(Machine, DecodeInstruction(program[pc]))
  /\ UNCHANGED <<program, minimal>>

Spec == Init /\ [][SingleStep]_vars
=============================================================================
