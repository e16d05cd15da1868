------------------------------- MODULE Decoder -------------------------------
(***************************************************************************)
(* reil/aarch64/decoder.cpp: from the fields of an instruction word to an   *)
(* opcode and its operands.  A word is a record of its class and the fields *)
(* the decoder of the class takes out of it, with their names in the code   *)
(* or, where they have none, in the Arm manual.  A64 alone: no SIMD.        *)
(*                                                                         *)
(* Sizes are multiples of Byte and keep their ratios when Byte is small.    *)
(***************************************************************************)
EXTENDS Numerals, Sequences

CONSTANTS Byte,          \* bits of a byte: 8
          OffsetBits,    \* bits of a signed field: 7, 9, 14, 19 or 26
          PageBits       \* 12

H == 2 * Byte
W == 4 * Byte
X == 8 * Byte
Size(sf) == IF sf = 1 THEN X ELSE W

\* A signed field, as the number it stands for: Immediate takes it modulo 2 ^ size.
sign_extend_bits(field) ==
  IF field >= TwoTo[OffsetBits - 1] THEN field - TwoTo[OffsetBits] ELSE field

kXzr == 31
kSp == 32
kPc == 33

Immediate(size, value) == [kind |-> "Immediate", size |-> size, value |-> value % TwoTo[size]]
Register(size, name) == [kind |-> "Register", size |-> size, name |-> name]
x(size, field) == Register(size, field)
x_or_sp(size, field) == Register(size, IF field = 31 THEN kSp ELSE field)
Shift(type, count) == [kind |-> "Shift", type |-> type, count |-> count]
NoShift == Shift("None", 0)
Extend(type, count) == [kind |-> "Extend", type |-> type, count |-> count]
ImmediateOffset(base, offset, size, writeback, post_index) ==
  [kind |-> "ImmediateOffset", base |-> base, offset |-> offset, size |-> size,
   writeback |-> writeback, post_index |-> post_index]
RegisterOffset(base, offset, extend, size) ==
  [kind |-> "RegisterOffset", base |-> base, offset |-> offset, extend |-> extend,
   size |-> size, writeback |-> FALSE, post_index |-> FALSE]

insn(opcode, set_flags, operands) ==
  [opcode |-> opcode, set_flags |-> set_flags, operands |-> operands, cc |-> 14]
With(cc, i) == [i EXCEPT !.cc = cc]
UnallocatedEncoding == insn("kUnallocated", FALSE, <<>>)

\* Repeats imms + 1 bits of 1, rotated by immr, in elements of a power of two bits:
\* <<wmask, tmask>>.
decode_bit_masks(immN, imms, immr) ==
  LET halve[e \in 1 .. W] ==
        IF e >= 2 /\ (imms \div e) % 2 = 1 THEN halve[e \div 2] ELSE e
      element_size == IF immN = 1 THEN X ELSE halve[W]
      s == imms % element_size
      r == immr % element_size
      d == (s - r) % element_size
      ones == TwoTo[s + 1] - 1
      welement == (ones \div TwoTo[r]) + ((ones * TwoTo[element_size - r]) % TwoTo[element_size])
      Repeat(v) == v * ((TwoTo[X] - 1) \div (TwoTo[element_size] - 1))
  IN  <<Repeat(IF r = 0 THEN ones ELSE welement), Repeat(TwoTo[d + 1] - 1)>>
DecodeBitMasks(size, imms, immr) == decode_bit_masks(IF size = X THEN 1 ELSE 0, imms, immr)

-----------------------------------------------------------------------------
(* Immediates.                                                              *)

DecodePcRelativeAddressing(w) ==
  insn(IF w.op = 1 THEN "kAdrp" ELSE "kAdr", FALSE,
       <<x(X, w.d), Immediate(X, sign_extend_bits(w.immhi) * 4 + w.immlo),
         IF w.op = 1 THEN Shift("Lsl", PageBits) ELSE NoShift>>)

DecodeAddSubtractImmediate(w) ==
  LET size == Size(w.sf)
  IN  insn(IF w.op = 1 THEN "kSubImmediate" ELSE "kAddImmediate", w.S = 1,
           <<IF w.S = 1 THEN x(size, w.d) ELSE x_or_sp(size, w.d),
             x_or_sp(size, w.n), Immediate(size, w.imm),
             IF w.shift = 1 THEN Shift("Lsl", PageBits) ELSE NoShift>>)

DecodeLogicalImmediate(w) ==
  LET size == Size(w.sf)
      opcode == <<"kAndImmediate", "kOrrImmediate", "kEorImmediate", "kAndImmediate">>
  IN  insn(opcode[w.opc + 1], w.opc = 3,
           <<IF w.opc = 3 THEN x(size, w.d) ELSE x_or_sp(size, w.d), x(size, w.n),
             Immediate(size, decode_bit_masks(w.N, w.imms, w.immr)[1])>>)

DecodeMoveWideImmediate(w) ==
  IF H * w.hw >= Size(w.sf) \/ w.opc = 1 THEN UnallocatedEncoding
  ELSE insn(<<"kMovn", "", "kMovz", "kMovk">>[w.opc + 1], FALSE,
            <<x(Size(w.sf), w.d), Immediate(Size(w.sf), w.imm), Shift("Lsl", H * w.hw)>>)

DecodeBitfield(w) ==
  IF w.N # w.sf \/ w.opc = 3 THEN UnallocatedEncoding
  ELSE insn(<<"kSbfm", "kBfm", "kUbfm">>[w.opc + 1], FALSE,
            <<x(Size(w.sf), w.d), x(Size(w.sf), w.n),
              Immediate(Size(w.sf), w.immr), Immediate(Size(w.sf), w.imms)>>)

DecodeExtract(w) ==
  IF w.N # w.sf THEN UnallocatedEncoding
  ELSE insn("kExtr", FALSE, <<x(Size(w.sf), w.d), x(Size(w.sf), w.n),
                              x(Size(w.sf), w.m), Immediate(X, w.imms)>>)

-----------------------------------------------------------------------------
(* Branches, exceptions, system.                                            *)

DecodeConditionalBranch(w) ==
  IF w.o1 = 1 \/ w.o0 = 1 THEN UnallocatedEncoding
  ELSE With(w.cond, insn("kBCond", FALSE, <<Immediate(X, sign_extend_bits(w.imm) * 4)>>))

DecodeExceptionGeneration(w) ==
  LET opcode == CASE w.opc = 0 /\ w.ll # 0 -> <<"kSvc", "kHvc", "kSmc">>[w.ll]
                  [] w.opc = 1 /\ w.ll = 0 -> "kBrk"
                  [] w.opc = 2 /\ w.ll = 0 -> "kHlt"
                  [] w.opc = 5 /\ w.ll # 0 -> <<"kDcps1", "kDcps2", "kDcps3">>[w.ll]
                  [] OTHER                 -> "kUnallocated"
  IN  IF w.op2 # 0 \/ opcode = "kUnallocated" THEN UnallocatedEncoding
      ELSE insn(opcode, FALSE, <<Immediate(W, w.imm)>>)

\* kHint stands for all the hints and barriers; an instruction that no case has given
\* an opcode has kUnallocated as well.
DecodeSystem(w) ==
  LET Immediately == w.op1 * 8 + w.op2 \in {5, 30, 31, 3, 4}
      opcode ==
        CASE w.l = 0 /\ w.op0 = 0 /\ w.crn = 4 /\ w.rt = 31 ->
               IF Immediately THEN "kMsr" ELSE "kUnallocated"
          [] w.l = 0 /\ w.op0 = 0 /\ ~(w.crn = 4 /\ w.rt = 31) ->
               IF w.op1 = 3 /\ (w.crn = 2 \/ (w.crn = 3 /\ w.op2 \in {2, 4, 5, 6}))
               THEN "kHint" ELSE "kUnallocated"
          [] w.l = 0 /\ w.op0 = 1 -> "kSys"
          [] w.l = 0 /\ w.op0 > 1 -> "kMsr"
          [] w.l = 1 /\ w.op0 = 1 -> "kSysl"
          [] w.l = 1 /\ w.op0 > 1 -> "kMrs"
          [] OTHER                -> "kUnallocated"
  IN  insn(opcode, FALSE, <<>>)

\* The jumps that authenticate a pointer; BLRAAZ and BLRABZ end up as kBlr.
DecodeBranchRegister(w) ==
  LET Zero == w.op3 \in {2, 3} /\ w.op4 = 31
      Plain(kind) == IF w.op3 = 0 \/ Zero THEN kind ELSE "kUnallocated"
      opcode == CASE w.opc = 0 -> Plain("kBr")
                  [] w.opc = 1 -> Plain("kBlr")
                  [] w.opc = 2 -> Plain("kRet")
                  [] w.opc = 4 -> Plain("kEret")
                  [] w.opc = 5 -> "kDrps"
                  [] w.opc = 8 -> IF w.op3 # 0 THEN "kBr" ELSE "kUnallocated"
                  [] w.opc = 9 -> IF w.op3 # 0 THEN "kBlr" ELSE "kUnallocated"
                  [] OTHER     -> "kUnallocated"
  IN  IF w.op2 # 31 \/ w.op3 \notin {0, 2, 3} \/ opcode = "kUnallocated"
      THEN UnallocatedEncoding ELSE insn(opcode, FALSE, <<x(X, w.n)>>)

DecodeBranchImmediate(w) ==
  insn(IF w.op = 1 THEN "kBl" ELSE "kB", FALSE,
       <<Immediate(X, sign_extend_bits(w.imm) * 4)>>)

DecodeCompareAndBranch(w) ==
  insn(IF w.op = 0 THEN "kCbz" ELSE "kCbnz", FALSE,
       <<x(Size(w.sf), w.t), Immediate(X, sign_extend_bits(w.imm) * 4)>>)

\* bit 31 is both the size of the register and the high bit of the bit's number.
DecodeTestAndBranch(w) ==
  insn(IF w.op = 0 THEN "kTbz" ELSE "kTbnz", FALSE,
       <<x(Size(w.sf), w.t), Immediate(X, w.sf * W + w.b40),
         Immediate(X, sign_extend_bits(w.imm) * 4)>>)

-----------------------------------------------------------------------------
(* Loads and stores.                                                        *)

At(base, offset, size) == ImmediateOffset(base, Immediate(X, offset), size, FALSE, FALSE)

DecodeLoadStoreExclusive(w) ==
  LET size == Byte * TwoTo[w.size]
      Kind(single, pair) == IF w.o1 = 0 THEN single ELSE IF size < W THEN "kCasp" ELSE pair
      opcode == IF w.o2 = 0 THEN IF w.l = 0 THEN Kind("kStxr", "kStxp")
                                             ELSE Kind("kLdxr", "kLdxp")
                ELSE IF w.o1 = 1 THEN "kCas" ELSE IF w.l = 0 THEN "kStlr" ELSE "kLdar"
      status == IF opcode \in {"kStxr", "kStxp"} THEN <<x(W, w.s)>>
                ELSE IF opcode = "kCas" THEN <<x(size, w.s)>> ELSE <<>>
      pair == opcode \in {"kLdxp", "kStxp"}
  IN  insn(opcode, FALSE,
           status \o <<x(size, w.t)>> \o (IF pair THEN <<x(size, w.t2)>> ELSE <<>>)
           \o <<At(x_or_sp(X, w.n), 0, IF pair THEN size * 2 ELSE size)>>)

DecodeLoadLiteral(w) ==
  LET size == IF w.opc \in {0, 2} THEN W ELSE X
      opcode == <<"kLdrLiteral", "kLdrLiteral", "kLdrsLiteral", "kPrfmLiteral">>[w.opc + 1]
  IN  insn(opcode, FALSE,
           <<IF w.opc = 3 THEN Immediate(Byte, 0) ELSE x(IF w.opc = 0 THEN W ELSE X, w.t),
             At(Register(X, kPc), sign_extend_bits(w.imm) * 4, size)>>)

\* op3 and bits 10 and 11 of a load or store: 1 is post-indexed, 3 is pre-indexed.
Indexed(base, offset, size, mode) ==
  ImmediateOffset(base, Immediate(X, offset), size, mode \in {1, 3}, mode = 1)

DecodeLoadStorePair(w) ==
  LET size == IF w.opc >= 2 THEN X ELSE W
      opcode == IF w.load = 0 THEN "kStp"
                ELSE IF w.opc = 1 /\ w.op3 # 0 THEN "kLdpsw" ELSE "kLdp"
      offset == sign_extend_bits(w.imm) * (IF w.opc >= 2 THEN 8 ELSE 4)
  IN  IF w.opc = 3 \/ (w.opc = 1 /\ w.load = 0) THEN UnallocatedEncoding
      ELSE insn(opcode, FALSE, <<x(size, w.t), x(size, w.t2),
                                 Indexed(x_or_sp(X, w.n), offset, size * 2, w.op3)>>)

\* DecodeLoadStoreOpcode and the address that comes behind what is transferred.
LoadStore(w, address) ==
  LET Narrow(size) == IF size < X THEN W ELSE X
      size == Byte * TwoTo[w.size]
  IN  CASE w.opc = 0 -> insn("kStr", FALSE, <<x(Narrow(size), w.t), address>>)
        [] w.opc = 1 -> insn("kLdr", FALSE, <<x(Narrow(size), w.t), address>>)
        [] w.opc = 2 -> IF size = X
                        THEN insn("kPrfm", FALSE, <<Immediate(Byte, w.t), address>>)
                        ELSE insn("kLdrs", FALSE, <<x(X, w.t), address>>)
        [] w.opc = 3 -> insn("kLdrs", FALSE, <<x(W, w.t), address>>)

\* The unscaled and the unprivileged forms have opcodes of their own and the same
\* effect.
DecodeLoadStoreUnscaledImmediate(w) ==
  LoadStore(w, Indexed(x_or_sp(X, w.n), sign_extend_bits(w.imm), Byte * TwoTo[w.size], w.mode))

DecodeLoadStoreRegisterOffset(w) ==
  LET count == IF w.S = 1 THEN w.size ELSE 0
      type == CASE w.option = 2 -> "Uxtw" [] w.option = 3 -> "Lsl"
                [] w.option = 6 -> "Sxtw" [] w.option = 7 -> "Sxtx"
  IN  IF w.option \notin {2, 3, 6, 7} THEN UnallocatedEncoding
      ELSE LoadStore(w, RegisterOffset(x_or_sp(X, w.n), x(X, w.m), Extend(type, count),
                                       Byte * TwoTo[w.size]))

DecodeLoadStoreUnsignedImmediate(w) ==
  LoadStore(w, At(x_or_sp(X, w.n), w.imm * TwoTo[w.size], Byte * TwoTo[w.size]))

-----------------------------------------------------------------------------
(* Registers.                                                               *)

Three(w, size) == <<x(size, w.d), x(size, w.n), x(size, w.m)>>

\* kPacga stands for PACGA and CRC32.
DecodeDataProcessingTwoSource(w) ==
  LET opcode == CASE w.opc \in {2, 3}   -> <<"kUdiv", "kSdiv">>[w.opc - 1]
                  [] w.opc \in 8 .. 11  -> <<"kLsl", "kLsr", "kAsr", "kRor">>[w.opc - 7]
                  [] w.opc \in {12} \cup (16 .. 23) -> "kPacga"
                  [] OTHER              -> "kUnallocated"
  IN  IF w.S = 1 \/ opcode = "kUnallocated" THEN UnallocatedEncoding
      ELSE insn(opcode, FALSE, Three(w, Size(w.sf)))

\* kPacia stands for the instructions that sign, authenticate or strip pointers.
DecodeDataProcessingOneSource(w) ==
  LET opcode ==
        CASE w.opc2 = 0 /\ w.opc <= 5 ->
               <<"kRbit", "kRev16", IF w.sf = 1 THEN "kRev32" ELSE "kRev",
                 IF w.sf = 1 THEN "kRev" ELSE "kUnallocated", "kClz", "kCls">>[w.opc + 1]
          [] w.opc2 = 1 /\ w.sf = 1 /\ w.opc <= 17
                        /\ ((w.opc \div 8) % 4 # 0 => w.n = 31) -> "kPacia"
          [] OTHER -> "kUnallocated"
  IN  IF w.S = 1 \/ opcode = "kUnallocated" THEN UnallocatedEncoding
      ELSE insn(opcode, FALSE, <<x(Size(w.sf), w.d), x(Size(w.sf), w.n)>>)

Shifts == <<"Lsl", "Lsr", "Asr", "Ror">>

DecodeLogicalShiftedRegister(w) ==
  LET opcode == <<"kAnd", "kBic", "kOrr", "kOrn", "kEor", "kEon", "kAnd", "kBic">>
  IN  insn(opcode[w.opc * 2 + w.N + 1], w.opc = 3,
           Three(w, Size(w.sf)) \o <<Shift(Shifts[w.shift + 1], w.imm)>>)

\* A shift by exactly the size is let through.
DecodeAddSubtractShiftedRegister(w) ==
  IF w.shift = 3 \/ w.imm > Size(w.sf) THEN UnallocatedEncoding
  ELSE insn(IF w.op = 1 THEN "kSubShiftedRegister" ELSE "kAddShiftedRegister", w.S = 1,
            Three(w, Size(w.sf)) \o <<Shift(Shifts[w.shift + 1], w.imm)>>)

DecodeAddSubtractExtendedRegister(w) ==
  LET size == Size(w.sf)
      d == IF w.S = 1 THEN x(size, w.d) ELSE x_or_sp(size, w.d)
      n == x_or_sp(size, w.n)
      types == <<"Uxtb", "Uxth", IF kSp \in {d.name, n.name} THEN "Lsl" ELSE "Uxtw", "Uxtx",
                 "Sxtb", "Sxth", "Sxtw", "Sxtx">>
      m == x(IF w.option \in {3, 7} THEN size ELSE W, w.m)
  IN  IF w.opt # 0 \/ w.imm > 4 THEN UnallocatedEncoding
      ELSE insn(IF w.op = 1 THEN "kSubExtendedRegister" ELSE "kAddExtendedRegister",
                w.S = 1, <<d, n, m, Extend(types[w.option + 1], w.imm)>>)

DecodeAddSubtractWithCarry(w) ==
  IF w.opcode2 # 0 THEN UnallocatedEncoding
  ELSE insn(IF w.op = 1 THEN "kSbc" ELSE "kAdc", w.S = 1, Three(w, Size(w.sf)))

\* kCcmn is the one with bit 30, which is CCMP; the translator swaps them back.
DecodeConditionalCompare(w) ==
  With(w.cond,
       insn(IF w.op = 1 THEN "kCcmn" ELSE "kCcmp", FALSE,
            <<x(Size(w.sf), w.n),
              IF w.immediate = 1 THEN Immediate(Size(w.sf), w.m) ELSE x(Size(w.sf), w.m),
              Immediate(8, w.nzcv)>>))

DecodeConditionalSelect(w) ==
  IF w.S = 1 \/ w.op2 > 1 THEN UnallocatedEncoding
  ELSE With(w.cond, insn(<<"kCsel", "kCsinc", "kCsinv", "kCsneg">>[w.op * 2 + w.op2 + 1],
                         FALSE, Three(w, Size(w.sf))))

DecodeDataProcessingThreeSource(w) ==
  LET kind == w.op31 * 2 + w.o0
      long == kind \in {2, 3, 10, 11}
      opcode == CASE kind \in 0 .. 3              -> <<"kMadd", "kMsub", "kSmaddl", "kSmsubl">>[kind + 1]
                  [] kind \in {4, 5} /\ w.sf = 1   -> "kSmulh"
                  [] kind \in {10, 11}             -> <<"kUmaddl", "kUmsubl">>[kind - 9]
                  [] kind \in {12, 13} /\ w.sf = 1 -> "kUmulh"
                  [] OTHER                         -> "kUnallocated"
      d == IF long THEN X ELSE Size(w.sf)
      n == IF long THEN W ELSE Size(w.sf)
  IN  IF w.op54 # 0 \/ opcode = "kUnallocated" THEN UnallocatedEncoding
      ELSE insn(opcode, FALSE, <<x(d, w.d), x(n, w.n), x(n, w.m), x(d, w.a)>>)

-----------------------------------------------------------------------------
DecodeInstruction(w) ==
  CASE w.class = "PcRelativeAddressing"         -> DecodePcRelativeAddressing(w)
    [] w.class = "AddSubtractImmediate"         -> DecodeAddSubtractImmediate(w)
    [] w.class = "LogicalImmediate"             -> DecodeLogicalImmediate(w)
    [] w.class = "MoveWideImmediate"            -> DecodeMoveWideImmediate(w)
    [] w.class = "Bitfield"                     -> DecodeBitfield(w)
    [] w.class = "Extract"                      -> DecodeExtract(w)
    [] w.class = "ConditionalBranch"            -> DecodeConditionalBranch(w)
    [] w.class = "ExceptionGeneration"          -> DecodeExceptionGeneration(w)
    [] w.class = "System"                       -> DecodeSystem(w)
    [] w.class = "BranchRegister"               -> DecodeBranchRegister(w)
    [] w.class = "BranchImmediate"              -> DecodeBranchImmediate(w)
    [] w.class = "CompareAndBranch"             -> DecodeCompareAndBranch(w)
    [] w.class = "TestAndBranch"                -> DecodeTestAndBranch(w)
    [] w.class = "LoadStoreExclusive"           -> DecodeLoadStoreExclusive(w)
    [] w.class = "LoadLiteral"                  -> DecodeLoadLiteral(w)
    [] w.class = "LoadStorePair"                -> DecodeLoadStorePair(w)
    [] w.class = "LoadStoreUnscaledImmediate"   -> DecodeLoadStoreUnscaledImmediate(w)
    [] w.class = "LoadStoreRegisterOffset"      -> DecodeLoadStoreRegisterOffset(w)
    [] w.class = "LoadStoreUnsignedImmediate"   -> DecodeLoadStoreUnsignedImmediate(w)
    [] w.class = "DataProcessingTwoSource"      -> DecodeDataProcessingTwoSource(w)
    [] w.class = "DataProcessingOneSource"      -> DecodeDataProcessingOneSource(w)
    [] w.class = "LogicalShiftedRegister"       -> DecodeLogicalShiftedRegister(w)
    [] w.class = "AddSubtractShiftedRegister"   -> DecodeAddSubtractShiftedRegister(w)
    [] w.class = "AddSubtractExtendedRegister"  -> DecodeAddSubtractExtendedRegister(w)
    [] w.class = "AddSubtractWithCarry"         -> DecodeAddSubtractWithCarry(w)
    [] w.class = "ConditionalCompare"           -> DecodeConditionalCompare(w)
    [] w.class = "ConditionalSelect"            -> DecodeConditionalSelect(w)
    [] w.class = "DataProcessingThreeSource"    -> DecodeDataProcessingThreeSource(w)
    [] OTHER                                    -> UnallocatedEncoding
=============================================================================
