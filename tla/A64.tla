--------------------------------- MODULE A64 ---------------------------------
(***************************************************************************)
(* What the instructions of the A64 instruction set do, stated without      *)
(* decoding into operands and without REIL: registers hold numbers, and     *)
(* what is logical is said of the set of bits of a number.  A reference for *)
(* the emulator, restricted to what src/reil/aarch64 sets out to translate; *)
(* Exceptions below are the places where it knowingly says less or other    *)
(* than the Arm manual.                                                     *)
(***************************************************************************)
EXTENDS Numerals, Sequences, FiniteSets, FiniteSetsExt

CONSTANTS Byte, OffsetBits, PageBits, InstructionBytes
VARIABLES program, registers, flags, memory, pc
vars == <<program, registers, flags, memory, pc>>

Word == 4 * Byte
Double == 8 * Byte
Datasize(w) == IF w.sf = 1 THEN Double ELSE Word
SP == 32

\* Numbers of n bits.
Modulus(n) == TwoTo[n]
BitsOf(v) == {k \in 0 .. 2 * Double - 1 : (v \div TwoTo[k]) % 2 = 1}
NumberOf(S) == MapThenSumSet(LAMBDA k : TwoTo[k], S)
All(n) == 0 .. n - 1
Signed(v, n) == IF v >= TwoTo[n - 1] THEN v - TwoTo[n] ELSE v
Signedly(z, n) == -(TwoTo[n - 1]) <= z /\ z < TwoTo[n - 1]
Offset(field) == Signed(field, OffsetBits)
Logical(op, a, b, n) ==
  NumberOf(CASE op = "and" -> BitsOf(a) \cap BitsOf(b)
           [] op = "orr" -> BitsOf(a) \cup BitsOf(b)
           [] op = "eor" -> (BitsOf(a) \cup BitsOf(b)) \ (BitsOf(a) \cap BitsOf(b)))
Inverted(v, n) == NumberOf(All(n) \ BitsOf(v))
Rotated(v, count, n) == NumberOf({(k - count) % n : k \in BitsOf(v)})
Shifted(kind, v, count, n) ==
  CASE kind = 0 -> (v * TwoTo[count]) % Modulus(n)
    [] kind = 1 -> v \div TwoTo[count]
    [] kind = 2 -> (Signed(v, n) \div TwoTo[count]) % Modulus(n)
    [] kind = 3 -> Rotated(v, count, n)
Extended(option, v, count, n) ==
  LET bits == Byte * TwoTo[option % 4]
      low == v % Modulus(bits)
  IN  ((IF option >= 4 THEN Signed(low, bits) ELSE low) * TwoTo[count]) % Modulus(n)

\* Register 31 is zero, or the stack pointer.
R(r, n) == IF r = 31 THEN 0 ELSE registers[r] % Modulus(n)
RorSP(r, n) == IF r = 31 THEN registers[SP] % Modulus(n) ELSE R(r, n)
Written(rs, r, v) == IF r = 31 THEN rs ELSE [rs EXCEPT ![r] = v]
OrSP(r) == IF r = 31 THEN SP ELSE r

Flag(holds) == IF holds THEN 1 ELSE 0
FlagsOf(z, n, carry, overflow) ==
  [n |-> Flag(z % Modulus(n) >= TwoTo[n - 1]), z |-> Flag(z % Modulus(n) = 0),
   c |-> Flag(carry), v |-> Flag(overflow)]
SumFlags(a, b, c, n) ==
  FlagsOf(a + b + c, n, a + b + c >= Modulus(n), ~Signedly(Signed(a, n) + Signed(b, n) + c, n))
\* The carry of a difference is the absence of a borrow.
DifferenceFlags(a, b, borrow, n) ==
  FlagsOf(a - b - borrow, n, a - b - borrow >= 0,
          ~Signedly(Signed(a, n) - Signed(b, n) - borrow, n))

Holds(cond, f) ==
  LET Even == CASE cond \div 2 = 0 -> f.z = 1
                [] cond \div 2 = 1 -> f.c = 1
                [] cond \div 2 = 2 -> f.n = 1
                [] cond \div 2 = 3 -> f.v = 1
                [] cond \div 2 = 4 -> f.c = 1 /\ f.z = 0
                [] cond \div 2 = 5 -> f.n = f.v
                [] cond \div 2 = 6 -> f.n = f.v /\ f.z = 0
                [] cond \div 2 = 7 -> TRUE
  IN  IF cond % 2 = 1 /\ cond # 15 THEN ~Even ELSE Even

-----------------------------------------------------------------------------
(* Effects.                                                                 *)

Following == (pc + InstructionBytes) % Modulus(Double)
Computes(d, v, f) ==
  /\ registers' = Written(registers, d, v) /\ flags' = f
  /\ memory' = memory /\ pc' = Following
Goes(condition, target) ==
  /\ pc' = IF condition THEN target % Modulus(Double) ELSE Following
  /\ UNCHANGED <<registers, flags, memory>>
Nothing == Goes(FALSE, 0)

Loaded(address, bytes) ==
  MapThenSumSet(LAMBDA k : memory[(address + k) % Modulus(Double)] * TwoTo[Byte * k],
                0 .. bytes - 1)
Stored(address, bytes, v) ==
  [a \in DOMAIN memory |->
     LET k == (a - address) % Modulus(Double)
     IN  IF k < bytes THEN (v \div TwoTo[Byte * k]) % Modulus(Byte) ELSE memory[a]]

-----------------------------------------------------------------------------
(* Immediates.                                                              *)

PcRelative(w) ==
  LET offset == Offset(w.immhi) * 4 + w.immlo
      target == IF w.op = 1 THEN (pc \div TwoTo[PageBits] + offset) * TwoTo[PageBits] ELSE pc + offset
  IN  Computes(w.d, target % Modulus(Double), flags)

\* Addition and subtraction of n, with the flags if S, to d or to the stack pointer.
Adds(w, a, b, d, n) ==
  LET z == IF w.op = 1 THEN a - b ELSE a + b
  IN  Computes(d, z % Modulus(n),
               IF w.S = 0 THEN flags
               ELSE IF w.op = 1 THEN DifferenceFlags(a, b, 0, n) ELSE SumFlags(a, b, 0, n))
Destination(w) == IF w.S = 1 THEN w.d ELSE OrSP(w.d)

AddSubtractImmediate(w) ==
  LET n == Datasize(w)
  IN  Adds(w, RorSP(w.n, n), (w.imm * TwoTo[PageBits * w.shift]) % Modulus(n), Destination(w), n)

LogicallyComputes(d, v, n, sets) ==
  Computes(d, v, IF sets THEN FlagsOf(v, n, FALSE, FALSE) ELSE flags)

\* A run of ones, repeated in every element and rotated in it.
Pattern(w) ==
  LET Fits(e) == IF w.N = 1 THEN e = Double
                 ELSE w.imms \div e = (Double - 1) \div e - 1
      element == CHOOSE e \in {TwoTo[k] : k \in 1 .. 6} : e <= Double /\ Fits(e)
  IN  NumberOf({k \in All(Double) : (k + w.immr) % element <= w.imms % element})
LogicalImmediate(w) ==
  LET n == Datasize(w)
      v == Logical(<<"and", "orr", "eor", "and">>[w.opc + 1], R(w.n, n),
                   Pattern(w) % Modulus(n), n)
  IN  LogicallyComputes(IF w.opc = 3 THEN w.d ELSE OrSP(w.d), v, n, w.opc = 3)

MoveWide(w) ==
  LET n == Datasize(w)
      lowest == 2 * Byte * w.hw
      field == {lowest + k : k \in BitsOf(w.imm)}
  IN  IF w.opc = 1 \/ lowest >= n THEN Nothing
      ELSE Computes(w.d,
             NumberOf(CASE w.opc = 0 -> All(n) \ field
                      [] w.opc = 2 -> field
                      [] w.opc = 3 -> (BitsOf(R(w.d, n)) \ (lowest .. lowest + 2 * Byte - 1))
                                      \cup field),
             flags)

\* The bits immr to imms go to the bottom, or those from 0 to imms to the top.
Bitfield(w) ==
  LET n == Datasize(w)
      source == BitsOf(R(w.n, n))
      taken == IF w.imms >= w.immr THEN w.immr .. w.imms ELSE 0 .. w.imms
      At(k) == IF w.imms >= w.immr THEN k - w.immr ELSE k + n - w.immr
      moved == {At(k) : k \in source \cap taken}
      place == {At(k) : k \in taken}
      above == {k \in All(n) : \A j \in place : k > j}
  IN  IF w.N # w.sf \/ w.opc = 3 THEN Nothing
      ELSE Computes(w.d,
             NumberOf(CASE w.opc = 0 -> moved \cup (IF w.imms \in source THEN above ELSE {})
                      [] w.opc = 1 -> (BitsOf(R(w.d, n)) \ place) \cup moved
                      [] w.opc = 2 -> moved),
             flags)

Extract(w) ==
  LET n == Datasize(w)
  IN  IF w.N # w.sf THEN Nothing
      ELSE Computes(w.d, ((R(w.n, n) * Modulus(n) + R(w.m, n)) \div TwoTo[w.imms]) % Modulus(n), flags)

-----------------------------------------------------------------------------
(* Branches.                                                                *)

BranchConditionally(w) ==
  IF w.o1 = 1 \/ w.o0 = 1 THEN Nothing
  ELSE Goes(Holds(w.cond, flags), pc + 4 * Offset(w.imm))
\* Exceptions: a return from one does nothing, and neither do hints and system registers.
BranchToRegister(w) ==
  LET authenticated == w.op3 \in {2, 3}
      kind == IF authenticated /\ w.opc \in {8, 9} THEN w.opc - 8 ELSE w.opc
      allocated == /\ w.op2 = 31
                   /\ \/ w.op3 = 0 /\ w.opc \in {0, 1, 2}
                      \/ authenticated /\ (w.opc \in {8, 9} \/ (w.opc \in 0 .. 2 /\ w.op4 = 31))
  IN  IF ~allocated THEN Nothing
      ELSE IF kind # 1 THEN Goes(TRUE, R(w.n, Double))
      \* Exception: BLR x30 goes to where x30 has been set to already.
      ELSE /\ registers' = Written(registers, 30, Following)
           /\ pc' = IF w.n = 30 THEN Following ELSE R(w.n, Double)
           /\ UNCHANGED <<flags, memory>>
Branch(w) ==
  /\ registers' = IF w.op = 1 THEN Written(registers, 30, Following) ELSE registers
  /\ pc' = (pc + 4 * Offset(w.imm)) % Modulus(Double)
  /\ UNCHANGED <<flags, memory>>
CompareAndBranch(w) == Goes((R(w.t, Datasize(w)) = 0) = (w.op = 0), pc + 4 * Offset(w.imm))
TestAndBranch(w) ==
  Goes((w.sf * Word + w.b40 \notin BitsOf(R(w.t, Double))) = (w.op = 0), pc + 4 * Offset(w.imm))

-----------------------------------------------------------------------------
(* Loads and stores.                                                        *)

\* The values of rs, a sequence of registers with their values, and a base with a change.
Loads(rs, base, change) ==
  LET based == IF change = 0 THEN registers
               ELSE Written(registers, OrSP(base), (RorSP(base, Double) + change) % Modulus(Double))
      first == Written(based, rs[1][1], rs[1][2])
  IN  /\ registers' = IF Len(rs) = 2 THEN Written(first, rs[2][1], rs[2][2]) ELSE first
      /\ UNCHANGED <<flags, memory>> /\ pc' = Following
Stores(address, bytes, v, base, change) ==
  /\ memory' = Stored(address, bytes, v)
  /\ registers' = IF change = 0 THEN registers
                  ELSE Written(registers, OrSP(base), (RorSP(base, Double) + change) % Modulus(Double))
  /\ pc' = Following /\ UNCHANGED flags

Exclusive(w) ==
  LET bytes == TwoTo[w.size]
      n == Byte * bytes
      address == RorSP(w.n, Double)
      succeeded == Written(registers, w.s, 0)
      Result(r) == IF r = 31 THEN 0 ELSE succeeded[r] % Modulus(n)
      compared == R(w.s, n) = Loaded(address, bytes)
      Exclusively(count, v) ==
        /\ registers' = succeeded /\ memory' = Stored(address, count, v)
        /\ pc' = Following /\ UNCHANGED flags
  IN  CASE w.o2 = 0 /\ w.o1 = 0 /\ w.l = 0 -> Exclusively(bytes, Result(w.t))
        [] w.o2 = 0 /\ w.o1 = 0 /\ w.l = 1 -> Loads(<<<<w.t, Loaded(address, bytes)>>>>, 0, 0)
        \* Exception: a pair is not compared and swapped.
        [] w.o2 = 0 /\ w.o1 = 1 /\ w.size < 2 -> Nothing
        [] w.o2 = 0 /\ w.o1 = 1 /\ w.size >= 2 /\ w.l = 0 ->
             Exclusively(2 * bytes, Result(w.t) + Result(w.t2) * Modulus(n))
        [] w.o2 = 0 /\ w.o1 = 1 /\ w.size >= 2 /\ w.l = 1 ->
             Loads(<<<<w.t, Loaded(address, bytes)>>,
                     <<w.t2, Loaded(address + bytes, bytes)>>>>, 0, 0)
        [] w.o2 = 1 /\ w.o1 = 0 /\ w.l = 0 -> Stores(address, bytes, R(w.t, n), 0, 0)
        [] w.o2 = 1 /\ w.o1 = 0 /\ w.l = 1 -> Loads(<<<<w.t, Loaded(address, bytes)>>>>, 0, 0)
        \* Exception: what was compared stays in its register.
        [] w.o2 = 1 /\ w.o1 = 1 ->
             Stores(address, IF compared THEN bytes ELSE 0, R(w.t, n), 0, 0)

Literal(w) ==
  LET address == (pc + 4 * Offset(w.imm)) % Modulus(Double)
  IN  CASE w.opc = 0 -> Loads(<<<<w.t, Loaded(address, 4)>>>>, 0, 0)
        [] w.opc = 1 -> Loads(<<<<w.t, Loaded(address, 8)>>>>, 0, 0)
        [] w.opc = 2 -> Loads(<<<<w.t, Signed(Loaded(address, 4), Word) % Modulus(Double)>>>>, 0, 0)
        [] w.opc = 3 -> Nothing

Change(mode, offset) == IF mode \in {1, 3} THEN offset ELSE 0
Pair(w) ==
  LET bytes == IF w.opc = 2 THEN 8 ELSE 4
      offset == Offset(w.imm) * bytes
      change == Change(w.op3, offset)
      address == RorSP(w.n, Double) + (IF w.op3 = 1 THEN 0 ELSE offset)
      Value(k) == IF w.opc = 1 THEN Signed(Loaded(address + k, 4), Word) % Modulus(Double)
                               ELSE Loaded(address + k, bytes)
  IN  IF w.opc = 3 \/ (w.opc = 1 /\ w.load = 0) THEN Nothing
      ELSE IF w.load = 1 THEN Loads(<<<<w.t, Value(0)>>, <<w.t2, Value(bytes)>>>>, w.n, change)
      ELSE Stores(address, 2 * bytes,
                  R(w.t, Byte * bytes) + R(w.t2, Byte * bytes) * Modulus(Byte * bytes), w.n, change)

Transfer(w, address, change) ==
  LET bytes == TwoTo[w.size]
      Value(n) == Signed(Loaded(address, bytes), Byte * bytes) % Modulus(n)
  IN  CASE w.opc = 0 -> Stores(address, bytes, R(w.t, Byte * bytes), w.n, change)
        [] w.opc = 1 -> Loads(<<<<w.t, Loaded(address, bytes)>>>>, w.n, change)
        [] w.opc = 2 -> IF w.size = 3 THEN Nothing
                        ELSE Loads(<<<<w.t, Value(Double)>>>>, w.n, change)
        [] w.opc = 3 -> Loads(<<<<w.t, Value(Word)>>>>, w.n, change)
Unscaled(w) ==
  Transfer(w, RorSP(w.n, Double) + (IF w.mode = 1 THEN 0 ELSE Offset(w.imm)),
           Change(w.mode, Offset(w.imm)))
RegisterOffset(w) ==
  IF w.option % 4 < 2 THEN Nothing
  ELSE Transfer(w, RorSP(w.n, Double)
                   + Extended(w.option, R(w.m, Double), w.S * w.size, Double), 0)
UnsignedOffset(w) == Transfer(w, RorSP(w.n, Double) + w.imm * TwoTo[w.size], 0)

-----------------------------------------------------------------------------
(* Registers.                                                               *)

Magnitude(z) == IF z < 0 THEN -z ELSE z
Towards0(a, b) == IF (a < 0) = (b < 0) THEN Magnitude(a) \div Magnitude(b)
                                       ELSE -(Magnitude(a) \div Magnitude(b))
TwoSource(w) ==
  LET n == Datasize(w)
      a == R(w.n, n)
      b == R(w.m, n)
      quotient == CASE b = 0     -> 0
                    [] b # 0 /\ w.opc = 2 -> a \div b
                    \* Exception: the only quotient out of range is 0, not itself.
                    [] b # 0 /\ w.opc = 3 -> LET q == Towards0(Signed(a, n), Signed(b, n))
                                             IN  IF Signedly(q, n) THEN q % Modulus(n) ELSE 0
  IN  \* Exception: PACGA and CRC32 do nothing.
      IF w.S = 1 \/ w.opc \notin {2, 3} \cup 8 .. 11 THEN Nothing
      ELSE Computes(w.d, IF w.opc \in {2, 3} THEN quotient ELSE Shifted(w.opc - 8, a, b % n, n), flags)

OneSource(w) ==
  LET n == Datasize(w)
      a == BitsOf(R(w.n, n))
      clear == {k \in All(n) : \A j \in a : j < k}
      alike == {k \in All(n - 1) : \A j \in k .. n - 1 : (j \in a) = (n - 1 \in a)}
      ByteReversed(bytes) == 
        {Byte * (bytes * (k \div (Byte * bytes)) + bytes - 1 - ((k \div Byte) % bytes)) + (k % Byte) :
           k \in a}
      v == CASE w.opc = 0 -> NumberOf({n - 1 - k : k \in a})
             [] w.opc = 1 -> NumberOf(ByteReversed(2))
             [] w.opc = 2 -> NumberOf(ByteReversed(4))
             [] w.opc = 3 -> NumberOf(ByteReversed(8))
             [] w.opc = 4 -> Cardinality(clear)
             [] w.opc = 5 -> Cardinality(alike)
  IN  \* Exception: pointers are not signed or authenticated.
      IF w.S = 1 \/ w.opc2 # 0 \/ w.opc > 5 \/ (w.opc = 3 /\ w.sf = 0) THEN Nothing
      ELSE Computes(w.d, v, flags)

LogicalShifted(w) ==
  LET n == Datasize(w)
      shifted == Shifted(w.shift, R(w.m, n), w.imm, n)
      v == Logical(<<"and", "orr", "eor", "and">>[w.opc + 1], R(w.n, n),
                   IF w.N = 1 THEN Inverted(shifted, n) ELSE shifted, n)
  IN  LogicallyComputes(w.d, v, n, w.opc = 3)
AddSubtractShifted(w) ==
  LET n == Datasize(w)
  IN  IF w.shift = 3 THEN Nothing
      ELSE Adds(w, R(w.n, n), Shifted(w.shift, R(w.m, n), w.imm, n), w.d, n)
AddSubtractExtended(w) ==
  LET n == Datasize(w)
  IN  IF w.opt # 0 \/ w.imm > 4 THEN Nothing
      ELSE Adds(w, RorSP(w.n, n), Extended(w.option, R(w.m, n), w.imm, n), Destination(w), n)
AddSubtractCarrying(w) ==
  LET n == Datasize(w)
      a == R(w.n, n)
      b == R(w.m, n)
      borrow == 1 - flags.c
  IN  IF w.opcode2 # 0 THEN Nothing
      ELSE Computes(w.d, (IF w.op = 1 THEN a - b - borrow ELSE a + b + flags.c) % Modulus(n),
                    IF w.S = 0 THEN flags
                    ELSE IF w.op = 1 THEN DifferenceFlags(a, b, borrow, n)
                    ELSE SumFlags(a, b, flags.c, n))
CompareConditionally(w) ==
  LET n == Datasize(w)
      a == R(w.n, n)
      b == IF w.immediate = 1 THEN w.m ELSE R(w.m, n)
      given == [n |-> w.nzcv \div 8, z |-> (w.nzcv \div 4) % 2,
                c |-> (w.nzcv \div 2) % 2, v |-> w.nzcv % 2]
  IN  Computes(31, 0, IF ~Holds(w.cond, flags) THEN given
                      ELSE IF w.op = 1 THEN DifferenceFlags(a, b, 0, n) ELSE SumFlags(a, b, 0, n))
Select(w) ==
  LET n == Datasize(w)
      b == R(w.m, n)
      otherwise == CASE w.op = 0 /\ w.op2 = 0 -> b
                     [] w.op = 0 /\ w.op2 = 1 -> b + 1
                     [] w.op = 1 /\ w.op2 = 0 -> Inverted(b, n)
                     [] w.op = 1 /\ w.op2 = 1 -> -b
  IN  IF w.S = 1 \/ w.op2 > 1 THEN Nothing
      ELSE Computes(w.d, IF Holds(w.cond, flags) THEN R(w.n, n) ELSE otherwise % Modulus(n), flags)
ThreeSource(w) ==
  LET n == Datasize(w)
      kind == w.op31
      Product == CASE kind = 0        -> R(w.n, n) * R(w.m, n)
                   [] kind = 1        -> Signed(R(w.n, Word), Word) * Signed(R(w.m, Word), Word)
                   [] kind = 2        -> Signed(R(w.n, n), n) * Signed(R(w.m, n), n)
                   [] kind \in {5, 6} -> R(w.n, IF kind = 5 THEN Word ELSE n)
                                         * R(w.m, IF kind = 5 THEN Word ELSE n)
      a == R(w.a, n)
      sum == IF w.o0 = 1 THEN a - Product ELSE a + Product
      allocated == w.op54 = 0 /\ (kind = 0 \/ (w.sf = 1 /\ kind \in {1, 5}) \/ (w.sf = 1 /\ kind \in {2, 6} /\ w.o0 = 0))
  IN  IF ~allocated THEN Nothing
      ELSE Computes(w.d, IF kind \in {2, 6} THEN (Product \div Modulus(n)) % Modulus(n)
                                            ELSE sum % Modulus(n), flags)

-----------------------------------------------------------------------------
Effect(w) ==
  CASE w.class = "PcRelativeAddressing"         -> PcRelative(w)
    [] w.class = "AddSubtractImmediate"         -> AddSubtractImmediate(w)
    [] w.class = "LogicalImmediate"             -> LogicalImmediate(w)
    [] w.class = "MoveWideImmediate"            -> MoveWide(w)
    [] w.class = "Bitfield"                     -> Bitfield(w)
    [] w.class = "Extract"                      -> Extract(w)
    [] w.class = "ConditionalBranch"            -> BranchConditionally(w)
    [] w.class = "BranchRegister"               -> BranchToRegister(w)
    [] w.class = "BranchImmediate"              -> Branch(w)
    [] w.class = "CompareAndBranch"             -> CompareAndBranch(w)
    [] w.class = "TestAndBranch"                -> TestAndBranch(w)
    [] w.class = "LoadStoreExclusive"           -> Exclusive(w)
    [] w.class = "LoadLiteral"                  -> Literal(w)
    [] w.class = "LoadStorePair"                -> Pair(w)
    [] w.class = "LoadStoreUnscaledImmediate"   -> Unscaled(w)
    [] w.class = "LoadStoreRegisterOffset"      -> RegisterOffset(w)
    [] w.class = "LoadStoreUnsignedImmediate"   -> UnsignedOffset(w)
    [] w.class = "DataProcessingTwoSource"      -> TwoSource(w)
    [] w.class = "DataProcessingOneSource"      -> OneSource(w)
    [] w.class = "LogicalShiftedRegister"       -> LogicalShifted(w)
    [] w.class = "AddSubtractShiftedRegister"   -> AddSubtractShifted(w)
    [] w.class = "AddSubtractExtendedRegister"  -> AddSubtractExtended(w)
    [] w.class = "AddSubtractWithCarry"         -> AddSubtractCarrying(w)
    [] w.class = "ConditionalCompare"           -> CompareConditionally(w)
    [] w.class = "ConditionalSelect"            -> Select(w)
    [] w.class = "DataProcessingThreeSource"    -> ThreeSource(w)
    [] OTHER                                    -> Nothing

Next == pc \in DOMAIN program /\ Effect(program[pc]) /\ UNCHANGED program
Spec == [][Next]_vars
=============================================================================
