-------------------------------- MODULE Idioms --------------------------------
(***************************************************************************)
(* What the emulator of Translator must get right: every instruction by     *)
(* itself, against A64, and together those sequences in which compilers     *)
(* rely on what one instruction leaves to the next.                         *)
(***************************************************************************)
EXTENDS Numerals, Sequences

CONSTANTS Byte, OffsetBits, PageBits, InstructionBytes, Starts, Contents
VARIABLES program, minimal, registers, flags, memory, pc

Cpu == INSTANCE Translator
Arm == INSTANCE A64

\* The registers that the sequences below use.
Used == (0 .. 5) \cup {30, Arm!SP}

\* A program is run from its first instruction on; x30 starts as the stack pointer.  The
\* offset of BranchIf is a positive number.
ASSUME SizesAssumption ==
  /\ {Byte, OffsetBits, PageBits} \subseteq Nat \ {0} /\ OffsetBits > 2
  /\ InstructionBytes = 4
ASSUME StartsAssumption ==
  \A k \in DOMAIN Starts :
    /\ \A p \in Starts[k].programs :
         Starts[k].pc \in DOMAIN p /\ \A address \in DOMAIN p : Starts[k].pc <= address
    /\ \A rs \in Starts[k].registers :
         /\ Used \subseteq DOMAIN rs /\ rs[30] = rs[Arm!SP]
         /\ \A r \in DOMAIN rs : rs[r] \in Cpu!Addresses
    /\ Starts[k].flags \subseteq [n : {0, 1}, z : {0, 1}, c : {0, 1}, v : {0, 1}]

Emulation == Cpu!Spec

\* Every step of the emulator, that is decoding, translation to REIL and interpretation
\* of the REIL, has the effect of the A64 instruction: no other register, flag or byte
\* of memory changes, with either way to translate a branch inside an instruction.
ImplementsA64 == Arm!Spec

-----------------------------------------------------------------------------
(* Sequences: instruction k is at InstructionBytes * k.                     *)

Place(k) == InstructionBytes * k
Sequence(words) == [address \in {Place(k - 1) : k \in DOMAIN words} |->
                      words[address \div InstructionBytes + 1]]

SetFlagsSub(n, m) ==
  [class |-> "AddSubtractShiftedRegister", sf |-> 0, op |-> 1, S |-> 1, shift |-> 0,
   imm |-> 0, n |-> n, m |-> m, d |-> 31]
Carrying(op, S, n, m, d) ==
  [class |-> "AddSubtractWithCarry", sf |-> 0, op |-> op, S |-> S, opcode2 |-> 0,
   n |-> n, m |-> m, d |-> d]
CompareIf(cond, nzcv, n, m) ==
  [class |-> "ConditionalCompare", sf |-> 0, op |-> 1, immediate |-> 0, n |-> n, m |-> m,
   nzcv |-> nzcv, cond |-> cond]
BranchIf(cond) ==
  [class |-> "ConditionalBranch", o1 |-> 0, o0 |-> 0, imm |-> 2, cond |-> cond]
AddOf(op, n, m, d) == [SetFlagsSub(n, m) EXCEPT !.op = op, !.d = d]
QuotientOf(opc, n, m, d) ==
  [class |-> "DataProcessingTwoSource", sf |-> 0, S |-> 0, opc |-> opc, n |-> n, m |-> m, d |-> d]
Multiplied(sf, op31, o0, n, m, a, d) ==
  [class |-> "DataProcessingThreeSource", sf |-> sf, op54 |-> 0, op31 |-> op31, o0 |-> o0,
   n |-> n, m |-> m, a |-> a, d |-> d]
StackPair(load, imm, mode, t, t2) ==
  [class |-> "LoadStorePair", opc |-> 2, op3 |-> mode, load |-> load, imm |-> imm,
   t |-> t, t2 |-> t2, n |-> 31]

\* The relation that the mnemonic of a condition names, on numbers of so many bits.
Related(cond, a, b, size) ==
  LET A == Arm!Signed(a, size)
      B == Arm!Signed(b, size)
  IN  CASE cond = 0 -> a = b  [] cond = 1 -> a # b    \* EQ, NE
        [] cond = 2 -> a >= b [] cond = 3 -> a < b    \* HS, LO
        [] cond = 8 -> a > b  [] cond = 9 -> a <= b   \* HI, LS
        [] cond = 10 -> A >= B [] cond = 11 -> A < B  \* GE, LT
        [] cond = 12 -> A > B [] cond = 13 -> A <= B  \* GT, LE
Relations == {0, 1, 2, 3, 8, 9, 10, 11, 12, 13}
\* Flags that no condition but those negated in it holds for, as CCMP takes them.
Failing(cond) == CASE cond \in {1, 12} -> 4 [] cond \in {3, 9} -> 2 [] cond = 10 -> 1
                   [] OTHER -> 0

half(r) == registers[r] % TwoTo[Cpu!W]
Wide(low, high) == half(low) + TwoTo[Cpu!W] * half(high)
Compared(cond) == <<SetFlagsSub(0, 1), BranchIf(cond)>>
BothCompared(first, second) ==
  <<SetFlagsSub(0, 1), CompareIf(first, Failing(second), 2, 3), BranchIf(second)>>
WideCompared(cond) == <<SetFlagsSub(0, 2), Carrying(1, 1, 1, 3, 31), BranchIf(cond)>>
TakenIf(words, relation) ==
  pc > Place(Len(words) - 1) /\ program = Sequence(words) =>
    pc = Place(Len(words) + IF relation THEN 1 ELSE 0)
Conditions(class) ==
  {word.cond : word \in {u \in {program[a] : a \in DOMAIN program} : u.class = class}}
    \cap Relations

\* CMP and B.cond branch if and only if the numbers compared are in the relation that
\* the condition is named for; so does CMP, CCMP, B.cond for the conjunction of two and
\* CMP, SBCS, B.cond for numbers of two registers.
ConditionMeaning ==
  \A cond \in Conditions("ConditionalBranch") :
    /\ TakenIf(Compared(cond), Related(cond, half(0), half(1), Cpu!W))
    /\ \A first \in Conditions("ConditionalCompare") :
         TakenIf(BothCompared(first, cond),
                 /\ Related(first, half(0), half(1), Cpu!W)
                 /\ Related(cond, half(2), half(3), Cpu!W))
    /\ cond \in {2, 3, 10, 11} =>
         TakenIf(WideCompared(cond), Related(cond, Wide(0, 1), Wide(2, 3), 2 * Cpu!W))

WideSum(op) == <<AddOf(op, 0, 2, 4), Carrying(op, 0, 1, 3, 5)>>
WideProduct == <<Multiplied(1, 0, 0, 0, 1, 31, 4), Multiplied(1, 6, 0, 0, 1, 31, 5)>>
RemainderOf(opc) == <<QuotientOf(opc, 0, 1, 4), Multiplied(0, 0, 1, 4, 1, 0, 5)>>
\* A frame of two registers: by so much is the stack pointer lowered and raised.
Frame(by) == <<StackPair(0, TwoTo[OffsetBits] - by, 3, 0, 1), StackPair(1, by, 1, 4, 5)>>
Finished(words) == pc = Place(Len(words)) /\ program = Sequence(words)

SumsCarry ==
  /\ Finished(WideSum(0)) => Wide(4, 5) = (Wide(0, 1) + Wide(2, 3)) % TwoTo[Cpu!X]
  /\ Finished(WideSum(1)) => Wide(4, 5) = (Wide(0, 1) - Wide(2, 3)) % TwoTo[Cpu!X]
  /\ Finished(WideProduct) =>
       registers[4] + TwoTo[Cpu!X] * registers[5] = registers[0] * registers[1]
\* Nothing has a quotient by 0, and -2 ^ (W - 1) none by -1.
Undivided == {<<a, 0>> : a \in 0 .. TwoTo[Cpu!W] - 1} \cup {<<TwoTo[Cpu!W - 1], TwoTo[Cpu!W] - 1>>}
RemaindersLeft ==
  /\ Finished(RemainderOf(2)) /\ half(1) # 0 =>
       half(4) * half(1) + half(5) = half(0) /\ half(5) < half(1)
  /\ Finished(RemainderOf(3)) /\ <<half(0), half(1)>> \notin Undivided =>
       LET a == Arm!Signed(half(0), Cpu!W)
           b == Arm!Signed(half(1), Cpu!W)
           r == Arm!Signed(half(5), Cpu!W)
       IN  /\ Arm!Signed(half(4), Cpu!W) * b + r = a
           /\ Arm!Magnitude(r) < Arm!Magnitude(b) /\ (r = 0 \/ (r < 0) = (a < 0))
FramesBalance ==
  \A by \in 1 .. TwoTo[OffsetBits - 1] - 1 : Finished(Frame(by)) =>
    /\ registers[4] = registers[0] /\ registers[5] = registers[1]
    /\ registers[Arm!SP] = registers[30]

\* ADDS; ADC and SUBS; SBC carry from one register to the next and MUL; UMULH make a
\* product of two; UDIV or SDIV; MSUB leave the remainder; what STP pushes with its
\* base written back first, LDP pops with its base written back after, and the stack
\* pointer, kept in x30, is where it was.
IdiomsCompute == SumsCarry /\ RemaindersLeft /\ FramesBalance
=============================================================================
