----------------------------- MODULE MCTranslator -----------------------------
(***************************************************************************)
(* Instances of Idioms: bytes of one bit, so that registers have 8 and 4;   *)
(* every form of every instruction with operands at the corners.            *)
(***************************************************************************)
EXTENDS IdiomsInvariants

Bool == {0, 1}
Size(sf) == Arm!Datasize([sf |-> sf])
Full == TwoTo[Arm!Double] - 1
Corners == {0, 1, 7, 8, 15, 16, 127, 128, 165, Full}
Few == {0, 1, 8, 127, 128, Full}
AllFlags == [n : Bool, z : Bool, c : Bool, v : Bool]
Flags(n, z, c, v) == [n |-> n, z |-> z, c |-> c, v |-> v]
Clear == {Flags(0, 0, 0, 0)}

Registers(as, bs, cs) ==
  {[r \in Used |-> CASE r = 0 -> a [] r = 1 -> b [] r = 2 -> c [] r = 3 -> 200
                      [] r \in {30, Arm!SP} -> 44 [] OTHER -> 165] : a \in as, b \in bs, c \in cs}
Started(words, rs, fs, ms) ==
  [programs |-> {[a \in {12} |-> word] : word \in words}, registers |-> rs, flags |-> fs,
   minimal |-> ms, pc |-> 12]
On(words, as, bs, cs) == Started(words, Registers(as, bs, cs), Clear, {FALSE})

LogicalImmediates ==
  [class : {"LogicalImmediate"}, sf : {0}, opc : 0 .. 3, N : {0}, immr : 0 .. 7,
   imms : {0, 1, 2, 4}, n : {0}, d : {2, 31}]
  \cup [class : {"LogicalImmediate"}, sf : {1}, opc : 0 .. 3, N : {0}, immr : 0 .. 3,
        imms : {0, 1, 2, 4}, n : {0}, d : {2}]
  \cup [class : {"LogicalImmediate"}, sf : {1}, opc : 0 .. 3, N : {1}, immr : 0 .. 7,
        imms : 0 .. 6, n : {0}, d : {2}]
Fields(sf, N) == [class : {"Bitfield"}, sf : {sf}, opc : 0 .. 3, N : {N},
                  immr : 0 .. Size(sf) - 1, imms : 0 .. Size(sf) - 1, n : {0}, d : {1}]
Extracts(sf) == [class : {"Extract"}, sf : {sf}, N : Bool, n : {0}, m : {1},
                 imms : 0 .. Size(sf) - 1, d : {2}]
Immediates ==
  <<On([class : {"PcRelativeAddressing"}, op : Bool, immhi : 0 .. 7, immlo : 0 .. 3, d : {0, 31}],
       {1}, {1}, {1}),
    On([class : {"AddSubtractImmediate"}, sf : Bool, op : Bool, S : Bool, shift : Bool,
        imm : {0, 1, 7}, n : {0, 31}, d : {2, 31}], Few, {1}, {1}),
    On(LogicalImmediates, {0, 90, Full}, {1}, {1}),
    On([class : {"MoveWideImmediate"}, sf : Bool, opc : 0 .. 3, hw : 0 .. 3, imm : 0 .. 3,
        d : {0, 31}], {165}, {1}, {1}),
    On(Fields(0, 0) \cup Fields(1, 1) \cup Fields(1, 0), {90, 165}, {0, Full}, {1}),
    On(Extracts(0) \cup Extracts(1), {90, 165}, {1, 240}, {1})>>

Branches ==
  <<Started([class : {"ConditionalBranch"}, o1 : Bool, o0 : {0}, imm : {1, 7}, cond : 0 .. 15],
            Registers({1}, {1}, {1}), AllFlags, {FALSE}),
    On([class : {"ExceptionGeneration"}, opc : {0, 1, 5, 7}, op2 : Bool, ll : 0 .. 3, imm : {1}],
       {1}, {1}, {1}),
    On([class : {"System"}, l : Bool, op0 : 0 .. 2, op1 : {3}, op2 : {2, 3}, crn : {2, 4},
        rt : {31}], {1}, {1}, {1}),
    On([class : {"BranchRegister"}, opc : {0, 1, 2, 3, 4, 5, 8, 9}, op2 : {30, 31}, op3 : 0 .. 3,
        op4 : {31}, n : {0, 30, 31}], {64}, {1}, {1}),
    On([class : {"BranchImmediate"}, op : Bool, imm : 0 .. 7], {1}, {1}, {1}),
    On([class : {"CompareAndBranch"}, sf : Bool, op : Bool, imm : {1, 7}, t : {0, 31}],
       {0, 1, 16, Full}, {1}, {1}),
    On([class : {"TestAndBranch"}, sf : Bool, op : Bool, b40 : 0 .. 3, imm : {1, 7}, t : {0}],
       {0, 8, 16, 165, Full}, {1}, {1})>>

\* With addresses that wrap, in x1 and the stack pointer.  Left out are words that the
\* manual leaves without a meaning: those that load twice into a register or into their
\* base or store their status or base, and those that are not allocated but decoded.
Forms == {<<size, opc>> \in (0 .. 3) \X (0 .. 3) : opc = 3 => size < 2}
Unscaleds ==
  {[class |-> "LoadStoreUnscaledImmediate", size |-> form[1], opc |-> form[2], imm |-> i,
    mode |-> mode, n |-> n, t |-> t] :
     form \in Forms, i \in {1, 7}, mode \in 0 .. 3, n \in {1, 31}, t \in {0, 31}}
Accesses ==
  <<On([class : {"LoadLiteral"}, opc : 0 .. 3, imm : 0 .. 7, t : {0, 31}], {1}, {1}, {1}),
    On({p \in [class : {"LoadStorePair"}, opc : 0 .. 3, op3 : 0 .. 3, load : Bool, imm : {0, 1, 6},
               t : {0, 31}, t2 : {2}, n : {1, 31}] : p.op3 = 0 => p.opc # 1},
       {165}, {0, 65, 252}, {3}),
    On({u \in Unscaleds : u.opc = 2 /\ u.size = 3 => u.mode = 0}, {165}, {0, 65, 252}, {3}),
    On({[class |-> "LoadStoreUnsignedImmediate", size |-> form[1], opc |-> form[2], imm |-> i,
         n |-> n, t |-> 0] : form \in Forms, i \in {0, 3}, n \in {1, 31}}, {165}, {0, 65}, {3}),
    On({[class |-> "LoadStoreRegisterOffset", size |-> form[1], opc |-> form[2], option |-> option,
         S |-> S, m |-> m, n |-> 1, t |-> 0] :
          form \in Forms, option \in 1 .. 7, S \in Bool, m \in {2, 31}},
       {165}, {65}, {3, 14, 250}),
    On([class : {"LoadStoreExclusive"}, size : 0 .. 3, o2 : Bool, l : Bool, o1 : Bool, s : {2},
        t : {0, 31}, t2 : {3}, n : {1, 31}], {165}, {0, 65, 252}, {3}),
    Started([class : {"LoadStoreExclusive"}, size : 0 .. 3, o2 : {1}, l : Bool, o1 : {1},
             s : {2}, t : {0}, t2 : {3}, n : {1}],
            Registers({0, Full}, {65}, {0, 1, 6, 23, 102, Full}), Clear, BOOLEAN)>>

TwoOperands ==
  [class : {"DataProcessingTwoSource"}, sf : Bool, S : {0}, opc : {0, 1, 2, 3, 8, 9, 10, 11, 12},
   n : {0}, m : {1}, d : {2}]
  \cup [class : {"LogicalShiftedRegister"}, sf : {0}, opc : 0 .. 3, N : Bool, shift : 0 .. 3,
        imm : {0, 1, 3}, n : {0}, m : {1}, d : {2}]
  \cup [class : {"LogicalShiftedRegister"}, sf : {1}, opc : 0 .. 3, N : Bool, shift : 0 .. 3,
        imm : {7}, n : {0}, m : {1}, d : {31}]
  \cup [class : {"AddSubtractShiftedRegister"}, sf : Bool, op : Bool, S : Bool, shift : 0 .. 3,
        imm : {0, 3}, n : {0}, m : {1}, d : {2}]
  \cup [class : {"DataProcessingThreeSource"}, sf : {1}, op54 : Bool, op31 : {0, 1, 2, 3, 5, 6},
        o0 : {0}, n : {0}, m : {1}, a : {2}, d : {3}]
  \cup [class : {"DataProcessingThreeSource"}, sf : {1}, op54 : {0}, op31 : {0, 1, 5}, o0 : {1},
        n : {0}, m : {1}, a : {2}, d : {3}]
  \cup [class : {"DataProcessingThreeSource"}, sf : {0}, op54 : {0}, op31 : {0}, o0 : Bool,
        n : {0}, m : {1}, a : {2}, d : {3}]
OneOperand ==
  [class : {"DataProcessingOneSource"}, sf : Bool, S : Bool, opc : 0 .. 5, opc2 : {0}, n : {0}, d : {2}]
  \cup [class : {"DataProcessingOneSource"}, sf : Bool, S : {0}, opc : {0, 8, 17}, opc2 : {1},
        n : {0, 31}, d : {2}]
Operations ==
  <<On(TwoOperands, Corners, Corners \ {1, 165}, {3}),
    On([class : {"AddSubtractExtendedRegister"}, sf : Bool, op : Bool, S : Bool, opt : {0},
        option : 0 .. 7, imm : {0, 2, 5}, n : {0, 31}, m : {1}, d : {2, 31}],
       {7}, {1, 10, 127, Full}, {3}),
    Started(OneOperand, Registers(Corners \cup 2 .. 14 \cup {64, 192, 224}, {0}, {3}),
            Clear, BOOLEAN),
    Started([class : {"AddSubtractWithCarry"}, sf : Bool, op : Bool, S : Bool, opcode2 : {0},
             n : {0}, m : {1}, d : {2}],
            Registers(Few, Few, {3}), {Flags(1, 0, 0, 1), Flags(1, 0, 1, 1)}, {FALSE}),
    Started([class : {"ConditionalCompare"}, sf : {0}, op : Bool, immediate : Bool, m : {1},
             n : {0}, nzcv : {0, 5, 10}, cond : {0, 3, 8, 13, 14, 15}],
            Registers({8}, {1}, {3}), AllFlags, BOOLEAN),
    Started([class : {"ConditionalSelect"}, sf : Bool, op : Bool, S : {0}, op2 : Bool,
             n : {0}, m : {1}, d : {2, 31}, cond : {0, 3, 8, 11, 12, 15}],
            Registers({8}, {127}, {3}), AllFlags, {FALSE})>>

\* Sequences, from the address 0; x30 holds the stack pointer.
From(sequences, as, bs, cs, ds, ms) ==
  [programs |-> {Sequence(words) : words \in sequences},
   registers |-> {[r \in Used |-> CASE r = 0 -> a [] r = 1 -> b [] r = 2 -> c [] r = 3 -> d
                                     [] OTHER -> 40] : a \in as, b \in bs, c \in cs, d \in ds},
   flags |-> {Flags(1, 0, 1, 0)}, minimal |-> ms, pc |-> 0]
Nibbles == 0 .. TwoTo[Arm!Word] - 1
Edge == {0, 1, 7, 8, 15}
Together ==
  <<From({Compared(cond) : cond \in Relations}, Nibbles, Nibbles, {0}, {0}, {FALSE}),
    From({BothCompared(first, cond) : first \in Relations, cond \in Relations},
         {7, 8, 9}, {8}, {6, 7, 15}, {7}, BOOLEAN),
    From({WideCompared(cond) : cond \in {2, 3, 10, 11}}, {0, 15}, Edge, {0, 1}, Edge, {FALSE}),
    From({WideSum(op) : op \in Bool}, Edge, {0, 8, 15}, Edge, {0, 15}, {FALSE}),
    From({WideProduct}, Corners, Corners, {0}, {0}, {FALSE}),
    From({RemainderOf(opc) : opc \in {2, 3}}, Nibbles, Nibbles, {0}, {0}, {FALSE}),
    From({Frame(by) : by \in 1 .. 3}, Few, Few, {0}, {0}, {FALSE})>>

Possible == Immediates \o Branches \o Accesses \o Operations \o Together
Mixed == {[a \in 0 .. Full |-> ((a * a) \div 3 + a \div 5) % TwoTo[Byte]]}
=============================================================================
