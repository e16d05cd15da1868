------------------------------ MODULE Immediate ------------------------------
(***************************************************************************)
(* reil/immediate.cpp: unsigned integers of any number of bytes, the values *)
(* of REIL.  An Immediate is the function from 0 .. n - 1 to its bytes, the *)
(* least significant first.  Sizes and offsets are in bits, as in the code. *)
(***************************************************************************)
EXTENDS Numerals, FiniteSets

CONSTANTS ByteBits,        \* 8
          WordBytes,       \* bytes of a uint64_t: 8
          MultiplyBytes,   \* widths up to this one are multiplied as words: 4
          LatticeBytes,    \* widths from this one on take karatsuba: 0x80
          IndexBytes,      \* the range of a uint8_t: 256
          DivideBytes      \* widths that are divided as words: {1, 2, 4, 8}
ASSUME ImmediateAssumption ==
  /\ {ByteBits, WordBytes, MultiplyBytes, LatticeBytes, IndexBytes} \subseteq Nat \ {0}
  /\ MultiplyBytes * 2 <= WordBytes /\ DivideBytes \subseteq 1 .. WordBytes
\* immediate.cpp:270-278: the sums of what lattice_multiply is given stay in 16 bits.
ASSUME LatticeAssumption ==
  2 * (LatticeBytes - 1) <= TwoTo[ByteBits] /\ IndexBytes <= 8 * LatticeBytes

Base == TwoTo[ByteBits]
ByteValues == 0 .. Base - 1
Bytes(width) == [0 .. width - 1 -> ByteValues]

width(a) == Cardinality(DOMAIN a)
size(a) == width(a) * ByteBits
Top(a) == a[width(a) - 1]

\* Immediate(size, uint64_t) and Immediate(size, Immediate).
Imm(bits, value) == [i \in 0 .. bits \div ByteBits - 1 |-> (value \div TwoTo[ByteBits * i]) % Base]
ZeroExtend(a, bits) ==
  [i \in 0 .. bits \div ByteBits - 1 |-> IF i \in DOMAIN a THEN a[i] ELSE 0]
SignExtend(a, bits) ==
  [i \in 0 .. bits \div ByteBits - 1 |->
     IF i \in DOMAIN a THEN a[i] ELSE IF Top(a) >= Base \div 2 THEN Base - 1 ELSE 0]

\* The integer that an Immediate stands for.
Value(a) == Number(Base, a, width(a))

\* The conversion to uint64_t: the bytes of a word.
Word(a) == Value([i \in DOMAIN a \cap 0 .. WordBytes - 1 |-> a[i]])
Bool(a) == \E i \in DOMAIN a : a[i] # 0

\* The shifts go bit_shift bits into the bytes byte_shift bytes on.
ShiftLeft(a, count) ==
  LET byte_shift == count \div ByteBits
      bit_shift == count % ByteBits
  IN  [i \in DOMAIN a |->
         (IF i >= byte_shift THEN (a[i - byte_shift] * TwoTo[bit_shift]) % Base ELSE 0)
         + (IF i > byte_shift THEN a[i - byte_shift - 1] \div TwoTo[ByteBits - bit_shift]
                              ELSE 0)]
ShiftRight(a, count) ==
  LET byte_shift == count \div ByteBits
      bit_shift == count % ByteBits
  IN  [i \in DOMAIN a |->
         (IF i + byte_shift < width(a) THEN a[i + byte_shift] \div TwoTo[bit_shift] ELSE 0)
         + (IF i + byte_shift + 1 < width(a)
            THEN (a[i + byte_shift + 1] * TwoTo[ByteBits - bit_shift]) % Base ELSE 0)]

\* A shift by an Immediate: uint64_t, then uint16_t, which is two bytes.
Count(a) == Word(a) % (Base * Base)

\* operator<, operator<=: the most significant byte that differs decides.
Less(a, b) ==
  \E i \in DOMAIN a : a[i] < b[i] /\ \A j \in DOMAIN a : j > i => a[j] = b[j]
LessOrEqual(a, b) == Less(a, b) \/ \A i \in DOMAIN a : a[i] = b[i]

Mask(bits, mask_size) ==
  ZeroExtend([i \in 0 .. mask_size \div ByteBits - 1 |-> Base - 1], bits)
SignBit(bits, mask_size) == ShiftLeft(Imm(bits, 1), mask_size - 1)

\* The operators on bits are tables.
Bit(value, k) == (value \div TwoTo[k]) % 2
Table == [{0, 1} \X {0, 1} -> {0, 1}]
Conjoin == [p \in {0, 1} \X {0, 1} |-> p[1] * p[2]]
Disjoin == [p \in {0, 1} \X {0, 1} |-> p[1] + p[2] - p[1] * p[2]]
Exclude == [p \in {0, 1} \X {0, 1} |-> (p[1] + p[2]) % 2]
\* What the table makes of the last m bits of two values.
BitByBit(table, p, q, m) == Number(2, [k \in 0 .. m - 1 |-> table[<<Bit(p, k), Bit(q, k)>>]], m)
Bitwise(table, a, b) == [i \in DOMAIN a |-> BitByBit(table, a[i], b[i], ByteBits)]
And(a, b) == Bitwise(Conjoin, a, b)
Or(a, b) == Bitwise(Disjoin, a, b)
Xor(a, b) == Bitwise(Exclude, a, b)

\* operator+ and operator-: tmp goes from byte to byte, and the result has the
\* double size.  (tmp >>= 8 is an arithmetic shift, so a borrow stays -1.)
Carries(column, n) ==
  LET tmp[i \in 0 .. n] ==
        IF i = 0 THEN 0 ELSE (tmp[i - 1] + column[i - 1]) \div Base
  IN  tmp
Chain(column, n) ==
  LET tmp == Carries(column, n)
  IN  [i \in 0 .. 2 * n - 1 |-> IF i < n THEN (tmp[i] + column[i]) % Base ELSE tmp[n] % Base]
Plus(a, b) ==
  LET sum == Chain([i \in DOMAIN a |-> a[i] + b[i]], width(a))
  IN  [i \in DOMAIN sum |-> IF i > width(a) THEN 0 ELSE sum[i]]
Minus(a, b) == Chain([i \in DOMAIN a |-> a[i] - b[i]], width(a))

\* lattice_multiply: the products of single bytes are summed up along the diagonals
\* in a uint16_t, low halves on their own diagonal and high halves on the next.
OnDiagonal(i, x, n) == x <= i /\ i - x < n
Low(a, b, i) ==
  Number(1, [x \in DOMAIN a |-> IF OnDiagonal(i, x, width(a))
                                THEN (a[x] * b[i - x]) % Base ELSE 0], width(a))
High(a, b, i) ==
  Number(1, [x \in DOMAIN a |-> IF OnDiagonal(i, x, width(a))
                                THEN (a[x] * b[i - x]) \div Base ELSE 0], width(a))

\* A mutant: the high halves are summed up on their own diagonal.
LatticeOwnDiagonal(a, b) ==
  LET byte_value[i \in 0 .. 2 * width(a) - 1] ==
        IF i = 0 THEN Low(a, b, 0)
        ELSE (byte_value[i - 1] \div Base + High(a, b, i) + Low(a, b, i)) % (Base * Base)
  IN  [i \in 0 .. 2 * width(a) - 1 |-> byte_value[i] % Base]

Diagonals(a, b) ==
  LET byte_value[i \in 0 .. 2 * width(a) - 1] ==
        IF i = 0 THEN Low(a, b, 0)
        ELSE (byte_value[i - 1] \div Base + High(a, b, i - 1) + Low(a, b, i)) % (Base * Base)
  IN  byte_value
Lattice(a, b) == [i \in 0 .. 2 * width(a) - 1 |-> Diagonals(a, b)[i] % Base]

\* operator*: up to MultiplyBytes the result has the size of a word, whatever the
\* size of the operands.
Multiply(a, b) ==
  IF width(a) <= MultiplyBytes
  THEN Imm(WordBytes * ByteBits, Word(a) * Word(b)) ELSE Lattice(a, b)

\* The index of the loops of operator+ and operator- is a uint8_t, and never gets
\* to the end of a result of IndexBytes.
SumReturns(bytes) == 2 * bytes < IndexBytes
\* karatsuba_multiply, from LatticeBytes on, adds up products of four times the width.
ProductReturns(bytes) == bytes < LatticeBytes \/ SumReturns(4 * bytes)

\* Interpreter::Ashr: a negative value is filled up from the left.
ShiftRightArithmetic(a, b) ==
  LET n == size(a)
      shifted == ShiftRight(a, Count(b))
  IN  IF Bool(And(SignBit(n, n), a))
      THEN Or(shifted, ShiftLeft(Mask(n, n), (n - Word(b)) % (Base * Base))) ELSE shifted
=============================================================================
