-------------------------- MODULE InstructionMemory --------------------------
(***************************************************************************)
(* What a memory image and its instruction provider are to their users: a   *)
(* memory without a history.  Of every address it is determined what code   *)
(* is there, of every place in the code what comes next, and of every range *)
(* what a load from it gives, whatever was asked before.                    *)
(***************************************************************************)
EXTENDS Integers, Sequences

CONSTANTS AddressBits, InstructionBytes, Long, Null, Unallocated, Unknown
VARIABLES mappings, answer
vars == <<mappings, answer>>

End(m) == m.address + Len(m.data)
\* The bytes of a mapping and the place behind them.  Nothing is granted in a mapping
\* that reaches the end of the address space.
Within(m) == IF End(m) = 2 ^ AddressBits THEN {} ELSE m.address .. End(m)
Granted(places, permissions) ==
  LET around == {k \in DOMAIN mappings : places \subseteq Within(mappings[k])}
  IN  around # {} /\ \A k \in around : permissions \subseteq mappings[k].permissions

\* The mapping of so many bytes, of which there is no more than one.
Holding(a, count) ==
  {k \in DOMAIN mappings : mappings[k].address <= a /\ a + count <= End(mappings[k])}
Stretch(a, count) ==
  LET m == mappings[CHOOSE k \in Holding(a, count) : TRUE]
  IN  [j \in 1 .. count |-> m.data[a - m.address + j]]

\* An instruction that is cut off, as behind the end, is unallocated.
CodeAt(a) ==
  IF ~Granted({a}, {"execute"}) THEN Null
  ELSE IF Holding(a, InstructionBytes) = {} THEN Unallocated ELSE Stretch(a, InstructionBytes)
ReilLength(code) == IF code # Unallocated /\ code[1] \in Long THEN 2 ELSE 1

Fetch(a) == answer' = <<"code", a, CodeAt(a)>>
After(a, offset) ==
  /\ Granted({a}, {"execute"}) /\ offset < ReilLength(CodeAt(a))
  /\ answer' = IF offset + 1 < ReilLength(CodeAt(a)) THEN <<"node", a, offset + 1>>
               ELSE <<"node", (a + InstructionBytes) % 2 ^ AddressBits, 0>>
\* Left open: what a load gives that reaches the end of the address space.
Loaded(a, size) ==
  \E content \in {answer'[3]} :
    /\ answer' = <<"data", a, content>>
    /\ a + size < 2 ^ AddressBits =>
         content = IF Granted({a, a + size}, {"read", "write"}) THEN Stretch(a, size)
                   ELSE Unknown

Next ==
  /\ UNCHANGED mappings
  /\ \E a \in 0 .. 2 ^ AddressBits - 1 :
       \/ Fetch(a)
       \/ \E offset \in 0 .. 1 : After(a, offset)
       \/ \E size \in 1 .. 2 : Loaded(a, size)
Spec == [][Next]_vars
=============================================================================
