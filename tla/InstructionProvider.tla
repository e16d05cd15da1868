------------------------- MODULE InstructionProvider -------------------------
(***************************************************************************)
(* flow_graph/instruction_provider.cpp: translations of the instructions of *)
(* a memory image, shared by those who ask for the same address.  A map of  *)
(* weak pointers finds them, a ring of strong ones keeps the last of them   *)
(* alive; a user keeps those it holds.                                      *)
(***************************************************************************)
EXTENDS MemoryImage

CONSTANTS Files,               \* bound: the memory images to load
          InstructionBytes,    \* 4
          Long,                \* bytes that begin an instruction of two REIL instructions
          RingSize,            \* the size of cache__: 256
          MaxMade,             \* bound: translations
          MaxHeld,             \* bound: pointers that users hold
          Null, Unallocated, Unknown, Undefined

ASSUME FilesAssumption == \A file \in Files : Loadable(file)
ASSUME InstructionAssumption == InstructionBytes \in Nat \ {0}
ASSUME RingAssumption == RingSize \in Nat \ {0}
ASSUME NullAssumption == Null \notin Nat

VARIABLES mappings,       \* of the memory image
          made,           \* every translation made, with its address and its code
          cache_,         \* the weak pointer to one, for some addresses
          cache__,        \* the ring
          cache__index_,
          held,           \* what users hold
          answer          \* what was returned last
provider == <<made, cache_, cache__, cache__index_>>
vars == <<mappings, provider, held, answer>>

\* A translation is alive as long as there is a pointer to it; Null is one to none.
Translations == DOMAIN made
Alive == ({cache__[k] : k \in DOMAIN cache__} \ {Null}) \cup held
Lock(address) ==
  IF address \in DOMAIN cache_ /\ cache_[address] \in Alive THEN cache_[address] ELSE Null

\* TranslateInstruction: less than an instruction is taken for the word 0.
Translated(bytes) ==
  IF Len(bytes) < InstructionBytes THEN Unallocated ELSE SubSeq(bytes, 1, InstructionBytes)
ReilSize(code) == IF code # Unallocated /\ code[1] \in Long THEN 2 ELSE 1

-----------------------------------------------------------------------------
\* A mutant: the ring is filled before its index is moved, from a place that stays.
MakeInPlace(address) ==
  LET ni == Len(made) + 1
  IN  /\ made' = Append(made, [address |-> address, code |-> Translated(Read(mappings, address))])
      /\ cache_' = [a \in DOMAIN cache_ \cup {address} |-> IF a = address THEN ni ELSE cache_[a]]
      /\ cache__' = [cache__ EXCEPT ![cache__index_ % RingSize] = ni]
      /\ UNCHANGED cache__index_
\* A mutant: whoever asks first keeps the entry of the cache.
MakeUncached(address) ==
  LET ni == Len(made) + 1
  IN  /\ made' = Append(made, [address |-> address, code |-> Translated(Read(mappings, address))])
      /\ cache_' = [a \in DOMAIN cache_ \cup {address} |-> IF a \in DOMAIN cache_ THEN cache_[a] ELSE ni]
      /\ cache__' = [cache__ EXCEPT ![cache__index_ % RingSize] = ni]
      /\ cache__index_' = cache__index_ + 1
Make(address) ==
  LET ni == Len(made) + 1
  IN  /\ made' = Append(made, [address |-> address, code |-> Translated(Read(mappings, address))])
      /\ cache_' = [a \in DOMAIN cache_ \cup {address} |-> IF a = address THEN ni ELSE cache_[a]]
      /\ cache__' = [cache__ EXCEPT ![cache__index_ % RingSize] = ni]
      /\ cache__index_' = cache__index_ + 1

\* NativeInstruction, and the pointer it returns with what that points to.
NativeInstruction(address) ==
  \/ Lock(address) # Null /\ UNCHANGED provider
  \/ /\ Lock(address) = Null /\ executable(mappings, address)
     /\ Len(made) < MaxMade
     /\ Make(address)
  \/ /\ Lock(address) = Null /\ ~executable(mappings, address)
     /\ UNCHANGED provider
Returned(address) ==
  IF Lock(address) # Null THEN Lock(address)
  ELSE IF executable(mappings, address) THEN Len(made) + 1 ELSE Null
Code(ni) == IF ni = Null THEN Null ELSE made'[ni].code

NextNativeInstruction(address) ==
  IF executable(mappings, address) THEN Wrapped(address + InstructionBytes) ELSE 0

-----------------------------------------------------------------------------
(* Users.                                                                   *)

\* FlowGraph::Create and ConstantsAnalysis::At hold on to what they have got.
Hold(address) ==
  /\ Cardinality(held) < MaxHeld
  /\ NativeInstruction(address)
  /\ held' = (held \cup {Returned(address)}) \ {Null}
  /\ answer' = <<"code", address, Code(Returned(address))>>
Drop(ni) == held' = held \ {ni} /\ UNCHANGED <<provider, answer>>

\* Instruction: of a node of a flow graph, so that there is an instruction.
Instruction(address) ==
  /\ executable(mappings, address)
  /\ NativeInstruction(address)
  /\ answer' = <<"code", address, Code(Returned(address))>>
  /\ UNCHANGED held

NextInstruction(address, offset) ==
  LET size == ReilSize(Code(Returned(address))) IN
  /\ executable(mappings, address)
  /\ NativeInstruction(address)
  /\ offset < size
  /\ answer' = IF offset + 1 < size THEN <<"node", address, offset + 1>>
               ELSE <<"node", NextNativeInstruction(address), 0>>
  /\ UNCHANGED held

\* TransformLdm of the constants analysis; bytes behind those of Read may be anything.
Load(address, size) ==
  LET bytes == Read(mappings, address)
  IN  /\ answer' = <<"data", address,
                     IF readable(mappings, address, size) /\ writable(mappings, address, size)
                     THEN IF Len(bytes) < size THEN Undefined ELSE SubSeq(bytes, 1, size)
                     ELSE Unknown>>
      /\ UNCHANGED <<provider, held>>

Init ==
  /\ \E file \in Files : mappings = Loaded(file)
  /\ made = <<>> /\ cache_ = <<>>
  /\ cache__ = [k \in 0 .. RingSize - 1 |-> Null] /\ cache__index_ = 0
  /\ held = {} /\ answer = Null

Next ==
  /\ UNCHANGED mappings
  /\ \/ \E address \in Address :
          \/ Hold(address) \/ Instruction(address)
          \/ \E offset \in 0 .. 1 : NextInstruction(address, offset)
          \/ \E size \in 1 .. 2 : Load(address, size)
     \/ \E ni \in held : Drop(ni)
Spec == Init /\ [][Next]_vars

-----------------------------------------------------------------------------
\* A translation that is alive is the one that the cache gives for its address, so that
\* an instruction is never translated twice while somebody still has the first one, and
\* what a user holds stays what everybody else gets.
LiveAreCached == \A ni \in Alive : Lock(made[ni].address) = ni

\* The last RingSize translations are alive whether somebody holds them or not, and
\* nothing but those and the ones that are held.
RecentKept ==
  Alive = {ni \in Translations : ni > Len(made) - RingSize} \cup held

Memory == INSTANCE InstructionMemory
\* Whether an instruction comes from the cache or is translated again, users see a
\* memory whose answers do not depend on what was asked before.
ImplementsMemory == Memory!Spec
=============================================================================
