---------------------------- MODULE MemoryImage ----------------------------
(***************************************************************************)
(* memory_image/memory_image.cpp: a sequence of mappings, each with its     *)
(* address, its data and the permissions it grants.                        *)
(***************************************************************************)
EXTENDS Integers, Sequences, FiniteSetsExt

CONSTANT AddressBits      \* 64
ASSUME AddressAssumption == AddressBits \in Nat \ {0} /\ 2 ^ AddressBits \in Nat \ {0}

Address == 0 .. 2 ^ AddressBits - 1
Wrapped(address) == address % 2 ^ AddressBits
Permission == {"read", "write", "execute"}

\* A mutant: it is enough that one of the mappings grants it.
AccessGranted(mappings, address, size, asked) ==
  \E k \in DOMAIN mappings :
    /\ mappings[k].address <= address
    /\ Wrapped(address + size) <= Wrapped(mappings[k].address + Len(mappings[k].data))
    /\ asked \subseteq mappings[k].permissions
\* A mapping with all of the access counts, and all of these must grant what is asked.
\* An access of size 0 is in a mapping that it ends, too.
AccessOk(mappings, address, size, asked) ==
  LET found == {k \in DOMAIN mappings :
                  /\ mappings[k].address <= address
                  /\ Wrapped(address + size) <=
                       Wrapped(mappings[k].address + Len(mappings[k].data))}
  IN  found # {} /\ \A k \in found : asked \subseteq mappings[k].permissions
readable(mappings, address, size) == AccessOk(mappings, address, size, {"read"})
writable(mappings, address, size) == AccessOk(mappings, address, size, {"write"})
executable(mappings, address) == AccessOk(mappings, address, 0, {"execute"})

\* From the address to the end of the last mapping that has it.
Read(mappings, address) ==
  LET holding == {k \in DOMAIN mappings :
                    /\ mappings[k].address <= address
                    /\ address - mappings[k].address < Len(mappings[k].data)}
      last == mappings[Max(holding)]
  IN  IF holding = {} THEN <<>>
      ELSE SubSeq(last.data, address - last.address + 1, Len(last.data))

AddMapping(mappings, mapping) == Append(mappings, mapping)
\* The mappings of a file, in its order.
Loaded(file) ==
  LET loaded[k \in 0 .. Len(file)] ==
        IF k = 0 THEN <<>> ELSE AddMapping(loaded[k - 1], file[k])
  IN  loaded[Len(file)]

End(mapping) == mapping.address + Len(mapping.data)
\* The mappings of an executable that can be loaded: within the address space, apart from
\* each other, and none of them the whole of it, as a size has AddressBits bits as well.
Loadable(file) ==
  /\ file \in Seq([address : Address, data : Seq(0 .. 255), permissions : SUBSET Permission])
  /\ \A k \in DOMAIN file : End(file[k]) <= 2 ^ AddressBits /\ Len(file[k].data) < 2 ^ AddressBits
  /\ \A j, k \in DOMAIN file :
       j # k => End(file[j]) <= file[k].address \/ End(file[k]) <= file[j].address
=============================================================================
