----------------------- MODULE MCInstructionProvider -----------------------
(***************************************************************************)
(* Instances of InstructionProvider: 8 addresses, instructions of two      *)
(* bytes, a ring of two translations.                                       *)
(***************************************************************************)
EXTENDS InstructionProvider

Mapping(address, size, permissions) ==
  [address |-> address, data |-> [j \in 1 .. size |-> address + j], permissions |-> permissions]
RX == {"read", "execute"}
RW == {"read", "write"}
\* Mappings apart, with an instruction cut off; read-only data or code just before code;
\* code just before data that reaches the end of the address space; code at 0; nothing that denies
\* an access that runs over the end.
Images ==
  {<<Mapping(1, 3, RX), Mapping(5, 2, RW)>>,
   <<Mapping(1, 2, {"read"}), Mapping(3, 3, RX)>>,
   <<Mapping(3, 3, RX), Mapping(1, 2, RX)>>,
   <<Mapping(2, 3, RX), Mapping(5, 3, RW)>>,
   <<Mapping(0, 2, RX), Mapping(3, 3, RW)>>,
   <<Mapping(3, 2, RX \cup RW)>>}
=============================================================================
