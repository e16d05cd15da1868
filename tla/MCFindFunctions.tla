--------------------------- MODULE MCFindFunctions ---------------------------
(***************************************************************************)
(* Images for FindFunctions: one mapping with every code of up to Length   *)
(* instructions, or two adjacent mappings of up to Length2, executable or   *)
(* not.  The first mapping lies at 0, where a start looks like "none".      *)
(***************************************************************************)
EXTENDS FindFunctions

CONSTANTS Length, Length2

Codes(n) == UNION {[1 .. k -> Opcodes] : k \in 0 .. n}
Mapping(address_, executable, data) ==
  [address |-> address_, executable |-> executable, data |-> data]

Single == {<<Mapping(16, TRUE, data)>> : data \in Codes(Length)}
Double == {<<Mapping(0, x, first), Mapping(Len(first), y, second)>> :
             x \in BOOLEAN, y \in BOOLEAN,
             first \in Codes(Length2), second \in Codes(Length2)}
Both == Single \cup Double
=============================================================================
