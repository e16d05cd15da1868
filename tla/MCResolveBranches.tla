-------------------------- MODULE MCResolveBranches --------------------------
(***************************************************************************)
(* The code ResolveBranches is run on: all code of these instructions, with *)
(* every constant in every register that is branched to or called.         *)
(***************************************************************************)
EXTENDS ResolveBranches

Insn(class, target) == [class |-> class, target |-> target]

\* Jumps through a register; what lies behind the code ends every path.
Jumping == {Insn("other", 0), Insn("branch", 0), Insn("maybe_branch", Size)}

\* Calls through a register as well, and a branch over the last instruction or to it.
Calling ==
  {Insn("other", 0), Insn("branch", 0), Insn("call", 0), Insn("maybe_branch", Size - 1)}
=============================================================================
