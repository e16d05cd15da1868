---------------------------- MODULE MCDisassemble ----------------------------
(***************************************************************************)
(* The code Disassemble is run on: all code made of these instructions.    *)
(***************************************************************************)
EXTENDS Disassemble

Insn(class, target) == [class |-> class, target |-> target]

\* Every class (brk stands for the classes that end a path in the same way), and
\* branches into every part of the code and to a register.
Mixed ==
  {Insn("other", 0), Insn("brk", 0)}
  \cup {Insn("maybe_branch", t) : t \in {2, 5}}
  \cup {Insn("branch", t) : t \in {0, 3, 4}}
  \cup {Insn("call", 2)}

\* What it takes to branch into a block.
Branches ==
  {Insn("other", 0), Insn("return", 0)}
  \cup {Insn(class, t) : class \in {"maybe_branch", "branch"}, t \in Code}
=============================================================================
