---------------------------- MODULE Disassemble ----------------------------
(***************************************************************************)
(* DisassembleFunction and the aarch64 worklist of                         *)
(* disassembler/aarch64/disassemble.cpp: take the lowest queued address,    *)
(* decode it, add its edges to the NativeFlowGraph, queue what may run next.*)
(*                                                                         *)
(* An instruction is what DisassembleInstruction switches on: its class and *)
(* the target its operand gives, 0 for a register.  An address counts       *)
(* instructions from 1; addresses outside the code cannot be read and       *)
(* decode as unallocated.  A branch to the absolute address 0, which the    *)
(* code cannot tell from an unknown target, is left out.                    *)
(***************************************************************************)
EXTENDS NativeFlowGraph

CONSTANTS Size,          \* bound: the code is at 1 .. Size
          Instructions   \* the instructions the code is made of

\* maybe_branch: b.cond, cbz, cbnz, tbz, tbnz.  branch: b, and br* with target 0.
\* call: bl, and blr* with target 0.  return: ret*, eret*.  other: the rest.
Classes == {"maybe_branch", "branch", "call", "return", "brk", "unallocated",
            "other"}
ASSUME SizeAssumption == Size \in Nat \ {0}
ASSUME InstructionsAssumption ==
  Instructions \subseteq [class : Classes, target : 0 .. Size + 1]

Code == 1 .. Size
Address == 0 .. Size + 1     \* the addresses that can occur

VARIABLES code,      \* memory_image: the instruction at each address of Code
          entry,     \* the address of the function
          graph,     \* nfg
          queue,     \* addresses to disassemble
          visited    \* addresses disassembled

vars == <<code, entry, graph, queue, visited>>

DecodeInstruction(a) ==
  IF a \in Code THEN code[a] ELSE [class |-> "unallocated", target |-> 0]

\* DisassembleFunction: the entry edge, then Disassemble(entry).
Init ==
  /\ code \in [Code -> Instructions]
  /\ entry \in Code
  /\ graph = AddEdge(EmptyGraph, Edge(0, entry, "kCall"))
  /\ queue = {entry}
  /\ visited = {}

\* Mutant of AddBranchEdge: no block is ever split.
AddBranchEdgeUnsplit(g, source, target, kind) ==
  AddEdge(g, Edge(source, target, kind))

\* Mutant of AddBranchEdge: a target that starts a block is split off as well.
AddBranchEdgeAtStart(g, source, target, kind) ==
  LET bb_start == BasicBlockStart(g, target)
      split == IF bb_start # 0 /\ bb_start <= target
               THEN AddEdge(g, Edge(target - 1, target, "kFlow"))
               ELSE g
  IN  AddEdge(split, Edge(source, target, kind))

\* A branch into the middle of a block splits it: the instruction before the
\* target gets an edge to the target.
AddBranchEdge(g, source, target, kind) ==
  LET bb_start == BasicBlockStart(g, target)
      split == IF bb_start # 0 /\ bb_start < target
               THEN AddEdge(g, Edge(target - 1, target, "kFlow"))
               ELSE g
  IN  AddEdge(split, Edge(source, target, kind))

AddFlowEdge(a) == AddEdge(graph, Edge(a, a + 1, "kFlow"))

\* The lowest queued address a is taken, and was not visited before.
Take(a) ==
  /\ a \in queue /\ \A b \in queue : a <= b
  /\ a \notin visited
  /\ visited' = visited \cup {a}
  /\ UNCHANGED <<code, entry>>

Queue(a, next_instructions) == queue' = (queue \ {a}) \cup next_instructions

MaybeBranch(a) ==
  LET insn == DecodeInstruction(a) IN
  /\ insn.class = "maybe_branch"
  /\ Take(a)
  /\ graph' = AddBranchEdge(AddFlowEdge(a), a, insn.target, "kJump")
  /\ Queue(a, {a + 1} \cup ({insn.target} \ {0}))

\* Mutant of Branch: an unknown target is queued.
BranchToUnknown(a) ==
  LET insn == DecodeInstruction(a) IN
  /\ insn.class = "branch"
  /\ Take(a)
  /\ graph' = AddBranchEdge(graph, a, insn.target, "kJump")
  /\ Queue(a, {insn.target})

\* An unconditional branch; nothing is queued for a target in a register.
Branch(a) ==
  LET insn == DecodeInstruction(a) IN
  /\ insn.class = "branch"
  /\ Take(a)
  /\ graph' = AddBranchEdge(graph, a, insn.target, "kJump")
  /\ Queue(a, {insn.target} \ {0})

\* Mutant of Call: the callee is disassembled as part of the caller.
CallInto(a) ==
  LET insn == DecodeInstruction(a) IN
  /\ insn.class = "call"
  /\ Take(a)
  /\ graph' = AddBranchEdge(AddFlowEdge(a), a, insn.target, "kCall")
  /\ Queue(a, {a + 1} \cup ({insn.target} \ {0}))

\* The callee is not part of the function.
Call(a) ==
  LET insn == DecodeInstruction(a) IN
  /\ insn.class = "call"
  /\ Take(a)
  /\ graph' = AddBranchEdge(AddFlowEdge(a), a, insn.target, "kCall")
  /\ Queue(a, {a + 1})

\* ret, brk and what cannot be decoded end the path.
EndKind == [return |-> "kReturn", brk |-> "kBreak", unallocated |-> "kInvalid"]
End(a) ==
  LET insn == DecodeInstruction(a) IN
  /\ insn.class \in DOMAIN EndKind
  /\ Take(a)
  /\ graph' = AddEdge(graph, Edge(a, 0, EndKind[insn.class]))
  /\ Queue(a, {})

\* Mutant of Fallthrough: the block is not ended before an existing leader.
FallthroughUnended(a) ==
  /\ DecodeInstruction(a).class = "other"
  /\ Take(a)
  /\ Queue(a, {a + 1})
  /\ UNCHANGED graph

\* Everything else runs on; if the next instruction starts a block already, the
\* current one ends here.
Fallthrough(a) ==
  /\ DecodeInstruction(a).class = "other"
  /\ Take(a)
  /\ graph' = IF a + 1 \in DOMAIN graph.incoming THEN AddFlowEdge(a) ELSE graph
  /\ Queue(a, {a + 1})

\* An address that was visited already is dropped.
Skip(a) ==
  /\ a \in queue /\ \A b \in queue : a <= b
  /\ a \in visited
  /\ queue' = queue \ {a}
  /\ UNCHANGED <<code, entry, graph, visited>>

Visit(a) == \/ MaybeBranch(a) \/ Branch(a) \/ Call(a) \/ End(a) \/ Fallthrough(a)
            \/ Skip(a)

Step == \E a \in queue : Visit(a)

\* Disassemble has returned.
Returned == queue = {} /\ UNCHANGED vars

Next == Step \/ Returned

Spec == Init /\ [][Next]_vars /\ WF_vars(Step)
-----------------------------------------------------------------------------
(* The control flow of the code, defined without the worklist.             *)

Successors(a) ==
  LET insn == DecodeInstruction(a) IN
  CASE insn.class = "maybe_branch"      -> {a + 1, insn.target} \ {0}
    [] insn.class = "branch"            -> {insn.target} \ {0}
    [] insn.class \in {"call", "other"} -> {a + 1}
    [] OTHER                            -> {}

\* The instructions the function may run: the least set that holds its entry
\* and the successors of its members.
Reached ==
  LET closed == {S \in SUBSET (Address \ {0}) :
                   entry \in S /\ \A a \in S : Successors(a) \subseteq S}
  IN  {a \in Address : \A S \in closed : a \in S}

Among(addresses, classes) == {a \in addresses : DecodeInstruction(a).class \in classes}
OfClass(classes) == Among(Reached, classes)

\* The edges of control transfers, and those by which a block runs into the next.
TransferEdges ==
  LET reached == Reached
  IN  {Edge(0, entry, "kCall")}
      \cup {Edge(a, a + 1, "kFlow") : a \in Among(reached, {"maybe_branch", "call"})}
      \cup {Edge(a, DecodeInstruction(a).target, "kJump") :
              a \in Among(reached, {"maybe_branch", "branch"})}
      \cup {Edge(a, DecodeInstruction(a).target, "kCall") : a \in Among(reached, {"call"})}
      \cup {Edge(a, 0, EndKind[DecodeInstruction(a).class]) :
              a \in Among(reached, DOMAIN EndKind)}
RunOnEdges ==
  LET leaders == {e.target : e \in TransferEdges}
  IN  {Edge(a, a + 1, "kFlow") : a \in {b \in OfClass({"other"}) : b + 1 \in leaders}}

\* t is in straight-line code that ends in an unconditional branch back to t, or to
\* an instruction behind t.
LoopsBackTo(t) ==
  \E b \in OfClass({"branch"}) :
    /\ DecodeInstruction(b).target \in t .. b
    /\ (t - 1) .. (b - 1) \subseteq OfClass({"other"})

\* The edges Disassemble leaves out: when Branch looks for the block to split,
\* the branch itself has no edge yet, and its own block is not complete; and the code
\* that then runs into the loop without an edge is in no block, so that no branch
\* that is found later splits it.
Unsplit == {e \in RunOnEdges : LoopsBackTo(e.target)}

GraphEdges == UNION {graph.outgoing[a] : a \in DOMAIN graph.outgoing}

-----------------------------------------------------------------------------
(* Correctness.                                                            *)

TypeOK ==
  /\ code \in [Code -> Instructions] /\ entry \in Code
  /\ GraphEdges \subseteq [source : Address, target : Address, kind : Kinds]
  /\ queue \subseteq Address \ {0} /\ visited \subseteq Address \ {0}

\* Disassemble visits what the function may run, and nothing else: no path is
\* dropped when addresses are queued several times, and callees stay out.
VisitsReached == queue = {} => visited = Reached

\* The finished graph has the edge of every control transfer, and a flow edge
\* wherever a block runs into a leader, although leaders are found in any order:
\* before the code in front of them (disassemble.cpp:197), or after it
\* (disassemble.cpp:62).  It has no other edge.  Only an edge into a loop that is
\* one straight run to an unconditional branch, or into the code that runs straight
\* into such a loop, can be missing.
EdgesMatch ==
  queue = {} =>
    LET transfers == TransferEdges
        runs_on == RunOnEdges
    IN  /\ GraphEdges \subseteq transfers \cup runs_on
        /\ transfers \cup (runs_on \ Unsplit) \subseteq GraphEdges

\* At any time a block found in the graph holds only disassembled instructions:
\* the search for the block to split never takes code that happens to lie
\* between an unfinished leader and a later edge for a block.
BlocksAreCode ==
  \A a \in Address \ {0} :
    BasicBlockStart(graph, a) # 0 =>
      BasicBlockStart(graph, a) .. BasicBlockEnd(graph, a) \subseteq visited

\* At the end every instruction lies in a block, so that FlowGraph::Create and
\* the analyses see it, but for those that run into an unsplit loop.
AllInBlocks ==
  queue = {} =>
    \A a \in visited :
      BasicBlockStart(graph, a) = 0 =>
        \E e \in Unsplit : a <= e.source /\ a .. e.source \subseteq OfClass({"other"})

\* disassemble.cpp:58: "a branch edge can split an existing basic block, so we
\* need to be careful and check if we need to add an extra edge".
BranchesSplitBlocks == queue = {} => RunOnEdges \subseteq GraphEdges
=============================================================================
