----------------------------- MODULE FlowGraph -----------------------------
(***************************************************************************)
(* flow_graph/flow_graph.cpp: the flow graph of a function's REIL code,     *)
(* made from its NativeFlowGraph.  The two edge maps and the searches for   *)
(* blocks are those of NativeFlowGraph, line by line, on nodes in the place *)
(* of addresses.                                                            *)
(*                                                                          *)
(* A node is an address and an offset into the REIL code of the native      *)
(* instruction there, compared in this order; here it is one number.        *)
(***************************************************************************)
EXTENDS NativeFlowGraph, Reil

CONSTANT Width     \* bound: a native instruction has at most Width REIL instructions
ASSUME WidthAssumption == Width \in Nat \ {0}

Node(address, offset) == address * Width + offset
AddressOf(node) == node \div Width
OffsetOf(node) == node % Width

\* Edges between native instructions, and those that end an analysis.
NativeKinds == {"kNativeFlow", "kNativeJump", "kNativeCall", "kNativeReturn"}
LeavingKinds == {"kNativeCall", "kNativeReturn"}

\* InstructionProvider: the REIL instruction at a node, and the node after it.
InstructionAt(reil, node) == reil[AddressOf(node)][OffsetOf(node) + 1]
NextNode(reil, node) ==
  IF OffsetOf(node) + 1 < Len(reil[AddressOf(node)])
  THEN node + 1
  ELSE Node(AddressOf(node) + 1, 0)

\* The native blocks Create takes: not those of other functions, which are only
\* called, and those that are complete and end in memory (NextNativeInstruction
\* of an address outside gives 0).
NativeBlocks(nfg, reil) ==
  UNION {Blocks(nfg, a) : a \in
    {b \in DOMAIN nfg.incoming \ {0} :
       \E e \in nfg.incoming[b] : e.kind # "kCall" \/ e.source = 0}}

NodesIn(block, reil) ==
  IF block.end \in DOMAIN reil
  THEN UNION {{Node(a, o) : o \in 0 .. Len(reil[a]) - 1} :
                a \in block.start .. block.end}
  ELSE {}

\* The edges of a Jcc that is taken: one to an offset in the same instruction,
\* or one for each native edge of the kind its hint says.
JccEdges(nfg, reil, node) ==
  LET ri == InstructionAt(reil, node)
      a == AddressOf(node)
      hinted == <<"kJump", "kCall", "kReturn">>[ri.input1[2] + 1]
      kind == [kJump |-> "kNativeJump", kCall |-> "kNativeCall",
               kReturn |-> "kNativeReturn"]
  IN  IF ri.output[1] = "off"
      THEN {Edge(node, Node(a, ri.output[2]), "kJump")}
      ELSE {Edge(node, Node(e.target, 0), kind[e.kind]) :
              e \in {f \in EdgesAt(nfg.outgoing, a) : f.kind = hinted}}

\* A Jcc with a constant predicate does not flow on, but for a call; a return
\* never does.
Flows(ri) ==
  \/ ri.input1 = kCall
  \/ ri.input1 # kReturn /\ (ri.input0[1] = "imm" => ri.input0[2] = 0)

\* Mutant of FlowEdges: only a Jcc ends a block.
FlowEdgesFromJcc(reil, node) ==
  LET ri == InstructionAt(reil, node)
      next == NextNode(reil, node)
  IN  IF ri.opcode = "Jcc" /\ Flows(ri)
      THEN {Edge(node, next, IF AddressOf(node) # AddressOf(next) THEN "kNativeFlow"
                                                                 ELSE "kFlow")}
      ELSE {}

\* Within a native instruction only a Jcc ends a block.
FlowEdges(reil, node) ==
  LET ri == InstructionAt(reil, node)
      next == NextNode(reil, node)
  IN  IF AddressOf(node) # AddressOf(next)
      THEN IF ri.opcode = "Jcc" /\ ~Flows(ri) THEN {}
           ELSE {Edge(node, next, "kNativeFlow")}
      ELSE IF ri.opcode = "Jcc" /\ Flows(ri) THEN {Edge(node, next, "kFlow")}
           ELSE {}

\* FlowGraph::Create without its limit on the size of a block.
Create(nfg, reil) ==
  LET entry == {Edge(0, Node(e.target, 0), "kNativeCall") :
                  e \in EdgesAt(nfg.outgoing, 0)}
      nodes == UNION {NodesIn(b, reil) : b \in NativeBlocks(nfg, reil)}
      edges == entry \cup UNION {(IF InstructionAt(reil, n).opcode = "Jcc"
                                  THEN JccEdges(nfg, reil, n) ELSE {})
                                 \cup FlowEdges(reil, n) : n \in nodes}
  IN  GraphOf(edges)
=============================================================================
