------------------------- MODULE ConstantsAnalysis -------------------------
(***************************************************************************)
(* analysis/constants_analysis.cpp: which registers and temporaries hold a  *)
(* constant on each edge of a REIL flow graph.                              *)
(*                                                                          *)
(* A state maps the places it knows something of - operands, which are      *)
(* registers or temporaries - to a pointer to a constant: {} is the null    *)
(* pointer, which stands for `top', and {c} points to c.  A place that has  *)
(* not been written is not in the map.                                      *)
(***************************************************************************)
EXTENDS FlowGraph

CONSTANTS Size,       \* bound: the native code is at 1 .. Size
          Natives,    \* the native instructions it is made of
          Image,      \* MemoryImage: at each mapped address, [value, writable]
          X0          \* the index of the register x0

Code == 1 .. Size
Address == 0 .. Size + 1
ASSUME SizeAssumption == Size \in Nat \ {0} /\ Address \subseteq Values
ASSUME ImageAssumption ==
  DOMAIN Image \subseteq Values /\ \A a \in DOMAIN Image : Image[a].value \in Values

VARIABLES code,          \* the native instruction at each address of Code
          flow_graph,    \* session_.flow_graph(address_)
          edge_states,   \* the state of each edge that has one
          queue          \* the nodes to look at

vars == <<code, flow_graph, edge_states, queue>>

Reil == [a \in Code |-> code[a].reil]
Ri(node) == InstructionAt(Reil, node)

-----------------------------------------------------------------------------
(* States.                                                                  *)

GetOperand(s, operand) ==
  CASE operand[1] = "imm"                            -> {operand[2]}
    [] operand[1] \in {"reg", "tmp"} /\ operand \in DOMAIN s -> s[operand]
    [] OTHER                                         -> {}

SetOperand(s, operand, value) ==
  [p \in DOMAIN s \cup {operand} |-> IF p = operand THEN value ELSE s[p]]

ClearOperand(s, operand) == [p \in DOMAIN s \ {operand} |-> s[p]]

Clear == [p \in {} |-> {}]

ClearTemporaries(s) == [p \in {q \in DOMAIN s : q[1] # "tmp"} |-> s[p]]

\* Mutant of Merge: a constant is kept where another state has top.
MergeKeeping(states) ==
  [p \in UNION {DOMAIN s : s \in states} |->
     LET constants == {s[p] : s \in {t \in states : p \in DOMAIN t}} \ {{}}
     IN  IF \A v, w \in constants : v = w THEN UNION constants ELSE {}]

\* The states of all input edges, merged: a place keeps its value where the states
\* that have the place agree on it, and is top otherwise.  (Merge takes two.)
Merge(states) ==
  [p \in UNION {DOMAIN s : s \in states} |->
     LET values_of == {s[p] : s \in {t \in states : p \in DOMAIN t}}
     IN  IF \A v, w \in values_of : v = w THEN UNION values_of ELSE {}]

\* The value at an address, if the analysis takes it from the memory image.
ImageValue(address) ==
  {Image[a].value : a \in {b \in DOMAIN Image : b = address /\ Image[b].writable}}

TransformBinary(s, ri) ==
  SetOperand(s, ri.output,
             {Compute(ri.opcode, a, b) :
                a \in GetOperand(s, ri.input0), b \in GetOperand(s, ri.input1)})

\* Nothing is written for an address that is known but cannot be read.
TransformLdm(s, ri) ==
  LET address == GetOperand(s, ri.input0)
      value == UNION {ImageValue(a) : a \in address}
  IN  IF address # {} /\ value = {} THEN s ELSE SetOperand(s, ri.output, value)

\* Str and Sex.
TransformStr(s, ri) == SetOperand(s, ri.output, GetOperand(s, ri.input0))

\* With an unknown condition the two values have to agree.
TransformIte(s, ri) ==
  LET condition == GetOperand(s, ri.input0)
      lhs == GetOperand(s, ri.input1)
      rhs == GetOperand(s, ri.input2)
  IN  SetOperand(s, ri.output, CASE condition = {}  -> lhs \cap rhs
                                 [] condition = {0} -> rhs
                                 [] OTHER           -> lhs)

\* An edge with an unknown predicate tells the value of the jump's operand.
TransformJcc(s, ri, edge) ==
  IF GetOperand(s, ri.input0) = {} /\ edge.kind = "kNativeJump"
  THEN SetOperand(s, ri.output, {AddressOf(edge.target)})
  ELSE s

\* Mutant of Valid: an unknown predicate excludes the jump.
ValidKnown(s, ri, edge) ==
  LET predicate == GetOperand(s, ri.input0)
      flow == edge.kind \in {"kFlow", "kNativeFlow"}
  IN  ri.opcode = "Jcc" => IF predicate \in {{}, {0}} THEN flow ELSE ~flow

\* valid_: a Jcc whose predicate is known excludes edges, and a known target those
\* to another target, but for the edge to 0.
Valid(s, ri, edge) ==
  LET predicate == GetOperand(s, ri.input0)
      target == GetOperand(s, ri.output)
      flow == edge.kind \in {"kFlow", "kNativeFlow"}
  IN  ri.opcode = "Jcc" /\ predicate # {} =>
        IF predicate = {0}
        THEN flow
        ELSE /\ ~flow
             /\ edge.kind \in {"kNativeJump", "kNativeCall"} /\ edge.target # 0
                => target \in {{}, {AddressOf(edge.target)}}

\* The state after the instruction.  (Undef is never emitted.)
TransformState(s, ri, edge) ==
  CASE ri.opcode \in BinaryOpcodes  -> TransformBinary(s, ri)
    [] ri.opcode = "Jcc"            -> TransformJcc(s, ri, edge)
    [] ri.opcode = "Ldm"            -> TransformLdm(s, ri)
    [] ri.opcode \in {"Nop", "Stm"} -> s
    [] ri.opcode \in {"Str", "Sex"} -> TransformStr(s, ri)
    [] ri.opcode = "Unkn"           -> Clear
    [] ri.opcode = "Sys"            -> ClearOperand(s, Reg(X0))
    [] ri.opcode = "Ite"            -> TransformIte(s, ri)

\* Mutants of Transform: temporaries survive the native instruction they belong
\* to, or are lost within it.
TransformKeeping(s, ri, edge) == TransformState(s, ri, edge)
TransformLosing(s, ri, edge) == ClearTemporaries(TransformState(s, ri, edge))

\* The state on an edge.
Transform(s, ri, edge) ==
  IF edge.kind \in NativeKinds THEN ClearTemporaries(TransformState(s, ri, edge))
                               ELSE TransformState(s, ri, edge)

-----------------------------------------------------------------------------
(* The analysis.                                                            *)

Lowest(S) == {a \in S : \A b \in S : a <= b}

StatesInto(node) ==
  {edge_states[e] : e \in EdgesAt(flow_graph.incoming, node) \cap DOMAIN edge_states}

\* AtImpl: the states on the edges into the block, merged, and transformed along
\* the instructions in front of the node.
At(node) ==
  LET start == BasicBlockStart(flow_graph, node)
      state[n \in start .. node] ==
        IF n = start
        THEN Merge(StatesInto(start))
        ELSE LET before == state[n - 1]
             IN  Transform(before, Ri(n - 1), Edge(n - 1, n, "kFlow"))
  IN  state[node]

\* The states on the edges out of the block that ends at node.
OutStates(node) ==
  LET in == At(node)
      valid == {e \in EdgesAt(flow_graph.outgoing, node) : Valid(in, Ri(node), e)}
  IN  [e \in valid |-> Transform(in, Ri(node), e)]

\* What Disassemble makes of the code, see EdgesMatch.
Disassembled ==
  INSTANCE Disassemble WITH
    Instructions <- {[class |-> n.class, target |-> n.target] : n \in Natives},
    code <- [a \in Code |-> [class |-> code[a].class, target |-> code[a].target]],
    entry <- 1, graph <- EmptyGraph, queue <- {}, visited <- {}
NativeEdges == Disassembled!TransferEdges
               \cup (Disassembled!RunOnEdges \ Disassembled!Unsplit)
NativeGraph == GraphOf(NativeEdges)

-----------------------------------------------------------------------------
(* The native instructions.  Each has a class and a target, from which      *)
(* Disassemble makes its native edges, and the REIL code that the           *)
(* translator gives for it.                                                 *)

Temporary(p) == p[1] = "tmp"
Within(ri) == ri.opcode = "Jcc" /\ ri.output[1] = "off"
Hint == [maybe_branch |-> kJump, branch |-> kJump, call |-> kCall, return |-> kReturn]

\* Operands are of the right kind.
Operates(ri) ==
  /\ ri.opcode \in Writing \cup {"Stm", "Jcc", "Nop", "Unkn", "Sys"}
  /\ Reads(ri) \subseteq Operands /\ Writes(ri) \subseteq Places

\* Jumps within the instruction go forward (all labels of translator.cpp do), others are
\* its last, as its class says; a conditional one has its target in a place, and known
\* to the disassembler.
Jumps(n) ==
  /\ n.class \in {"maybe_branch", "branch"} =>
       n.reil[Len(n.reil)].opcode = "Jcc" /\ n.reil[Len(n.reil)].output[1] # "off"
  /\ \A k \in DOMAIN n.reil :
       LET ri == n.reil[k] IN
       /\ Within(ri) => ri.output[2] \in k .. Len(n.reil) - 1
       /\ ri.opcode = "Jcc" /\ ~Within(ri) =>
            /\ k = Len(n.reil) /\ n.class \in DOMAIN Hint /\ ri.input1 = Hint[n.class]
            /\ ri.input0[1] # "imm" =>
                 n.class = "maybe_branch" /\ n.target # 0 /\ ri.output \in Places

\* What follows the k-th instruction in the REIL code of a native one.
After(reil, k) ==
  {j \in DOMAIN reil : j = k + 1 \/ (Within(reil[k]) /\ j = reil[k].output[2] + 1)}

\* Temporaries are written, on every way, before they are read.
WrittenFirst(reil) ==
  LET temporaries == {p \in UNION {Writes(reil[k]) : k \in DOMAIN reil} : Temporary(p)}
  IN  \E written \in [DOMAIN reil -> SUBSET temporaries] :
        /\ written[1] = {}
        /\ \A k \in DOMAIN reil :
             /\ {p \in Reads(reil[k]) : Temporary(p)} \subseteq written[k]
             /\ \A j \in After(reil, k) : written[j] \subseteq written[k] \cup Writes(reil[k])

\* A load writes a temporary of its own, which is read before the next jump or label.
LoadsApart(reil) ==
  \A k \in DOMAIN reil : reil[k].opcode = "Ldm" =>
    /\ Temporary(reil[k].output)
    /\ \A j \in DOMAIN reil \ {k} : reil[k].output \notin Writes(reil[j])
    /\ \A j \in DOMAIN reil : reil[k].output \in Reads(reil[j]) =>
         /\ k < j /\ \A i \in k .. j - 1 : reil[i].opcode # "Jcc"
         /\ \A i \in DOMAIN reil : Within(reil[i]) => reil[i].output[2] + 1 \notin k + 1 .. j

ASSUME NativesAssumption ==
  \A n \in Natives :
    /\ n.class \in Disassembled!Classes /\ n.target \in Address
    /\ Len(n.reil) \in 1 .. Width /\ DOMAIN n.reil = 1 .. Len(n.reil)
    /\ \A k \in DOMAIN n.reil : Operates(n.reil[k])
    /\ Jumps(n) /\ WrittenFirst(n.reil) /\ LoadsApart(n.reil)

-----------------------------------------------------------------------------

Init ==
  /\ code \in [Code -> Natives]
  /\ flow_graph = EmptyGraph
  /\ edge_states = [e \in {} |-> Clear]
  /\ queue = {}

\* The session gets the function's flow graph, and the analysis its entry.
AddFlowGraph ==
  /\ flow_graph = EmptyGraph
  /\ flow_graph' = Create(NativeGraph, Reil)
  /\ queue' = {Node(1, 0)}
  /\ UNCHANGED <<code, edge_states>>

\* Update takes the first node; 0 and what lies in no block are dropped.
Bail(node) ==
  /\ node \in Lowest(queue)
  /\ node = 0 \/ BasicBlockEnd(flow_graph, node) = 0
  /\ queue' = queue \ {node}
  /\ UNCHANGED <<code, flow_graph, edge_states>>

SetStates(out, edges) ==
  edge_states' = [e \in DOMAIN edge_states \cup edges |->
                    IF e \in edges THEN out[e] ELSE edge_states[e]]

\* Calls and returns are not followed.
Requeue(node, edges) ==
  queue' = (queue \ {node})
           \cup {e.target : e \in {f \in edges : f.kind \notin LeavingKinds}}

\* Mutant of UpdateNode: only new states are kept and propagated.
UpdateNodeOnce(node) ==
  LET end == BasicBlockEnd(flow_graph, node)
      out == OutStates(end)
      changed == DOMAIN out \ DOMAIN edge_states
  IN  /\ node \in Lowest(queue) /\ node # 0 /\ end # 0
      /\ SetStates(out, changed)
      /\ Requeue(node, changed)
      /\ UNCHANGED <<code, flow_graph>>

\* Mutant of UpdateNode: states are propagated whether they have changed or not.
UpdateNodeAlways(node) ==
  LET end == BasicBlockEnd(flow_graph, node)
      out == OutStates(end)
  IN  /\ node \in Lowest(queue) /\ node # 0 /\ end # 0
      /\ SetStates(out, DOMAIN out)
      /\ Requeue(node, DOMAIN out)
      /\ UNCHANGED <<code, flow_graph>>

\* The states on the edges out of the node's block are made anew; where one is
\* new or has changed, the edge's target is looked at again.
UpdateNode(node) ==
  LET end == BasicBlockEnd(flow_graph, node)
      out == OutStates(end)
      changed == {e \in DOMAIN out :
                    e \in DOMAIN edge_states => edge_states[e] # out[e]}
  IN  /\ node \in Lowest(queue) /\ node # 0 /\ end # 0
      /\ SetStates(out, changed)
      /\ Requeue(node, changed)
      /\ UNCHANGED <<code, flow_graph>>

Update == \E node \in queue : Bail(node) \/ UpdateNode(node)

-----------------------------------------------------------------------------
(* Correctness.                                                             *)

Nodes == UNION {{Node(a, o) : o \in 0 .. Width - 1} : a \in Address}

Pointers == {{}} \cup {{value} : value \in Values}

\* The states hold pointers to constants, for registers and, on edges within a
\* native instruction only, temporaries.
TypeOK ==
  /\ code \in [Code -> Natives]
  /\ queue \subseteq Nodes
  /\ \A e \in DOMAIN edge_states : \A p \in DOMAIN edge_states[e] :
       /\ edge_states[e][p] \in Pointers
       /\ p[1] # "reg" => p[1] = "tmp" /\ e.kind \notin NativeKinds

\* Update dereferences what AtImpl returns (constants_analysis.cpp:888), which is
\* null for a node whose block starts in another native instruction: no block of
\* a flow graph does, whatever the native graph left out.
BlocksWithinInstruction ==
  \A node \in queue : AddressOf(BasicBlockStart(flow_graph, node))
                      = AddressOf(BasicBlockEnd(flow_graph, node))

\* When Update returns, its states solve the equations of the analysis: in whatever
\* order blocks were looked at, and however states changed, the state on each valid
\* edge out of a block is the transform of the states on the edges into it now.  Not so
\* for a block that a call of the function itself leads to: At merges the state of that
\* call, but a change of it queues nothing.
Stable ==
  queue = {} =>
    \A start \in {Node(1, 0)} \cup {e.target : e \in {f \in DOMAIN edge_states :
                                                         f.kind \notin LeavingKinds}} :
      LET end == BasicBlockEnd(flow_graph, start)
          out == OutStates(end)
          called == \E e \in EdgesAt(flow_graph.incoming, start) \cap DOMAIN edge_states :
                      e.kind \in LeavingKinds
      IN  start # 0 /\ end # 0 /\ ~called =>
            \A e \in DOMAIN out : e \in DOMAIN edge_states /\ edge_states[e] = out[e]
=============================================================================
