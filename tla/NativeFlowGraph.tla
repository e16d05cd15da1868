--------------------------- MODULE NativeFlowGraph ---------------------------
(***************************************************************************)
(* flow_graph/native_flow_graph.cpp as operators on a graph value: the two *)
(* std::maps that index the same edges by source and by target, the basic  *)
(* blocks read off them, and the translation to and from the saved form.   *)
(* An address counts instructions: address + 1 is the code's address + 4.  *)
(***************************************************************************)
EXTENDS Integers, FiniteSetsExt

Kinds == {"kInvalid", "kFlow", "kJump", "kCall", "kReturn", "kBreak"}

Edge(source, target, kind) ==
  [source |-> source, target |-> target, kind |-> kind]

\* Both maps hold no key without an edge.
EmptyGraph == [outgoing |-> [a \in {} |-> {}], incoming |-> [a \in {} |-> {}]]

\* outgoing_edges(node), incoming_edges(node): no edges where there is no key.
EdgesAt(map, node) == IF node \in DOMAIN map THEN map[node] ELSE {}

Insert(map, node, edge) ==
  [k \in DOMAIN map \cup {node} |->
     IF k = node THEN EdgesAt(map, node) \cup {edge} ELSE map[k]]

\* Mutant of Erase: the key stays when its last edge is gone.
EraseKeepingKey(map, node, edge) ==
  [k \in DOMAIN map |-> IF k = node THEN map[k] \ {edge} ELSE map[k]]

\* Erase the edge, and the key with its last edge.
Erase(map, node, edge) ==
  LET left == EdgesAt(map, node) \ {edge}
  IN  [k \in DOMAIN map \ (IF left = {} THEN {node} ELSE {}) |->
         IF k = node THEN left ELSE map[k]]

AddEdge(graph, edge) ==
  [outgoing |-> Insert(graph.outgoing, edge.source, edge),
   incoming |-> Insert(graph.incoming, edge.target, edge)]

\* Mutant of RemoveEdge: only the outgoing map is searched for the edge.
RemoveOutgoing(graph, edge) ==
  [graph EXCEPT !.outgoing = Erase(graph.outgoing, edge.source, edge)]

RemoveEdge(graph, edge) ==
  [outgoing |-> Erase(graph.outgoing, edge.source, edge),
   incoming |-> Erase(graph.incoming, edge.target, edge)]

\* What adding the edges, in any order, makes of the empty graph.
GraphOf(edges) ==
  [outgoing |-> [a \in {e.source : e \in edges} |-> {e \in edges : e.source = a}],
   incoming |-> [a \in {e.target : e \in edges} |-> {e \in edges : e.target = a}]]

\* What RemoveEdge returns.
Found(graph, edge) == \/ edge \in EdgesAt(graph.outgoing, edge.source)
                      \/ edge \in EdgesAt(graph.incoming, edge.target)

\* No edge to an unknown target is left: 0 is the target of returns, of breaks
\* and of everything that is not known.
resolved(graph) ==
  \A edge \in EdgesAt(graph.incoming, 0) : edge.kind \in {"kReturn", "kBreak"}

\* Entry() checks that exactly one edge leaves 0.
HasEntry(graph) == \E edge \in EdgesAt(graph.outgoing, 0) :
                     EdgesAt(graph.outgoing, 0) = {edge}
Entry(graph) == (CHOOSE edge \in graph.outgoing[0] : TRUE).target

\* Mutant of Blocks: a next leader inside the run is not noticed.
BlocksAcrossLeaders(graph, node) ==
  LET starts == {l \in DOMAIN graph.incoming : l <= node}
      ends == {s \in DOMAIN graph.outgoing : s >= Max(starts)}
  IN  IF starts # {} /\ ends # {} /\ Min(ends) >= node
      THEN {[start |-> Max(starts), end |-> Min(ends)]}
      ELSE {}

\* The search shared by BasicBlockStart and BasicBlockEnd: the largest leader
\* at or before node, and the first address at or after it that has an outgoing
\* edge.  There is no block if that end does not exist, lies behind the next
\* leader, or before node.
Blocks(graph, node) ==
  LET starts == {l \in DOMAIN graph.incoming : l <= node}
      start == Max(starts)
      ends == {s \in DOMAIN graph.outgoing : s >= start}
      end == Min(ends)
  IN  IF /\ starts # {}
         /\ ends # {}
         /\ \A next_bb_start \in DOMAIN graph.incoming \ starts : next_bb_start > end
         /\ end >= node
      THEN {[start |-> start, end |-> end]}
      ELSE {}

\* 0 where there is no block.
BasicBlockStart(graph, node) ==
  IF Blocks(graph, node) = {} THEN 0
  ELSE (CHOOSE b \in Blocks(graph, node) : TRUE).start
BasicBlockEnd(graph, node) ==
  IF Blocks(graph, node) = {} THEN 0
  ELSE (CHOOSE b \in Blocks(graph, node) : TRUE).end

\* Save writes one proto edge per outgoing edge; its kind is the enumerator of
\* the same name, and INVALID, number 0, when it is not set.  Load casts the
\* number back to a NativeEdgeKind, whose enumerators count from 0 as well.
\* (The first of the two is a mutant: the last enumerator is not written.)
ProtoNumberWithoutBreak == [kInvalid |-> 0, kFlow |-> 1, kJump |-> 2,
                            kCall |-> 3, kReturn |-> 4, kBreak |-> 0]
ProtoNumber == [kInvalid |-> 0, kFlow |-> 1, kJump |-> 2, kCall |-> 3,
                kReturn |-> 4, kBreak |-> 5]
\* (Mutant of Save: the two addresses are swapped.)
SaveSwapped(graph) ==
  {[source |-> edge.target, target |-> edge.source, kind |-> ProtoNumber[edge.kind]] :
     edge \in UNION {graph.outgoing[a] : a \in DOMAIN graph.outgoing}}
Save(graph) ==
  {[source |-> edge.source, target |-> edge.target, kind |-> ProtoNumber[edge.kind]] :
     edge \in UNION {graph.outgoing[a] : a \in DOMAIN graph.outgoing}}

NativeEdgeKind(number) ==
  <<"kInvalid", "kFlow", "kJump", "kCall", "kReturn", "kBreak">>[number + 1]
LoadEdge(proto, graph) ==
  AddEdge(graph, Edge(proto.source, proto.target, NativeEdgeKind(proto.kind)))
Load(saved) == FoldSet(LoadEdge, EmptyGraph, saved)
=============================================================================
