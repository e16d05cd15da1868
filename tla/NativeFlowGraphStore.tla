------------------------ MODULE NativeFlowGraphStore ------------------------
(***************************************************************************)
(* One NativeFlowGraph object under any sequence of AddEdge and RemoveEdge, *)
(* saved and loaded in between.  The two maps have to hold the same edges   *)
(* all the time: RemoveEdge and the basic block search read one or the      *)
(* other.  ResolveBranches relies on it when it replaces (source, 0).       *)
(***************************************************************************)
EXTENDS NativeFlowGraph

CONSTANTS Edges,     \* the edges that may be added
          MaxEdges   \* bound: edges in the graph at once

ASSUME EdgesAssumption ==
  Edges \subseteq [source : Nat, target : Nat, kind : Kinds]
ASSUME MaxEdgesAssumption == MaxEdges \in Nat

VARIABLES graph,  \* outgoing_edges_ and incoming_edges_
          found   \* what the last RemoveEdge returned

vars == <<graph, found>>

Held(map) == UNION {map[k] : k \in DOMAIN map}

Init == graph = EmptyGraph /\ found = FALSE

Add(e) ==
  /\ Cardinality(Held(graph.outgoing)) < MaxEdges
  /\ graph' = AddEdge(graph, e)
  /\ UNCHANGED found

Remove(e) ==
  /\ graph' = RemoveEdge(graph, e)
  /\ found' = Found(graph, e)

SaveAndLoad ==
  /\ graph' = Load(Save(graph))
  /\ UNCHANGED found

Next == SaveAndLoad \/ \E e \in Edges : Add(e) \/ Remove(e)

Spec == Init /\ [][Next]_vars
-----------------------------------------------------------------------------

\* The graph is two maps of addresses to sets of edges.
TypeOK == /\ \A map \in {graph.outgoing, graph.incoming} :
               /\ DOMAIN map \subseteq Nat
               /\ \A k \in DOMAIN map : map[k] \subseteq Edges
          /\ found \in BOOLEAN

\* The two maps index the same edges, each under its own key, and no key is
\* left without an edge: incoming_edges().count(a) asks for a key to find out
\* whether a starts a basic block (disassemble.cpp:197), and a stale key would
\* end blocks where none starts.
Mirror ==
  /\ Held(graph.outgoing) = Held(graph.incoming)
  /\ \A k \in DOMAIN graph.outgoing :
       graph.outgoing[k] # {} /\ \A e \in graph.outgoing[k] : e.source = k
  /\ \A k \in DOMAIN graph.incoming :
       graph.incoming[k] # {} /\ \A e \in graph.incoming[k] : e.target = k

\* The maximal runs of the graph, as basic blocks are usually defined: from a
\* leader to an address with outgoing edges, with no leader and no outgoing edge
\* inside.
Runs ==
  LET leaders == {e.target : e \in Held(graph.incoming)}
      ends == {e.source : e \in Held(graph.outgoing)}
  IN  {r \in leaders \X ends :
         /\ r[1] <= r[2]
         /\ \A l \in leaders : ~(r[1] < l /\ l <= r[2])
         /\ \A s \in ends : ~(r[1] <= s /\ s < r[2])}

\* In a graph that has its entry edge, the two searches find for every address
\* the run it lies in, or both find none; and every address of a block is given
\* the same block.
BlocksAreRuns ==
  EdgesAt(graph.outgoing, 0) # {} =>
    \A a \in ({e.source : e \in Edges} \cup {e.target : e \in Edges}) \ {0} :
      LET around == {r \in Runs : r[1] <= a /\ a <= r[2] /\ r[1] # 0}
          block == <<BasicBlockStart(graph, a), BasicBlockEnd(graph, a)>>
      IN  IF around = {} THEN block = <<0, 0>> ELSE around = {block}

\* The object behaves as a set of edges: an edge is there exactly when it was
\* added after it was last removed, RemoveEdge says whether it was, and saving
\* and loading changes nothing.
Contents == INSTANCE EdgeSet WITH edges <- Held(graph.outgoing)
ImplementsEdgeSet == Contents!Spec
=============================================================================
