------------------------------ MODULE EdgeSet ------------------------------
(***************************************************************************)
(* What a NativeFlowGraph is to its users: a set of edges.                 *)
(***************************************************************************)
CONSTANT Edges
VARIABLES edges,   \* the edges of the graph
          found    \* what the last RemoveEdge returned

vars == <<edges, found>>

Init == edges = {} /\ found = FALSE

Add(e) == edges' = edges \cup {e} /\ UNCHANGED found

Remove(e) == found' = (e \in edges) /\ edges' = edges \ {e}

Next == \E e \in Edges : Add(e) \/ Remove(e)

Spec == Init /\ [][Next]_vars
=============================================================================
