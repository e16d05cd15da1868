----------------------- MODULE MCNativeFlowGraphStore -----------------------
(***************************************************************************)
(* Edges for NativeFlowGraphStore: flow edges from any of four nodes, 0 in *)
(* their number, to any but 0, and edges of every kind into and out of 0.  *)
(***************************************************************************)
EXTENDS NativeFlowGraphStore

MixedEdges == {Edge(s, t, "kFlow") : s \in 0 .. 3, t \in 1 .. 3}
              \cup {Edge(0, 1, k) : k \in Kinds} \cup {Edge(1, 0, k) : k \in Kinds}
=============================================================================
