--------------------- MODULE NativeFlowGraphStoreProofs ---------------------
(***************************************************************************)
(* Theorems about NativeFlowGraphStore, for every set of edges.            *)
(***************************************************************************)
EXTENDS NativeFlowGraphStore, NativeFlowGraphProofs

E == Held(graph.outgoing)

\* The two maps are those of a set of edges, and nothing else can be in them.
IInv == /\ graph = GraphOf(E)
        /\ E \subseteq Edges /\ IsFiniteSet(E)
        /\ found \in BOOLEAN

LEMMA HeldIsEdges == E = EdgesOf(graph)
BY DEF E, Held, EdgesOf

LEMMA EdgesNumbered ==
  ASSUME NEW F \in SUBSET Edges
  PROVE  Numbered(F) /\ F \subseteq [source : Nat, target : Nat, kind : Kinds]
<1>1. F \subseteq [source : Nat, target : Nat, kind : Kinds] BY EdgesAssumption
<1>2. \A e \in F : e.source \in Nat /\ e.target \in Nat BY <1>1
<1> QED BY <1>1, <1>2 DEF Numbered, Sources, Targets

LEMMA Initially == Init => IInv /\ E = {}
<1> SUFFICES ASSUME Init PROVE IInv /\ E = {} OBVIOUS
<1>1. graph = GraphOf({}) /\ found = FALSE BY EmptyGraphOf DEF Init
<1>2. E = {} BY <1>1, GraphOfMaps, HeldIsEdges
<1>3. IsFiniteSet({}) BY FS_EmptySet
<1> QED BY <1>1, <1>2, <1>3 DEF IInv

\* What each operation makes of the set of edges.
LEMMA AddStep ==
  ASSUME IInv, NEW e \in Edges, Add(e)
  PROVE  IInv' /\ E' = E \cup {e} /\ found' = found
<1>1. graph' = GraphOf(E \cup {e}) BY AddToGraph DEF Add, IInv
<1>2. E' = E \cup {e}
  <2>1. EdgesOf(graph') = E \cup {e} BY <1>1, GraphOfMaps
  <2> QED BY <2>1 DEF E, Held, EdgesOf
<1>3. IsFiniteSet(E \cup {e}) BY FS_AddElement DEF IInv
<1>4. found' = found BY DEF Add
<1> QED BY <1>1, <1>2, <1>3, <1>4 DEF IInv

LEMMA RemoveStep ==
  ASSUME IInv, NEW e \in Edges, Remove(e)
  PROVE  IInv' /\ E' = E \ {e} /\ found' = (e \in E)
<1>1. graph' = GraphOf(E \ {e}) /\ found' = (e \in E)
  <2>1. graph = GraphOf(E) BY DEF IInv
  <2>2. graph' = RemoveEdge(GraphOf(E), e) BY <2>1, Zenon DEF Remove
  <2> DEFINE out == EdgesAt(GraphOf(E).outgoing, e.source)
             in == EdgesAt(GraphOf(E).incoming, e.target)
  <2>3. found' = (e \in out \/ e \in in) BY <2>1, Zenon DEF Remove, Found
  <2>4. e \in out \/ e \in in <=> e \in E BY RemoveFromGraph DEF Found
  <2> HIDE DEF out, in
  <2>5. found' = (e \in E) BY <2>3, <2>4, SMT
  <2> QED BY <2>2, <2>5, RemoveFromGraph
<1>2. E' = E \ {e}
  <2>1. EdgesOf(graph') = E \ {e} BY <1>1, GraphOfMaps
  <2> QED BY <2>1 DEF E, Held, EdgesOf
<1>3. IsFiniteSet(E \ {e}) BY FS_RemoveElement DEF IInv
<1>4. (e \in E) \in BOOLEAN OBVIOUS
<1> QED BY <1>1, <1>2, <1>3, <1>4 DEF IInv

LEMMA SaveAndLoadStep ==
  ASSUME IInv, SaveAndLoad PROVE UNCHANGED vars
<1>1. Load(Save(GraphOf(E))) = GraphOf(E)
  BY EdgesNumbered, SaveAndLoadOf DEF IInv
<1>2. graph = GraphOf(E) BY DEF IInv
<1>3. graph' = graph BY <1>1, <1>2, Zenon DEF SaveAndLoad
<1> QED BY <1>3 DEF SaveAndLoad, vars

LEMMA Unchanged == ASSUME IInv, UNCHANGED vars PROVE IInv' /\ UNCHANGED <<E, found>>
BY DEF IInv, vars, E

LEMMA Step == IInv /\ [Next]_vars => IInv'
BY AddStep, RemoveStep, SaveAndLoadStep, Unchanged DEF Next

LEMMA Inductive == Spec => []IInv
BY Initially, Step, PTL DEF Spec

-----------------------------------------------------------------------------
(* The theorems.                                                           *)

\* Every key of the two maps is an address, with edges that have been added.
THEOREM StoreTypeCorrect == Spec => []TypeOK
<1>1. IInv => TypeOK
  <2> SUFFICES ASSUME IInv PROVE TypeOK OBVIOUS
  <2>1. Numbered(E) /\ E \subseteq Edges BY EdgesNumbered DEF IInv
  <2>2. \A k \in DOMAIN graph.outgoing : k \in Nat /\ graph.outgoing[k] \subseteq Edges
    BY <2>1, GraphOfMaps DEF IInv, Numbered
  <2>3. \A k \in DOMAIN graph.incoming : k \in Nat /\ graph.incoming[k] \subseteq Edges
    BY <2>1, GraphOfMaps DEF IInv, Numbered
  <2> QED BY <2>2, <2>3 DEF TypeOK, IInv
<1> QED BY <1>1, Inductive, PTL

\* The two maps index the same edges, and no key is left without one, after any
\* sequence of AddEdge and RemoveEdge, saved and loaded in between.
THEOREM StoreMirror == Spec => []Mirror
<1>1. IInv => Mirror
  <2> SUFFICES ASSUME IInv PROVE Mirror OBVIOUS
  <2>1. graph = GraphOf(E) BY DEF IInv
  <2>2. Held(graph.incoming) = E BY <2>1, GraphOfMaps DEF Held
  <2>3. \A k \in DOMAIN graph.outgoing :
          graph.outgoing[k] # {} /\ \A e \in graph.outgoing[k] : e.source = k
    BY <2>1, GraphOfMaps DEF Sources
  <2>4. \A k \in DOMAIN graph.incoming :
          graph.incoming[k] # {} /\ \A e \in graph.incoming[k] : e.target = k
    BY <2>1, GraphOfMaps DEF Targets
  <2> QED BY <2>2, <2>3, <2>4 DEF Mirror, E
<1> QED BY <1>1, Inductive, PTL

\* The searches for a basic block find the maximal run an address lies in, in every
\* graph that has its entry edge.
THEOREM StoreBlocksAreRuns == Spec => []BlocksAreRuns
<1>1. ASSUME IInv, EdgesAt(graph.outgoing, 0) # {},
             NEW a \in ({e.source : e \in Edges} \cup {e.target : e \in Edges}) \ {0}
      PROVE  LET around == {r \in Runs : r[1] <= a /\ a <= r[2] /\ r[1] # 0}
                 block == <<BasicBlockStart(graph, a), BasicBlockEnd(graph, a)>>
             IN  IF around = {} THEN block = <<0, 0>> ELSE around = {block}
  <2> DEFINE around == {r \in Runs : r[1] <= a /\ a <= r[2] /\ r[1] # 0}
             start == BasicBlockStart(graph, a)
             end == BasicBlockEnd(graph, a)
  <2>1. graph = GraphOf(E) /\ Numbered(E) BY <1>1, EdgesNumbered DEF IInv
  <2>2. a \in Nat BY <1>1, EdgesNumbered DEF Numbered, Sources, Targets
  <2>3. Held(graph.outgoing) = E /\ Held(graph.incoming) = E
    BY <2>1, GraphOfMaps DEF Held, E
  <2>4. \A r \in Targets(E) \X Sources(E) : r \in Runs <=> Block(E, r[1], r[2])
    BY <2>3 DEF Runs, Block, Targets, Sources
  <2>5. Runs \subseteq Targets(E) \X Sources(E)
    BY <2>3 DEF Runs, Targets, Sources
  <2>6. /\ start \in Nat /\ end \in Nat
        /\ \A s, t : BlockAt(E, a, s, t) => start = s /\ end = t
        /\ start # 0 => BlockAt(E, a, start, end)
        /\ end # 0 => BlockAt(E, a, start, end)
    BY <2>1, <2>2, BlockStartEnd
  <2>7. \A r \in around : BlockAt(E, a, r[1], r[2]) /\ r = <<r[1], r[2]>>
    BY <2>4, <2>5 DEF BlockAt
  <2>8. 0 \in Sources(E) BY <1>1, <2>1, GraphOfMaps DEF Sources
  <2>9. ~BlockAt(E, a, 0, end)
    BY <1>1, <2>2, <2>6, <2>8 DEF BlockAt, Block
  <2> HIDE DEF start, end
  <2>10. CASE around = {}
    <3>1. start = 0
      <4> SUFFICES ASSUME start # 0 PROVE FALSE OBVIOUS
      <4>1. BlockAt(E, a, start, end) BY <2>6
      <4>2. <<start, end>> \in Runs BY <2>4, <4>1 DEF BlockAt, Block
      <4>3. <<start, end>> \in around BY <4>1, <4>2 DEF BlockAt
      <4> QED BY <2>10, <4>3
    <3>2. end = 0 BY <2>6, <2>9, <3>1
    <3> QED BY <2>10, <3>1, <3>2 DEF start, end
  <2>11. CASE around # {}
    <3>1. \A r \in around : r = <<start, end>> BY <2>6, <2>7
    <3>2. around = {<<start, end>>} BY <2>11, <3>1
    <3> QED BY <2>11, <3>2 DEF start, end
  <2> QED BY <2>10, <2>11
<1>2. IInv => BlocksAreRuns BY <1>1 DEF BlocksAreRuns
<1> QED BY <1>2, Inductive, PTL

\* The object is a set of edges to its users: AddEdge adds one, RemoveEdge removes
\* one and says whether it was there, saving and loading is a stutter.
THEOREM StoreImplementsEdgeSet == Spec => ImplementsEdgeSet
<1>1. Init => Contents!Init
  <2> SUFFICES ASSUME Init PROVE Contents!Init OBVIOUS
  <2>1. Held(graph.outgoing) = {} BY Initially DEF E
  <2> QED BY <2>1 DEF Contents!Init, Init
<1>2. IInv /\ [Next]_vars => [Contents!Next]_(Contents!vars)
  <2> SUFFICES ASSUME IInv, [Next]_vars PROVE [Contents!Next]_(Contents!vars) OBVIOUS
  <2>1. ASSUME NEW e \in Edges, Add(e) PROVE Contents!Next
    <3>1. Contents!Add(e) BY <2>1, AddStep DEF Contents!Add, E
    <3> QED BY <3>1 DEF Contents!Next
  <2>2. ASSUME NEW e \in Edges, Remove(e) PROVE Contents!Next
    <3>1. Contents!Remove(e) BY <2>2, RemoveStep DEF Contents!Remove, E
    <3> QED BY <3>1 DEF Contents!Next
  <2>3. ASSUME UNCHANGED vars PROVE UNCHANGED Contents!vars
    BY <2>3, Unchanged DEF Contents!vars, E
  <2> QED BY <2>1, <2>2, <2>3, SaveAndLoadStep DEF Next
<1> QED BY <1>1, <1>2, Inductive, PTL DEF Spec, Contents!Spec, ImplementsEdgeSet
=============================================================================
