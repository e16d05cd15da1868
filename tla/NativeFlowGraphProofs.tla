------------------------ MODULE NativeFlowGraphProofs ------------------------
(***************************************************************************)
(* Lemmas about the operators of NativeFlowGraph.  Every graph that the    *)
(* program makes is GraphOf a set of edges, and so its two maps are known  *)
(* when the set is; the searches for a basic block are searches in the     *)
(* set.                                                                     *)
(***************************************************************************)
EXTENDS NativeFlowGraph, FiniteSetTheorems, TLAPS

(* Extreme elements of sets of numbers.                                    *)

\* Every set of natural numbers has a least element: the step from which the
\* proofs below go on where others go on by induction.
LEMMA Least ==
  ASSUME NEW S \in SUBSET Nat, S # {}
  PROVE  \E m \in S : \A k \in S : m <= k
<1>1. PICK m \in S : \A k \in S : ~ (<<k, m>> \in OpToRel(<, Nat))
  BY NatLessThanWellFounded, WFMin, Zenon
<1>2. \A k \in S : <<k, m>> \in OpToRel(<, Nat) <=> k < m
  BY DEF OpToRel
<1>3. m \in Nat /\ \A k \in S : ~(k < m) /\ k \in Nat BY <1>1, <1>2
<1>4. \A k \in S : m <= k BY <1>3
<1> QED BY <1>4

LEMMA MinIs ==
  ASSUME NEW S \in SUBSET Nat, S # {}
  PROVE  Min(S) \in S /\ \A k \in S : Min(S) <= k
<1>1. \E m \in S : \A k \in S : m <= k BY Least
<1> QED BY <1>1 DEF Min

\* A set of numbers with a bound has a greatest element.
LEMMA Greatest ==
  ASSUME NEW S \in SUBSET Nat, S # {}, NEW n \in Nat, \A k \in S : k <= n
  PROVE  \E m \in S : \A k \in S : k <= m
<1> DEFINE T == {n - k : k \in S}
<1>1. T \in SUBSET Nat /\ T # {}
  <2>1. \A k \in S : k \in Nat /\ k <= n OBVIOUS
  <2>2. \A k \in S : n - k \in Nat BY <2>1
  <2> QED BY <2>2
<1>2. \E t \in T : \A k \in T : t <= k
  <2> HIDE DEF T
  <2> QED BY <1>1, Least
<1>3. PICK t \in T : \A k \in T : t <= k BY <1>2
<1>4. PICK m \in S : t = n - m BY <1>3
<1>5. ASSUME NEW k \in S PROVE k <= m
  <2>1. n - m <= n - k BY <1>3, <1>4
  <2>2. k \in Nat /\ m \in Nat OBVIOUS
  <2> QED BY <2>1, <2>2
<1> QED BY <1>5

LEMMA MaxIs ==
  ASSUME NEW S \in SUBSET Nat, S # {}, NEW n \in Nat, \A k \in S : k <= n
  PROVE  Max(S) \in S /\ \A k \in S : k <= Max(S)
<1>1. PICK m \in S : \A k \in S : k <= m BY Greatest
<1>2. \A k \in S : m >= k BY <1>1
<1> QED BY <1>2 DEF Max

-----------------------------------------------------------------------------
(* Graphs and the sets of their edges.                                     *)

Sources(E) == {e.source : e \in E}
Targets(E) == {e.target : e \in E}
EdgesOf(graph) == UNION {graph.outgoing[a] : a \in DOMAIN graph.outgoing}

LEMMA GraphOfMaps ==
  ASSUME NEW E
  PROVE  /\ DOMAIN GraphOf(E).outgoing = Sources(E)
         /\ DOMAIN GraphOf(E).incoming = Targets(E)
         /\ \A a \in Sources(E) : GraphOf(E).outgoing[a] = {e \in E : e.source = a}
         /\ \A a \in Targets(E) : GraphOf(E).incoming[a] = {e \in E : e.target = a}
         /\ \A a : EdgesAt(GraphOf(E).outgoing, a) = {e \in E : e.source = a}
         /\ \A a : EdgesAt(GraphOf(E).incoming, a) = {e \in E : e.target = a}
         /\ EdgesOf(GraphOf(E)) = E
         /\ UNION {GraphOf(E).incoming[a] : a \in Targets(E)} = E
<1>1. GraphOf(E).outgoing = [a \in Sources(E) |-> {e \in E : e.source = a}]
  BY DEF GraphOf, Sources
<1>2. GraphOf(E).incoming = [a \in Targets(E) |-> {e \in E : e.target = a}]
  BY DEF GraphOf, Targets
<1>3. \A a : EdgesAt(GraphOf(E).outgoing, a) = {e \in E : e.source = a}
  BY <1>1 DEF EdgesAt, Sources
<1>4. \A a : EdgesAt(GraphOf(E).incoming, a) = {e \in E : e.target = a}
  BY <1>2 DEF EdgesAt, Targets
<1>5. EdgesOf(GraphOf(E)) = E
  <2>1. \A e \in E : e.source \in Sources(E) /\ e \in GraphOf(E).outgoing[e.source]
    BY <1>1 DEF Sources
  <2> QED BY <1>1, <2>1 DEF EdgesOf
<1>6. UNION {GraphOf(E).incoming[a] : a \in Targets(E)} = E
  <2>1. \A e \in E : e.target \in Targets(E) /\ e \in GraphOf(E).incoming[e.target]
    BY <1>2 DEF Targets
  <2> QED BY <1>2, <2>1
<1> QED BY <1>1, <1>2, <1>3, <1>4, <1>5, <1>6

LEMMA EmptyGraphOf == EmptyGraph = GraphOf({})
BY DEF EmptyGraph, GraphOf

LEMMA AddToGraph ==
  ASSUME NEW E, NEW e PROVE AddEdge(GraphOf(E), e) = GraphOf(E \cup {e})
<1> DEFINE g == GraphOf(E)
           F == E \cup {e}
<1>1. Insert(g.outgoing, e.source, e)
        = [a \in Sources(F) |-> {f \in F : f.source = a}]
  BY GraphOfMaps DEF Insert, Sources
<1>2. Insert(g.incoming, e.target, e)
        = [a \in Targets(F) |-> {f \in F : f.target = a}]
  BY GraphOfMaps DEF Insert, Targets
<1> QED BY <1>1, <1>2 DEF AddEdge, GraphOf, Sources, Targets

LEMMA RemoveFromGraph ==
  ASSUME NEW E, NEW e
  PROVE  /\ RemoveEdge(GraphOf(E), e) = GraphOf(E \ {e})
         /\ Found(GraphOf(E), e) <=> e \in E
<1> DEFINE g == GraphOf(E)
           F == E \ {e}
<1>1. Erase(g.outgoing, e.source, e)
        = [a \in Sources(F) |-> {f \in F : f.source = a}]
  <2> DEFINE left == EdgesAt(g.outgoing, e.source) \ {e}
  <2>1. left = {f \in F : f.source = e.source} BY GraphOfMaps
  <2>2. Sources(E) \ (IF left = {} THEN {e.source} ELSE {}) = Sources(F)
    BY <2>1 DEF Sources
  <2>3. \A a \in Sources(F) \ {e.source} : g.outgoing[a] = {f \in F : f.source = a}
    BY GraphOfMaps DEF Sources
  <2> HIDE DEF left, g
  <2>4. DOMAIN g.outgoing = Sources(E) BY GraphOfMaps DEF g
  <2> QED BY <2>1, <2>2, <2>3, <2>4 DEF Erase, left
<1>2. Erase(g.incoming, e.target, e)
        = [a \in Targets(F) |-> {f \in F : f.target = a}]
  <2> DEFINE left == EdgesAt(g.incoming, e.target) \ {e}
  <2>1. left = {f \in F : f.target = e.target} BY GraphOfMaps
  <2>2. Targets(E) \ (IF left = {} THEN {e.target} ELSE {}) = Targets(F)
    BY <2>1 DEF Targets
  <2>3. \A a \in Targets(F) \ {e.target} : g.incoming[a] = {f \in F : f.target = a}
    BY GraphOfMaps DEF Targets
  <2> HIDE DEF left, g
  <2>4. DOMAIN g.incoming = Targets(E) BY GraphOfMaps DEF g
  <2> QED BY <2>1, <2>2, <2>3, <2>4 DEF Erase, left
<1>3. Found(g, e) <=> e \in E BY GraphOfMaps DEF Found
<1> QED BY <1>1, <1>2, <1>3 DEF RemoveEdge, GraphOf, Sources, Targets

-----------------------------------------------------------------------------
(* Basic blocks.                                                           *)

Numbered(E) == Sources(E) \subseteq Nat /\ Targets(E) \subseteq Nat

\* From a leader to the first address with an edge out, and no leader in between:
\* what Blocks looks for, said of a set of edges.
Block(E, s, t) ==
  /\ s \in Targets(E) /\ t \in Sources(E) /\ s <= t
  /\ \A l \in Targets(E) : ~(s < l /\ l <= t)
  /\ \A r \in Sources(E) : ~(s <= r /\ r < t)
BlockAt(E, n, s, t) == Block(E, s, t) /\ s <= n /\ n <= t

LEMMA OneBlock ==
  ASSUME NEW E, Numbered(E), NEW n \in Nat, NEW s, NEW t, NEW u, NEW v,
         BlockAt(E, n, s, t), BlockAt(E, n, u, v)
  PROVE  s = u /\ t = v
<1>1. s \in Nat /\ t \in Nat /\ u \in Nat /\ v \in Nat BY DEF BlockAt, Block, Numbered
<1>2. s = u BY <1>1 DEF BlockAt, Block
<1>3. t = v BY <1>1, <1>2 DEF BlockAt, Block
<1> QED BY <1>2, <1>3

\* The searches of Blocks find the block around the node when there is one.
LEMMA BlocksOfGraph ==
  ASSUME NEW E, Numbered(E), NEW n \in Nat
  PROVE  /\ \A s, t : BlockAt(E, n, s, t) =>
                Blocks(GraphOf(E), n) = {[start |-> s, end |-> t]}
         /\ Blocks(GraphOf(E), n) # {} =>
              \E s, t \in Nat : /\ BlockAt(E, n, s, t)
                                /\ Blocks(GraphOf(E), n) = {[start |-> s, end |-> t]}
<1> DEFINE starts == {l \in Targets(E) : l <= n}
           start == Max(starts)
           ends == {s \in Sources(E) : s >= start}
           end == Min(ends)
           found == /\ starts # {}
                    /\ ends # {}
                    /\ \A l \in Targets(E) \ starts : l > end
                    /\ end >= n
<1>1. Blocks(GraphOf(E), n) = IF found THEN {[start |-> start, end |-> end]} ELSE {}
  <2>1. DOMAIN GraphOf(E).incoming = Targets(E) /\ DOMAIN GraphOf(E).outgoing = Sources(E)
    BY GraphOfMaps
  <2> QED BY <2>1, Zenon DEF Blocks
<1>2. starts # {} => start \in starts /\ \A l \in starts : l <= start
  <2>1. starts \in SUBSET Nat /\ \A l \in starts : l <= n BY DEF Numbered
  <2> HIDE DEF starts
  <2> QED BY <2>1, MaxIs
<1>3. ends # {} => end \in ends /\ \A s \in ends : end <= s
  <2>1. ends \in SUBSET Nat BY DEF Numbered
  <2> HIDE DEF ends
  <2> QED BY <2>1, MinIs
<1>4. ASSUME NEW s, NEW t, BlockAt(E, n, s, t)
      PROVE  found /\ start = s /\ end = t
  <2>1. s \in starts /\ s \in Nat /\ t \in Nat BY <1>4 DEF BlockAt, Block, Numbered
  <2>2. start \in starts /\ start \in Nat /\ s <= start
    <3>1. starts # {} BY <2>1
    <3>2. start \in starts /\ s <= start BY <1>2, <2>1, <3>1
    <3>3. starts \subseteq Nat BY DEF Numbered
    <3> QED BY <3>2, <3>3
  <2>3. start = s
    <3>1. start \in Targets(E) /\ start <= n BY <2>2
    <3> HIDE DEF start
    <3> QED BY <1>4, <2>1, <2>2, <3>1 DEF BlockAt, Block
  <2> HIDE DEF start
  <2>4. t \in ends BY <1>4, <2>1, <2>3 DEF BlockAt, Block
  <2>5. end \in ends /\ end \in Nat /\ end <= t
    <3>1. end \in ends /\ end <= t BY <1>3, <2>4
    <3>2. ends \subseteq Nat BY DEF Numbered
    <3> QED BY <3>1, <3>2
  <2>6. end = t
    <3>1. end \in Sources(E) /\ end >= s BY <2>3, <2>5
    <3> HIDE DEF end
    <3> QED BY <1>4, <2>1, <2>5, <3>1 DEF BlockAt, Block
  <2> HIDE DEF end
  <2>7. ASSUME NEW l \in Targets(E) \ starts PROVE l > end
    <3>1. l \in Nat /\ ~(l <= n) BY <2>7 DEF Numbered
    <3> QED BY <1>4, <2>1, <2>6, <2>7, <3>1 DEF BlockAt, Block
  <2>8. end >= n BY <1>4, <2>1, <2>6 DEF BlockAt
  <2> QED BY <2>1, <2>3, <2>4, <2>6, <2>7, <2>8
<1>5. ASSUME found PROVE start \in Nat /\ end \in Nat /\ BlockAt(E, n, start, end)
  <2>1. start \in starts /\ \A l \in starts : l <= start BY <1>2, <1>5
  <2>2. end \in ends /\ \A s \in ends : end <= s BY <1>3, <1>5
  <2>3. start \in Targets(E) /\ start \in Nat /\ start <= n BY <2>1 DEF Numbered
  <2>4. end \in Sources(E) /\ end \in Nat /\ end >= start BY <2>2 DEF Numbered
  <2>5. end >= n /\ \A l \in Targets(E) \ starts : l > end BY <1>5
  <2>6. ASSUME NEW l \in Targets(E) PROVE ~(start < l /\ l <= end)
    <3>1. l \in Nat BY DEF Numbered
    <3>2. CASE l \in starts
      <4>1. l <= start BY <2>1, <3>2
      <4> HIDE DEF start, end
      <4> QED BY <2>3, <3>1, <4>1
    <3>3. CASE l \notin starts
      <4>1. l > end BY <2>5, <3>3
      <4> HIDE DEF start, end
      <4> QED BY <2>4, <3>1, <4>1
    <3> QED BY <3>2, <3>3
  <2>7. ASSUME NEW r \in Sources(E) PROVE ~(start <= r /\ r < end)
    <3>1. r \in Nat BY DEF Numbered
    <3>2. r >= start => end <= r BY <2>2
    <3> HIDE DEF start, end
    <3> QED BY <2>3, <2>4, <3>1, <3>2
  <2> HIDE DEF start, end, starts, ends
  <2>8. start <= end BY <2>3, <2>4
  <2> QED BY <2>3, <2>4, <2>5, <2>6, <2>7, <2>8 DEF BlockAt, Block
<1> HIDE DEF start, end, found
<1>6. \A s, t : BlockAt(E, n, s, t) => Blocks(GraphOf(E), n) = {[start |-> s, end |-> t]}
  BY <1>1, <1>4
<1>7. Blocks(GraphOf(E), n) # {} => found BY <1>1
<1> QED BY <1>1, <1>5, <1>6, <1>7

LEMMA BlockStartEnd ==
  ASSUME NEW E, Numbered(E), NEW n \in Nat
  PROVE  LET start == BasicBlockStart(GraphOf(E), n)
             end == BasicBlockEnd(GraphOf(E), n)
         IN  /\ start \in Nat /\ end \in Nat
             /\ \A s, t : BlockAt(E, n, s, t) => start = s /\ end = t
             /\ start # 0 => BlockAt(E, n, start, end)
             /\ end # 0 => BlockAt(E, n, start, end)
<1>1. CASE Blocks(GraphOf(E), n) = {}
  <2>1. BasicBlockStart(GraphOf(E), n) = 0 /\ BasicBlockEnd(GraphOf(E), n) = 0
    BY <1>1 DEF BasicBlockStart, BasicBlockEnd
  <2>2. ASSUME NEW s, NEW t PROVE ~BlockAt(E, n, s, t)
    <3> SUFFICES ASSUME BlockAt(E, n, s, t) PROVE FALSE OBVIOUS
    <3>1. Blocks(GraphOf(E), n) = {[start |-> s, end |-> t]} BY BlocksOfGraph, SMT
    <3> QED BY <1>1, <3>1
  <2> QED BY <2>1, <2>2
<1>2. CASE Blocks(GraphOf(E), n) # {}
  <2>1. PICK s \in Nat, t \in Nat :
          BlockAt(E, n, s, t) /\ Blocks(GraphOf(E), n) = {[start |-> s, end |-> t]}
    BY <1>2, BlocksOfGraph
  <2>2. BasicBlockStart(GraphOf(E), n) = s /\ BasicBlockEnd(GraphOf(E), n) = t
    <3> DEFINE b == [start |-> s, end |-> t]
    <3>1. b.start = s /\ b.end = t /\ (CHOOSE c \in {b} : TRUE) = b OBVIOUS
    <3> HIDE DEF b
    <3>2. Blocks(GraphOf(E), n) = {b} BY <2>1 DEF b
    <3> QED BY <1>2, <3>1, <3>2, Zenon DEF BasicBlockStart, BasicBlockEnd
  <2>3. \A u, v : BlockAt(E, n, u, v) => u = s /\ v = t BY <2>1, OneBlock
  <2> QED BY <2>1, <2>2, <2>3
<1> QED BY <1>1, <1>2

-----------------------------------------------------------------------------
(* Saving and loading.                                                     *)

LoadedEdge(proto) == Edge(proto.source, proto.target, NativeEdgeKind(proto.kind))

\* Load adds the edges one after the other; in what order makes no difference.
LEMMA LoadOfSet ==
  ASSUME NEW S, IsFiniteSet(S)
  PROVE  Load(S) = GraphOf({LoadedEdge(proto) : proto \in S})
<1> DEFINE Pick(s) == CHOOSE x \in s : TRUE
           Rest(s) == s \ {Pick(s)}
           F(h) == [s \in SUBSET S |-> IF s = {} THEN EmptyGraph
                                       ELSE LoadEdge(Pick(s), h[Rest(s)])]
           iter == CHOOSE h : h = F(h)
           g == [s \in SUBSET S |-> GraphOf({LoadedEdge(proto) : proto \in s})]
<1>1. Load(S) = iter[S] BY Zenon DEF Load, FoldSet, MapThenFoldSet
<1>2. \A s \in SUBSET S : s # {} => Pick(s) \in s /\ Rest(s) \in SUBSET S
  OBVIOUS
<1>3. ASSUME NEW s \in SUBSET S, s # {}
      PROVE  g[s] = LoadEdge(Pick(s), g[Rest(s)])
  <2>1. {LoadedEdge(proto) : proto \in s}
          = {LoadedEdge(proto) : proto \in Rest(s)} \cup {LoadedEdge(Pick(s))}
    BY <1>2, <1>3
  <2>2. g[s] = AddEdge(g[Rest(s)], LoadedEdge(Pick(s)))
    <3> HIDE DEF Rest, Pick
    <3> QED BY <1>2, <1>3, <2>1, AddToGraph
  <2> QED BY <2>2 DEF LoadEdge, LoadedEdge
<1>4. g[{}] = EmptyGraph
  <2>1. {LoadedEdge(proto) : proto \in {}} = {} OBVIOUS
  <2> QED BY <2>1, EmptyGraphOf
<1>5. g = F(g)
  <2> HIDE DEF Rest, Pick
  <2> QED BY <1>3, <1>4
<1>6. iter = F(iter)
  <2> HIDE DEF g, F
  <2> QED BY <1>5, Zenon
<1> HIDE DEF iter, g
<1>7. iter[S] = g[S]
  <2> DEFINE T == {s \in SUBSET S : iter[s] # g[s]}
  <2> SUFFICES ASSUME T # {} PROVE FALSE OBVIOUS
  <2>1. IsWellFoundedOn(StrictSubsetOrdering(S), SUBSET S)
    BY FS_StrictSubsetOrderingWellFounded, FS_FiniteSubsetsOfFinite
  <2>2. T \subseteq SUBSET S OBVIOUS
  <2>3. PICK s \in T : \A r \in T : <<r, s>> \notin StrictSubsetOrdering(S)
    <3> HIDE DEF T
    <3> QED BY <2>1, <2>2, WFMin, Zenon
  <2>4. s # {} BY <1>4, <1>6, <2>3
  <2>5. <<Rest(s), s>> \in StrictSubsetOrdering(S)
    BY <1>2, <2>2, <2>3, <2>4 DEF StrictSubsetOrdering
  <2>6. iter[Rest(s)] = g[Rest(s)] BY <1>2, <2>2, <2>3, <2>4, <2>5
  <2>7. iter[s] = LoadEdge(Pick(s), iter[Rest(s)])
    <3> HIDE DEF Rest, Pick
    <3> QED BY <1>6, <2>2, <2>3, <2>4
  <2> QED BY <1>3, <2>2, <2>3, <2>4, <2>6, <2>7
<1> QED BY <1>1, <1>7 DEF g

\* The kind of an edge is written and read back as the same number.
LEMMA SaveAndLoadOf ==
  ASSUME NEW E, IsFiniteSet(E), E \subseteq [source : Nat, target : Nat, kind : Kinds]
  PROVE  Load(Save(GraphOf(E))) = GraphOf(E)
<1> DEFINE Saved(e) == [source |-> e.source, target |-> e.target, kind |-> ProtoNumber[e.kind]]
           S == {Saved(e) : e \in E}
<1>1. Save(GraphOf(E)) = S
  <2>1. EdgesOf(GraphOf(E)) = E BY GraphOfMaps
  <2> QED BY <2>1, Zenon DEF Save, EdgesOf
<1>2. IsFiniteSet(S)
  <2> DEFINE f == [e \in E |-> Saved(e)]
  <2>1. f \in Surjection(E, S) BY DEF Surjection
  <2> HIDE DEF f, S
  <2> QED BY <2>1, FS_Surjection
<1>3. ASSUME NEW e \in E PROVE LoadedEdge(Saved(e)) = e
  <2>1. e = [source |-> e.source, target |-> e.target, kind |-> e.kind] OBVIOUS
  <2>2. NativeEdgeKind(ProtoNumber[e.kind]) = e.kind
    BY DEF Kinds, ProtoNumber, NativeEdgeKind
  <2> QED BY <2>1, <2>2 DEF LoadedEdge, Edge
<1>4. {LoadedEdge(proto) : proto \in S} = E BY <1>3
<1> HIDE DEF S
<1> QED BY <1>1, <1>2, <1>4, LoadOfSet
=============================================================================
