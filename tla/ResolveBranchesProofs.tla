------------------------ MODULE ResolveBranchesProofs ------------------------
(***************************************************************************)
(* Theorems about Disassemble and ResolveBranches, for code of any size    *)
(* made of any instructions, with any constants in its registers.          *)
(***************************************************************************)
EXTENDS ResolveBranches, NativeFlowGraphProofs

-----------------------------------------------------------------------------
(* One round: Disassemble.                                                   *)

Class(a) == DecodeInstruction(a).class
Target(a) == DecodeInstruction(a).target

\* The edges of GraphEdges, as TransferEdges says, of the instructions at V.
Transfers(V) ==
  {Edge(0, entry, "kCall")}
  \cup {Edge(a, a + 1, "kFlow") : a \in {b \in V : Class(b) \in {"maybe_branch", "call"}}}
  \cup {Edge(a, Target(a), "kJump") : a \in {b \in V : Class(b) \in {"maybe_branch", "branch"}}}
  \cup {Edge(a, Target(a), "kCall") : a \in {b \in V : Class(b) = "call"}}
  \cup {Edge(a, 0, EndKind[Class(a)]) : a \in {b \in V : Class(b) \in DOMAIN EndKind}}

\* Of the instructions at V, those that run on to the next, and their edges to those
\* that the edges F lead to.
RunningOn(V) == {a \in V : Class(a) = "other"}
RunsOn(V, F) == {Edge(a, a + 1, "kFlow") : a \in {b \in RunningOn(V) : b + 1 \in Targets(F)}}

\* LoopsBackTo, as far as the instructions at V tell.
LoopsBackIn(V, t) ==
  \E b \in V : /\ Class(b) = "branch" /\ Target(b) \in t .. b
               /\ (t - 1) .. (b - 1) \subseteq RunningOn(V)

-----------------------------------------------------------------------------
(* The invariant.                                                          *)

TypeInv ==
  /\ code \in [Code -> Instructions] /\ entry \in Code
  /\ queue \subseteq Address \ {0} /\ visited \subseteq Address \ {0}
  /\ graph = GraphOf(GraphEdges)

\* What is queued can be reached, and what follows something visited is not lost.
ReachInv ==
  /\ entry \in queue \cup visited
  /\ \A a \in visited : Successors(a) \subseteq queue \cup visited
  /\ queue \cup visited \subseteq Reached

\* The edges are those of what has been visited.
EdgesInv ==
  /\ Transfers(visited) \subseteq GraphEdges
  /\ GraphEdges \subseteq Transfers(visited) \cup RunsOn(visited, Transfers(visited))

\* What is queued is the target of an edge or follows an instruction that runs on.
PrecededInv ==
  \A a \in queue \cup visited :
    a \in Targets(GraphEdges) \/ a - 1 \in RunningOn(visited)

\* An instruction that runs on is followed at once: the lowest address is next.
NextInv ==
  \A a \in RunningOn(visited) :
    a + 1 \in visited \/ (a + 1 \in queue /\ \A b \in queue : a + 1 <= b)

\* A block that runs into a leader ends there, but in front of a loop.
SplitInv ==
  \A a \in RunningOn(visited) :
    a + 1 \in Targets(GraphEdges) =>
      Edge(a, a + 1, "kFlow") \in GraphEdges \/ LoopsBackIn(visited, a + 1)

IInv == TypeInv /\ ReachInv /\ EdgesInv /\ PrecededInv /\ NextInv /\ SplitInv

-----------------------------------------------------------------------------
(* The code and its edges.                                                 *)

LEMMA Addresses ==
  /\ Size \in Nat /\ Code = 1 .. Size /\ Address = 0 .. Size + 1
  /\ Address \subseteq Nat /\ Code \subseteq Address \ {0}
BY SizeAssumption DEF Code, Address

LEMMA Decoded ==
  ASSUME code \in [Code -> Instructions], NEW a
  PROVE  /\ Class(a) \in Classes /\ Target(a) \in Address
         /\ a \notin Code => Class(a) = "unallocated"
<1>1. CASE a \in Code
  <2>1. code[a] \in [class : Classes, target : 0 .. Size + 1]
    BY <1>1, InstructionsAssumption
  <2> QED BY <1>1, <2>1 DEF Class, Target, DecodeInstruction, Address
<1>2. CASE a \notin Code
  <2>1. DecodeInstruction(a) = [class |-> "unallocated", target |-> 0]
    BY <1>2 DEF DecodeInstruction
  <2> QED BY <1>2, <2>1, Addresses DEF Class, Target, Classes
<1> QED BY <1>1, <1>2

LEMMA Fields ==
  \A s, t, k : /\ Edge(s, t, k).source = s /\ Edge(s, t, k).target = t
               /\ Edge(s, t, k).kind = k
BY DEF Edge

\* An instruction has an edge of its own but for those that run on.
LEMMA TransferSources ==
  ASSUME code \in [Code -> Instructions], NEW V
  PROVE  /\ Sources(Transfers(V)) = {0} \cup (V \ RunningOn(V))
         /\ \A a \in V : Class(a) \in {"maybe_branch", "call"} =>
                           a + 1 \in Targets(Transfers(V))
<1>1. ASSUME NEW e \in Transfers(V)
      PROVE  e.source = 0 \/ e.source \in V \ RunningOn(V)
  BY <1>1, Fields DEF Transfers, RunningOn, EndKind
<1>2. Edge(0, entry, "kCall") \in Transfers(V) BY DEF Transfers
<1>3. ASSUME NEW a \in V \ RunningOn(V)
      PROVE  \E e \in Transfers(V) : e.source = a
  <2>1. Class(a) \in Classes \ {"other"} BY <1>3, Decoded DEF RunningOn
  <2>2. CASE Class(a) \in {"maybe_branch", "branch"}
    <3>1. Edge(a, Target(a), "kJump") \in Transfers(V) BY <1>3, <2>2 DEF Transfers
    <3> QED BY <3>1, Fields
  <2>3. CASE Class(a) = "call"
    <3>1. Edge(a, Target(a), "kCall") \in Transfers(V) BY <1>3, <2>3 DEF Transfers
    <3> QED BY <3>1, Fields
  <2>4. CASE Class(a) \in DOMAIN EndKind
    <3>1. Edge(a, 0, EndKind[Class(a)]) \in Transfers(V) BY <1>3, <2>4 DEF Transfers
    <3> QED BY <3>1, Fields
  <2> QED BY <2>1, <2>2, <2>3, <2>4 DEF Classes, EndKind
<1>4. ASSUME NEW a \in V, Class(a) \in {"maybe_branch", "call"}
      PROVE  a + 1 \in Targets(Transfers(V))
  <2>1. Edge(a, a + 1, "kFlow") \in Transfers(V) BY <1>4 DEF Transfers
  <2> QED BY <2>1, Fields DEF Targets
<1>5. Sources(Transfers(V)) \subseteq {0} \cup (V \ RunningOn(V)) BY <1>1 DEF Sources
<1>6. {0} \cup (V \ RunningOn(V)) \subseteq Sources(Transfers(V))
  BY <1>2, <1>3, Fields DEF Sources
<1> QED BY <1>4, <1>5, <1>6

LEMMA EdgeFacts ==
  ASSUME IInv
  PROVE  /\ graph = GraphOf(GraphEdges)
         /\ GraphEdges \subseteq [source : Address, target : Address, kind : Kinds]
         /\ Numbered(GraphEdges)
         /\ Sources(GraphEdges) \subseteq {0} \cup visited
         /\ visited \ RunningOn(visited) \subseteq Sources(GraphEdges)
         /\ \A a \in RunningOn(visited) \cap Sources(GraphEdges) :
              a + 1 \in Targets(GraphEdges)
         /\ RunningOn(visited) \subseteq visited \cap Code
<1>1. TypeInv /\ EdgesInv BY DEF IInv
<1>2. RunningOn(visited) \subseteq visited \cap Code
  BY <1>1, Decoded DEF RunningOn, TypeInv
<1>3. Transfers(visited) \subseteq [source : Address, target : Address, kind : Kinds]
  <2>1. \A a \in visited : Target(a) \in Address /\ a \in Address
    BY <1>1, Decoded DEF TypeInv
  <2>2. \A a \in visited : Class(a) # "unallocated" => a + 1 \in Address
    BY <1>1, Decoded, Addresses DEF TypeInv
  <2>3. 0 \in Address /\ entry \in Address BY <1>1, Addresses DEF TypeInv
  <2> QED BY <2>1, <2>2, <2>3 DEF Transfers, Edge, Kinds, EndKind
<1>4. RunsOn(visited, Transfers(visited))
        \subseteq [source : Address, target : Address, kind : Kinds]
  BY <1>2, Addresses DEF RunsOn, Edge, Kinds
<1>5. GraphEdges \subseteq [source : Address, target : Address, kind : Kinds]
  BY <1>1, <1>3, <1>4 DEF EdgesInv
<1>6. Numbered(GraphEdges) BY <1>5, Addresses DEF Numbered, Sources, Targets
<1>7. Sources(RunsOn(visited, Transfers(visited))) \subseteq RunningOn(visited)
  BY Fields DEF RunsOn, Sources
<1>8. /\ Sources(GraphEdges) \subseteq
           Sources(Transfers(visited)) \cup Sources(RunsOn(visited, Transfers(visited)))
      /\ Sources(Transfers(visited)) \subseteq Sources(GraphEdges)
      /\ Targets(Transfers(visited)) \subseteq Targets(GraphEdges)
  BY <1>1 DEF EdgesInv, Sources, Targets
<1>9. ASSUME NEW a \in RunningOn(visited), a \in Sources(GraphEdges)
      PROVE  a + 1 \in Targets(GraphEdges)
  <2>1. PICK e \in GraphEdges : e.source = a BY <1>9 DEF Sources
  <2>2. a # 0 BY <1>1, <1>2, Addresses DEF TypeInv
  <2>3. e \notin Transfers(visited)
    BY <1>1, <1>9, <2>1, <2>2, TransferSources DEF TypeInv, Sources
  <2>4. e \in RunsOn(visited, Transfers(visited)) BY <1>1, <2>3 DEF EdgesInv
  <2>5. e.target = a + 1 BY <2>1, <2>4, Fields DEF RunsOn
  <2> QED BY <2>5 DEF Targets
<1> QED BY <1>1, <1>2, <1>5, <1>6, <1>7, <1>8, <1>9, TransferSources DEF TypeInv

-----------------------------------------------------------------------------
(* Blocks, of any edges F between the instructions W, of which R run on.    *)

\* Every instruction is the target of an edge or follows one that runs on.
Preceded(W, R, F) ==
  /\ W \subseteq Nat \ {0} /\ R \subseteq W /\ Numbered(F)
  /\ \A b \in W : b \in Targets(F) \/ b - 1 \in R

\* Going back from an instruction one comes to a leader.
LEMMA Leader ==
  ASSUME NEW W, NEW R, NEW F, Preceded(W, R, F), NEW b \in W
  PROVE  \E s \in W \cap Targets(F) :
           /\ s <= b /\ s .. (b - 1) \subseteq R
           /\ \A l \in Targets(F) : ~(s < l /\ l <= b)
<1> DEFINE Back == {x \in W : /\ x <= b /\ x .. (b - 1) \subseteq R
                               /\ \A l \in Targets(F) : ~(x < l /\ l <= b)}
<1>1. W \subseteq Nat \ {0} /\ R \subseteq W /\ Targets(F) \subseteq Nat
  BY DEF Preceded, Numbered
<1>2. b \in Back BY <1>1
<1>3. PICK s \in Back : \A x \in Back : s <= x
  <2>1. Back \in SUBSET Nat /\ Back # {} BY <1>1, <1>2
  <2> QED BY <2>1, Least
<1>4. ASSUME s \notin Targets(F) PROVE FALSE
  <2>1. s - 1 \in R BY <1>3, <1>4 DEF Preceded
  <2>2. s - 1 \in Back BY <1>1, <1>3, <1>4, <2>1
  <2> QED BY <1>1, <1>3, <2>2
<1> QED BY <1>3, <1>4

\* Going on from n one comes to an instruction that ends the block.
LEMMA Run ==
  ASSUME NEW R, R \subseteq Code, NEW F, NEW n \in Nat
  PROVE  \E e \in Nat : /\ n <= e /\ n .. (e - 1) \subseteq R
                        /\ \A c \in n .. (e - 1) : c + 1 \notin Targets(F)
                        /\ e \notin R \/ e + 1 \in Targets(F)
<1> DEFINE Ends == {x \in Nat : n <= x /\ (x \notin R \/ x + 1 \in Targets(F))}
<1>1. Size \in Nat /\ R \subseteq 1 .. Size BY Addresses
<1>2. n + Size + 1 \in Ends BY <1>1
<1>3. PICK e \in Ends : \A x \in Ends : e <= x
  <2>1. Ends \in SUBSET Nat /\ Ends # {} BY <1>2
  <2> QED BY <2>1, Least
<1>4. ASSUME NEW c \in n .. (e - 1) PROVE c \in R /\ c + 1 \notin Targets(F)
  BY <1>3
<1> QED BY <1>3, <1>4

\* A block holds instructions only, and all but its last run on.
LEMMA BlockContent ==
  ASSUME NEW W, NEW R, NEW F, Preceded(W, R, F), Sources(F) \subseteq {0} \cup W,
         NEW s, NEW t, Block(F, s, t), s # 0
  PROVE  s .. t \subseteq W /\ s .. (t - 1) \subseteq R
<1>1. /\ W \subseteq Nat \ {0} /\ R \subseteq W
      /\ s \in Nat \ {0} /\ t \in Nat /\ t \in W /\ s <= t
  BY DEF Preceded, Numbered, Block
<1>2. s .. t \subseteq W
  <2> SUFFICES ASSUME s .. t \ W # {} PROVE FALSE OBVIOUS
  <2>1. PICK c \in s .. t \ W : \A k \in s .. t \ W : k <= c
    <3>1. s .. t \ W \in SUBSET Nat /\ \A k \in s .. t \ W : k <= t BY <1>1
    <3> QED BY <1>1, <3>1, Greatest
  <2>2. c + 1 \in s .. t /\ c + 1 \in W BY <1>1, <2>1
  <2>3. c + 1 \notin Targets(F) BY <1>1, <2>1, <2>2 DEF Block
  <2>4. (c + 1) - 1 \in R BY <2>2, <2>3 DEF Preceded
  <2> QED BY <1>1, <2>1, <2>4
<1>3. ASSUME NEW c \in s .. (t - 1) PROVE c \in R
  <2>1. c + 1 \in W BY <1>1, <1>2
  <2>2. c + 1 \notin Targets(F) BY <1>1 DEF Block
  <2>3. (c + 1) - 1 \in R BY <2>1, <2>2 DEF Preceded
  <2> QED BY <1>1, <2>3
<1> QED BY <1>2, <1>3

\* What AddBranchEdge makes of the graph of the edges F: it adds the branch from a to n,
\* and Split, the edge that splits the block if n is in the middle of one.
Splits(W, R, F, a, n, kind, Split) ==
  /\ Split \subseteq {Edge(n - 1, n, "kFlow")}
  /\ AddBranchEdge(GraphOf(F), a, n, kind) = GraphOf(F \cup Split \cup {Edge(a, n, kind)})
  /\ Split # {} => n - 1 \in R /\ n \in W
  /\ Split = {} => \A s, t : BlockAt(F, n, s, t) => s = 0 \/ n <= s

LEMMA AddBranchSplits ==
  ASSUME NEW W, NEW R, NEW F, Preceded(W, R, F), Sources(F) \subseteq {0} \cup W,
         NEW a, NEW n \in Nat, NEW kind
  PROVE  \E Split : Splits(W, R, F, a, n, kind, Split)
<1> DEFINE start == BasicBlockStart(GraphOf(F), n)
           end == BasicBlockEnd(GraphOf(F), n)
           split == Edge(n - 1, n, "kFlow")
<1>1. Numbered(F) BY DEF Preceded
<1>2. /\ start \in Nat /\ end \in Nat
      /\ \A s, t : BlockAt(F, n, s, t) => start = s
      /\ start # 0 => BlockAt(F, n, start, end)
  BY <1>1, BlockStartEnd
<1>3. CASE start # 0 /\ start < n
  <2>1. AddBranchEdge(GraphOf(F), a, n, kind)
          = AddEdge(AddEdge(GraphOf(F), split), Edge(a, n, kind))
    BY <1>3 DEF AddBranchEdge
  <2>2. AddEdge(AddEdge(GraphOf(F), split), Edge(a, n, kind))
          = GraphOf(F \cup {split} \cup {Edge(a, n, kind)})
    BY AddToGraph
  <2>3. Block(F, start, end) /\ n <= end BY <1>2, <1>3 DEF BlockAt
  <2>4. start .. end \subseteq W /\ start .. (end - 1) \subseteq R
    <3> HIDE DEF start, end
    <3> QED BY <1>3, <2>3, BlockContent
  <2>5. n - 1 \in start .. (end - 1) /\ n \in start .. end BY <1>2, <1>3, <2>3
  <2>6. Splits(W, R, F, a, n, kind, {split}) BY <2>1, <2>2, <2>4, <2>5 DEF Splits
  <2> QED BY <2>6
<1>4. CASE ~(start # 0 /\ start < n)
  <2>1. AddBranchEdge(GraphOf(F), a, n, kind) = AddEdge(GraphOf(F), Edge(a, n, kind))
    BY <1>4 DEF AddBranchEdge
  <2>2. AddEdge(GraphOf(F), Edge(a, n, kind)) = GraphOf(F \cup {Edge(a, n, kind)})
    BY AddToGraph
  <2>3. F \cup {} \cup {Edge(a, n, kind)} = F \cup {Edge(a, n, kind)} OBVIOUS
  <2>4. \A s, t : BlockAt(F, n, s, t) => s = 0 \/ n <= s
    <3> HIDE DEF start
    <3> QED BY <1>2, <1>4
  <2>5. Splits(W, R, F, a, n, kind, {}) BY <2>1, <2>2, <2>3, <2>4 DEF Splits
  <2> QED BY <2>5
<1> QED BY <1>3, <1>4

-----------------------------------------------------------------------------
(* A branch, found at the lowest queued address a.                         *)

\* a has been taken from the queue, and F are the edges before the one for its branch
\* to n is added.
Branching(a, n, F) ==
  /\ a \in queue /\ a \notin visited /\ n \in Address
  /\ \A b \in queue : a <= b
  /\ \/ F = GraphEdges /\ Class(a) = "branch" /\ Target(a) = n
     \/ F = GraphEdges \cup {Edge(a, a + 1, "kFlow")}

LEMMA BranchFacts ==
  ASSUME IInv, NEW a, NEW n, NEW F, Branching(a, n, F)
  PROVE  /\ a \in Nat /\ n \in Nat
         /\ Preceded(visited \cup {a}, RunningOn(visited), F)
         /\ Sources(F) \subseteq {0} \cup visited \cup {a}
         /\ \A c \in RunningOn(visited) \cap Sources(F) : c + 1 \in Targets(F)
         /\ \A c \in RunningOn(visited) : c + 1 \in visited \cup {a}
<1> DEFINE W == visited \cup {a}
           R == RunningOn(visited)
           f == Edge(a, a + 1, "kFlow")
<1>1. /\ TypeInv /\ PrecededInv /\ NextInv /\ Numbered(GraphEdges)
      /\ Sources(GraphEdges) \subseteq {0} \cup visited
      /\ R \subseteq visited
      /\ \A c \in R \cap Sources(GraphEdges) : c + 1 \in Targets(GraphEdges)
  BY EdgeFacts DEF IInv
<1>2. /\ a \in Nat \ {0} /\ n \in Nat /\ W \subseteq Nat \ {0} /\ a \notin visited
      /\ a \in queue
  BY <1>1, Addresses DEF TypeInv, Branching
<1>3. /\ Sources(F) \subseteq Sources(GraphEdges) \cup {a}
      /\ Targets(F) \subseteq Targets(GraphEdges) \cup {a + 1}
      /\ Targets(GraphEdges) \subseteq Targets(F)
  <2>1. \A e \in F : e \in GraphEdges \/ e = f BY DEF Branching
  <2>2. GraphEdges \subseteq F BY DEF Branching
  <2> HIDE DEF f
  <2>3. f.source = a /\ f.target = a + 1 BY Fields DEF f
  <2> QED BY <2>1, <2>2, <2>3 DEF Sources, Targets
<1>4. Numbered(F) BY <1>1, <1>2, <1>3 DEF Numbered
<1>5. \A b \in W : b \in Targets(F) \/ b - 1 \in R
  BY <1>1, <1>2, <1>3 DEF PrecededInv
<1>6. \A c \in R : c + 1 \in W
  <2> SUFFICES ASSUME NEW c \in R, c + 1 \notin visited PROVE c + 1 = a OBVIOUS
  <2>1. c + 1 \in queue /\ \A b \in queue : c + 1 <= b BY <1>1 DEF NextInv
  <2>2. a \in Nat /\ c \in Nat /\ c + 1 <= a /\ a <= c + 1
    BY <1>1, <1>2, <2>1 DEF Branching
  <2> QED BY <2>2
<1>7. Preceded(W, R, F) BY <1>1, <1>2, <1>4, <1>5 DEF Preceded
<1>8. ASSUME NEW c \in R, c \in Sources(F) PROVE c + 1 \in Targets(F)
  BY <1>1, <1>2, <1>3, <1>8
<1> QED BY <1>1, <1>2, <1>3, <1>6, <1>7, <1>8

\* The block that a branch goes into the middle of has been disassembled, and is
\* found, or the branch closes a loop.
LEMMA BlockFound ==
  ASSUME IInv, NEW a, NEW n, NEW F, Branching(a, n, F),
         n \notin Targets(F), n - 1 \in RunningOn(visited)
  PROVE  \/ \E s, t : s # 0 /\ s < n /\ BlockAt(F, n, s, t)
         \/ LoopsBackIn(visited \cup {a}, n)
<1> DEFINE W == visited \cup {a}
           R == RunningOn(visited)
<1>1. /\ a \in Nat /\ n \in Nat /\ a \notin visited
      /\ Preceded(W, R, F) /\ Numbered(F)
      /\ \A c \in R \cap Sources(F) : c + 1 \in Targets(F)
      /\ \A c \in R : c + 1 \in W
  BY BranchFacts DEF Preceded, Branching
<1>2. /\ R \subseteq visited /\ R \subseteq Code /\ Code \subseteq Nat \ {0}
      /\ visited \ R \subseteq Sources(GraphEdges) /\ SplitInv
  BY EdgeFacts, Addresses DEF IInv
<1>3. /\ Sources(GraphEdges) \subseteq Sources(F)
      /\ Targets(GraphEdges) \subseteq Targets(F)
      /\ Targets(F) \subseteq Targets(GraphEdges) \cup {a + 1}
  <2>1. \A e \in F : e \in GraphEdges \/ e = Edge(a, a + 1, "kFlow") BY DEF Branching
  <2>2. GraphEdges \subseteq F BY DEF Branching
  <2> QED BY <2>1, <2>2, Fields DEF Sources, Targets
<1>4. PICK s \in W \cap Targets(F) : /\ s <= n - 1 /\ s .. ((n - 1) - 1) \subseteq R
                                     /\ \A l \in Targets(F) : ~(s < l /\ l <= n - 1)
  <2>1. n - 1 \in W BY <1>2
  <2> QED BY <1>1, <2>1, Leader
<1>5. PICK e \in Nat : /\ n <= e /\ n .. (e - 1) \subseteq R
                       /\ \A c \in n .. (e - 1) : c + 1 \notin Targets(F)
                       /\ e \notin R \/ e + 1 \in Targets(F)
  BY <1>1, <1>2, Run
<1>6. s \in Nat \ {0} /\ s < n BY <1>1, <1>4 DEF Preceded
<1>7. e \in W
  <2>1. CASE e = n BY <1>1, <1>2, <2>1
  <2>2. CASE e # n
    <3>1. e - 1 \in R BY <1>1, <1>5, <2>2
    <3>2. (e - 1) + 1 \in W BY <1>1, <3>1
    <3> QED BY <3>2
  <2> QED BY <2>1, <2>2
<1>8. \A c \in s .. (e - 1) : c \in R
  <2> SUFFICES ASSUME NEW c \in s .. (e - 1) PROVE c \in R OBVIOUS
  <2>1. CASE c < n - 1 BY <1>1, <1>4, <1>6, <2>1
  <2>2. CASE c = n - 1 BY <2>2
  <2>3. CASE c > n - 1 BY <1>1, <1>5, <1>6, <2>3
  <2> QED BY <1>1, <1>6, <2>1, <2>2, <2>3
<1>9. \A l \in Targets(F) : ~(s < l /\ l <= e)
  <2> SUFFICES ASSUME NEW l \in Targets(F), s < l, l <= e PROVE FALSE OBVIOUS
  <2>1. l \in Nat BY <1>1 DEF Numbered
  <2>2. l # n /\ l > n - 1 BY <1>1, <1>4, <2>1
  <2>3. l - 1 \in n .. (e - 1) /\ (l - 1) + 1 = l BY <1>1, <2>1, <2>2
  <2> QED BY <1>5, <2>3
<1>10. ASSUME e \in Sources(F) PROVE BlockAt(F, n, s, e)
  <2>1. ASSUME NEW r \in Sources(F), s <= r, r < e PROVE FALSE
    <3>1. r \in Nat BY <1>1 DEF Numbered
    <3>2. r \in R BY <1>6, <1>8, <2>1, <3>1
    <3>3. r + 1 \in Targets(F) BY <1>1, <2>1, <3>2
    <3> QED BY <1>6, <1>9, <2>1, <3>1, <3>3
  <2> QED BY <1>1, <1>4, <1>5, <1>6, <1>9, <1>10, <2>1 DEF BlockAt, Block
<1>11. CASE e \in R
  <2>1. e + 1 \in Targets(GraphEdges) BY <1>1, <1>2, <1>3, <1>5, <1>11
  <2>2. CASE Edge(e, e + 1, "kFlow") \in GraphEdges
    <3>1. e \in Sources(F) BY <1>3, <2>2, Fields DEF Sources
    <3> QED BY <1>6, <1>10, <3>1
  <2>3. CASE LoopsBackIn(visited, e + 1)
    <3>1. PICK b \in visited : /\ Class(b) = "branch" /\ Target(b) \in (e + 1) .. b
                               /\ ((e + 1) - 1) .. (b - 1) \subseteq R
      BY <2>3 DEF LoopsBackIn
    <3>2. b \in Nat /\ b >= e + 1 /\ Target(b) \in n .. b
      BY <1>1, <1>5, <3>1 DEF Preceded
    <3>3. \A c \in (n - 1) .. (b - 1) : c \in R
      <4> SUFFICES ASSUME NEW c \in (n - 1) .. (b - 1) PROVE c \in R OBVIOUS
      <4>1. CASE c < e BY <1>1, <1>6, <1>8, <4>1
      <4>2. CASE c >= e BY <1>1, <1>5, <3>1, <3>2, <4>2
      <4> QED BY <1>1, <4>1, <4>2
    <3>4. R \subseteq RunningOn(W) BY DEF RunningOn
    <3> QED BY <3>1, <3>2, <3>3, <3>4 DEF LoopsBackIn
  <2> QED BY <1>2, <1>11, <2>1, <2>2, <2>3 DEF SplitInv
<1>12. CASE e \notin R /\ e \in visited
  BY <1>2, <1>3, <1>6, <1>10, <1>12
<1>13. CASE e = a
  <2>1. CASE F = GraphEdges \cup {Edge(a, a + 1, "kFlow")}
    <3>1. e \in Sources(F) BY <1>13, <2>1, Fields DEF Sources
    <3> QED BY <1>6, <1>10, <3>1
  <2>2. CASE Class(a) = "branch" /\ Target(a) = n
    <3>1. \A c \in (n - 1) .. (a - 1) : c \in R
      <4> SUFFICES ASSUME NEW c \in (n - 1) .. (a - 1) PROVE c \in s .. (e - 1)
        BY <1>8
      <4> QED BY <1>1, <1>4, <1>6, <1>13
    <3>2. Target(a) \in n .. a BY <1>1, <1>5, <1>13, <2>2
    <3>3. R \subseteq RunningOn(W) BY DEF RunningOn
    <3> QED BY <2>2, <3>1, <3>2, <3>3 DEF LoopsBackIn
  <2> QED BY <2>1, <2>2 DEF Branching
<1> QED BY <1>7, <1>11, <1>12, <1>13

\* The same, of the branch at a: no block is split only where the branch closes a loop.
Added(a, n, F, kind, Split) ==
  /\ Split \subseteq {Edge(n - 1, n, "kFlow")}
  /\ AddBranchEdge(GraphOf(F), a, n, kind) = GraphOf(F \cup Split \cup {Edge(a, n, kind)})
  /\ Split # {} => n - 1 \in RunningOn(visited)
  /\ n \notin Targets(F) /\ n - 1 \in RunningOn(visited) =>
       Split # {} \/ LoopsBackIn(visited \cup {a}, n)

LEMMA AddBranch ==
  ASSUME IInv, NEW a, NEW n, NEW F, Branching(a, n, F), NEW kind
  PROVE  \E Split : Added(a, n, F, kind, Split)
<1> DEFINE W == visited \cup {a}
           R == RunningOn(visited)
<1>1. n \in Nat /\ Preceded(W, R, F) /\ Sources(F) \subseteq {0} \cup W /\ Numbered(F)
  BY BranchFacts DEF Preceded
<1>2. PICK Split : Splits(W, R, F, a, n, kind, Split) BY <1>1, AddBranchSplits
<1>3. ASSUME Split = {}, n \notin Targets(F), n - 1 \in R PROVE LoopsBackIn(W, n)
  <2>1. \A s, t : BlockAt(F, n, s, t) => s = 0 \/ n <= s BY <1>2, <1>3 DEF Splits
  <2>2. \A s, t : BlockAt(F, n, s, t) => s \in Nat
    BY <1>1 DEF BlockAt, Block, Numbered
  <2> QED BY <1>1, <1>3, <2>1, <2>2, BlockFound
<1>4. Added(a, n, F, kind, Split) BY <1>2, <1>3 DEF Splits, Added
<1> QED BY <1>4

-----------------------------------------------------------------------------
(* What the visit of one instruction does.                                 *)

\* The edges of the lowest queued address a, and Split, the ones by which blocks now
\* end in front of a leader.
Visited(a, Split) ==
  /\ a \in queue /\ a \notin visited /\ \A b \in queue : a <= b
  /\ Split \subseteq RunsOn(visited \cup {a}, GraphEdges \cup Transfers({a}))
  /\ \A c \in RunningOn(visited \cup {a}) :
       c + 1 \in Targets(GraphEdges \cup Transfers({a}) \cup Split) =>
         \/ Edge(c, c + 1, "kFlow") \in GraphEdges \cup Transfers({a}) \cup Split
         \/ LoopsBackIn(visited \cup {a}, c + 1)
  /\ code' = code /\ entry' = entry
  /\ visited' = visited \cup {a}
  /\ queue' = (queue \ {a}) \cup Successors(a)
  /\ graph' = GraphOf(GraphEdges \cup Transfers({a}) \cup Split)

LEMMA TransfersOf ==
  ASSUME NEW a
  PROVE  LET enter == Edge(0, entry, "kCall")
             on == Edge(a, a + 1, "kFlow")
         IN  /\ \A V : Transfers(V \cup {a}) = Transfers(V) \cup Transfers({a})
             /\ \A V : enter \in Transfers(V)
             /\ Class(a) = "maybe_branch" =>
                  Transfers({a}) = {enter, on, Edge(a, Target(a), "kJump")}
             /\ Class(a) = "branch" =>
                  Transfers({a}) = {enter, Edge(a, Target(a), "kJump")}
             /\ Class(a) = "call" =>
                  Transfers({a}) = {enter, on, Edge(a, Target(a), "kCall")}
             /\ Class(a) \in DOMAIN EndKind =>
                  Transfers({a}) = {enter, Edge(a, 0, EndKind[Class(a)])}
             /\ Class(a) = "other" => Transfers({a}) = {enter}
<1> DEFINE enter == Edge(0, entry, "kCall")
           on == Edge(a, a + 1, "kFlow")
<1>1. \A V : Transfers(V \cup {a}) = Transfers(V) \cup Transfers({a})
  BY DEF Transfers
<1>2. \A V : enter \in Transfers(V) BY DEF Transfers
<1>3. \A e : e \in Transfers({a}) <=>
        \/ e = enter
        \/ e = on /\ Class(a) \in {"maybe_branch", "call"}
        \/ e = Edge(a, Target(a), "kJump") /\ Class(a) \in {"maybe_branch", "branch"}
        \/ e = Edge(a, Target(a), "kCall") /\ Class(a) = "call"
        \/ e = Edge(a, 0, EndKind[Class(a)]) /\ Class(a) \in DOMAIN EndKind
  BY DEF Transfers
<1>4. DOMAIN EndKind = {"return", "brk", "unallocated"} BY DEF EndKind
<1> HIDE DEF enter, on
<1>5. CASE Class(a) = "maybe_branch" BY <1>1, <1>2, <1>3, <1>4, <1>5 DEF enter, on
<1>6. CASE Class(a) = "branch" BY <1>1, <1>2, <1>3, <1>4, <1>6 DEF enter, on
<1>7. CASE Class(a) = "call" BY <1>1, <1>2, <1>3, <1>4, <1>7 DEF enter, on
<1>8. CASE Class(a) \in DOMAIN EndKind BY <1>1, <1>2, <1>3, <1>4, <1>8 DEF enter, on
<1>9. CASE Class(a) \notin DOMAIN EndKind \cup {"maybe_branch", "branch", "call"}
  BY <1>1, <1>2, <1>3, <1>4, <1>9 DEF enter, on
<1> QED BY <1>5, <1>6, <1>7, <1>8, <1>9

LEMMA TargetsOfUnion ==
  /\ \A E, F : Targets(E \cup F) = Targets(E) \cup Targets(F)
  /\ \A e : Targets({e}) = {e.target}
BY DEF Targets

LEMMA MoreInstructions ==
  ASSUME NEW V, NEW W, V \subseteq W
  PROVE  /\ RunningOn(V) \subseteq RunningOn(W)
         /\ \A t : LoopsBackIn(V, t) => LoopsBackIn(W, t)
<1>1. RunningOn(V) \subseteq RunningOn(W) BY DEF RunningOn
<1> QED BY <1>1 DEF LoopsBackIn

\* In every action the code and the entry stay, and a is the lowest address.
LEMMA Taken ==
  ASSUME IInv, NEW a, Take(a)
  PROVE  /\ a \in queue /\ a \notin visited /\ \A b \in queue : a <= b
         /\ a \in Nat /\ a \in Address
         /\ code' = code /\ entry' = entry /\ visited' = visited \cup {a}
BY Addresses DEF Take, IInv, TypeInv

LEMMA BranchVisited ==
  ASSUME IInv, NEW a, Take(a), NEW F, NEW kind, Branching(a, Target(a), F),
         Class(a) # "other",
         F \cup {Edge(a, Target(a), kind)} = GraphEdges \cup Transfers({a}),
         queue' = (queue \ {a}) \cup Successors(a),
         graph' = AddBranchEdge(GraphOf(F), a, Target(a), kind)
  PROVE  \E Split : Visited(a, Split)
<1> DEFINE n == Target(a)
           e == Edge(a, n, kind)
           W == visited \cup {a}
           G == GraphEdges \cup Transfers({a})
<1>split. PICK Split : Added(a, n, F, kind, Split)
  <2>1. Branching(a, n, F) OBVIOUS
  <2> HIDE DEF n
  <2> QED BY <2>1, AddBranch, Zenon
<1>1. /\ Split \subseteq {Edge(n - 1, n, "kFlow")}
      /\ AddBranchEdge(GraphOf(F), a, n, kind) = GraphOf(F \cup Split \cup {e})
      /\ Split # {} => n - 1 \in RunningOn(visited)
      /\ n \notin Targets(F) /\ n - 1 \in RunningOn(visited) =>
           Split # {} \/ LoopsBackIn(W, n)
  BY <1>split, Zenon DEF Added
<1>2. /\ n \in Nat /\ a \in Nat /\ a \notin visited
      /\ RunningOn(visited) \subseteq Nat /\ SplitInv
  BY BranchFacts, Addresses, EdgeFacts, Taken DEF IInv
<1>3. RunningOn(W) = RunningOn(visited) BY DEF RunningOn
<1>4. F \cup {e} = G /\ F \cup Split \cup {e} = G \cup Split
  <2>1. F \cup {e} = G OBVIOUS
  <2> HIDE DEF e, n, G
  <2> QED BY <2>1
<1>5. Split \subseteq RunsOn(W, G)
  <2> SUFFICES ASSUME Split # {} PROVE Edge(n - 1, n, "kFlow") \in RunsOn(W, G)
    BY <1>1
  <2>1. n - 1 \in RunningOn(W) /\ (n - 1) + 1 = n BY <1>1, <1>2, <1>3
  <2>2. n \in Targets(G)
    <3>1. e \in G BY <1>4
    <3>2. e.target = n BY Fields
    <3> HIDE DEF e, n, G
    <3> QED BY <3>1, <3>2 DEF Targets
  <2> HIDE DEF n, G, W
  <2> QED BY <2>1, <2>2 DEF RunsOn
<1>6. /\ Targets(G \cup Split) \subseteq Targets(GraphEdges) \cup {a + 1, n}
      /\ a + 1 \in Targets(F) \/ Targets(G \cup Split) \subseteq Targets(GraphEdges) \cup {n}
      /\ Targets(F) \subseteq Targets(GraphEdges) \cup {a + 1}
  <2>1. Targets(G \cup Split) = Targets(F) \cup Targets(Split) \cup Targets({e})
    <3> HIDE DEF G, e
    <3>1. Targets(G \cup Split) = Targets(F \cup Split \cup {e}) BY <1>4, Zenon
    <3>2. Targets(F \cup Split \cup {e}) = Targets(F \cup Split) \cup Targets({e})
      BY TargetsOfUnion, Zenon
    <3>3. Targets(F \cup Split) = Targets(F) \cup Targets(Split)
      BY TargetsOfUnion, Zenon
    <3> QED BY <3>1, <3>2, <3>3, Zenon
  <2>2. Targets(Split) \subseteq {n} BY <1>1, Fields DEF Targets
  <2>3. Targets({e}) = {n}
    <3> HIDE DEF n
    <3> QED BY Fields DEF Targets
  <2>4. \/ Targets(F) = Targets(GraphEdges)
        \/ Targets(F) = Targets(GraphEdges) \cup {a + 1}
    <3>1. CASE F = GraphEdges BY <3>1, Zenon
    <3>2. CASE F = GraphEdges \cup {Edge(a, a + 1, "kFlow")}
      <4>1. Targets(F) = Targets(GraphEdges) \cup Targets({Edge(a, a + 1, "kFlow")})
        BY <3>2, TargetsOfUnion, Zenon
      <4>2. Targets({Edge(a, a + 1, "kFlow")}) = {a + 1}
        BY Fields, TargetsOfUnion
      <4> QED BY <4>1, <4>2, Zenon
    <3> QED BY <3>1, <3>2 DEF Branching
  <2> DEFINE TG == Targets(G \cup Split)
             TF == Targets(F)
             TE == Targets(GraphEdges)
  <2>5. TG \subseteq TF \cup {n} BY <2>1, <2>2, <2>3
  <2>6. TF = TE \/ TF = TE \cup {a + 1} BY <2>4
  <2> HIDE DEF TG, TF, TE, n
  <2>7. /\ TG \subseteq TE \cup {a + 1, n}
        /\ a + 1 \in TF \/ TG \subseteq TE \cup {n}
        /\ TF \subseteq TE \cup {a + 1}
    BY <2>5, <2>6
  <2> QED BY <2>7 DEF TG, TF, TE
<1>7. ASSUME NEW c \in RunningOn(W), c + 1 \in Targets(G \cup Split)
      PROVE  Edge(c, c + 1, "kFlow") \in G \cup Split \/ LoopsBackIn(W, c + 1)
  <2>1. c \in RunningOn(visited) /\ c \in Nat /\ c # a
    BY <1>2, <1>3 DEF RunningOn
  <2>2. CASE c + 1 \in Targets(GraphEdges)
    <3>1. Edge(c, c + 1, "kFlow") \in GraphEdges \/ LoopsBackIn(visited, c + 1)
      BY <1>2, <2>1, <2>2 DEF SplitInv
    <3> HIDE DEF W
    <3>2. visited \subseteq W BY DEF W
    <3> QED BY <3>1, <3>2, MoreInstructions
  <2>3. CASE c + 1 = n /\ n \notin Targets(GraphEdges)
    <3>1. n \notin Targets(F) BY <1>2, <1>6, <2>1, <2>3
    <3>2. n - 1 = c BY <1>2, <2>1, <2>3
    <3>3. Split # {} \/ LoopsBackIn(W, n) BY <1>1, <2>1, <3>1, <3>2
    <3>4. Edge(n - 1, n, "kFlow") = Edge(c, c + 1, "kFlow") BY <2>3, <3>2
    <3>5. Split # {} => Edge(c, c + 1, "kFlow") \in Split BY <1>1, <3>4
    <3> HIDE DEF W, n
    <3> QED BY <2>3, <3>3, <3>5
  <2>4. c + 1 # a + 1 BY <1>2, <2>1
  <2> QED BY <1>6, <1>7, <2>2, <2>3, <2>4
<1>8. graph' = GraphOf(G \cup Split) BY <1>1, <1>4
<1> QED BY <1>5, <1>7, <1>8, Taken DEF Visited

LEMMA MaybeBranchVisited ==
  ASSUME IInv, NEW a, MaybeBranch(a) PROVE \E Split : Visited(a, Split)
<1> DEFINE n == Target(a)
           F == GraphEdges \cup {Edge(a, a + 1, "kFlow")}
<1>1. /\ Class(a) = "maybe_branch" /\ Take(a)
      /\ graph' = AddBranchEdge(AddFlowEdge(a), a, n, "kJump")
      /\ queue' = (queue \ {a}) \cup ({a + 1} \cup (({n}) \ {0}))
  BY DEF MaybeBranch, Queue, Class, Target
<1>2. Branching(a, n, F) /\ a + 1 # 0
  BY Taken, Decoded, <1>1 DEF Branching, IInv, TypeInv
<1>3. AddFlowEdge(a) = GraphOf(F)
  BY EdgeFacts, AddToGraph, Zenon DEF AddFlowEdge
<1>4. F \cup {Edge(a, n, "kJump")} = GraphEdges \cup Transfers({a})
  <2>1. Transfers({a}) = {Edge(0, entry, "kCall"), Edge(a, a + 1, "kFlow"),
                          Edge(a, n, "kJump")}
    BY <1>1, TransfersOf
  <2>2. Edge(0, entry, "kCall") \in GraphEdges BY TransfersOf DEF IInv, EdgesInv
  <2> QED BY <2>1, <2>2
<1>5. Successors(a) = {a + 1} \cup ({n} \ {0})
  BY <1>1, <1>2 DEF Successors, Class, Target
<1> QED BY <1>1, <1>2, <1>3, <1>4, <1>5, BranchVisited

LEMMA BranchIsVisited ==
  ASSUME IInv, NEW a, Branch(a) PROVE \E Split : Visited(a, Split)
<1> DEFINE n == Target(a)
<1>1. /\ Class(a) = "branch" /\ Take(a)
      /\ graph' = AddBranchEdge(graph, a, n, "kJump")
      /\ queue' = (queue \ {a}) \cup ({n} \ {0})
  BY DEF Branch, Queue, Class, Target
<1>2. Branching(a, n, GraphEdges)
  BY Taken, Decoded, <1>1 DEF Branching, IInv, TypeInv
<1>3. graph = GraphOf(GraphEdges) BY EdgeFacts
<1>4. GraphEdges \cup {Edge(a, n, "kJump")} = GraphEdges \cup Transfers({a})
  <2>1. Transfers({a}) = {Edge(0, entry, "kCall"), Edge(a, n, "kJump")}
    BY <1>1, TransfersOf
  <2>2. Edge(0, entry, "kCall") \in GraphEdges BY TransfersOf DEF IInv, EdgesInv
  <2> QED BY <2>1, <2>2
<1>5. Successors(a) = {n} \ {0} BY <1>1 DEF Successors, Class, Target
<1> QED BY <1>1, <1>2, <1>3, <1>4, <1>5, BranchVisited

LEMMA CallVisited ==
  ASSUME IInv, NEW a, Call(a) PROVE \E Split : Visited(a, Split)
<1> DEFINE n == Target(a)
           F == GraphEdges \cup {Edge(a, a + 1, "kFlow")}
<1>1. /\ Class(a) = "call" /\ Take(a)
      /\ graph' = AddBranchEdge(AddFlowEdge(a), a, n, "kCall")
      /\ queue' = (queue \ {a}) \cup {a + 1}
  BY DEF Call, Queue, Class, Target
<1>2. Branching(a, n, F)
  BY Taken, Decoded, <1>1 DEF Branching, IInv, TypeInv
<1>3. AddFlowEdge(a) = GraphOf(F)
  BY EdgeFacts, AddToGraph, Zenon DEF AddFlowEdge
<1>4. F \cup {Edge(a, n, "kCall")} = GraphEdges \cup Transfers({a})
  <2>1. Transfers({a}) = {Edge(0, entry, "kCall"), Edge(a, a + 1, "kFlow"),
                          Edge(a, n, "kCall")}
    BY <1>1, TransfersOf
  <2>2. Edge(0, entry, "kCall") \in GraphEdges BY TransfersOf DEF IInv, EdgesInv
  <2> QED BY <2>1, <2>2
<1>5. Successors(a) = {a + 1} BY <1>1 DEF Successors, Class
<1> QED BY <1>1, <1>2, <1>3, <1>4, <1>5, BranchVisited

LEMMA EndVisited ==
  ASSUME IInv, NEW a, End(a) PROVE \E Split : Visited(a, Split)
<1> DEFINE e == Edge(a, 0, EndKind[Class(a)])
           G == GraphEdges \cup Transfers({a})
<1>1. /\ Class(a) \in DOMAIN EndKind /\ Take(a)
      /\ graph' = AddEdge(graph, e)
      /\ queue' = (queue \ {a}) \cup {}
  BY DEF End, Queue, Class
<1>2. Class(a) \in {"return", "brk", "unallocated"} BY <1>1 DEF EndKind
<1>3. /\ RunningOn(visited \cup {a}) = RunningOn(visited)
      /\ RunningOn(visited) \subseteq Nat
  BY <1>2, EdgeFacts, Addresses DEF RunningOn
<1>4. G = GraphEdges \cup {e}
  <2>1. Transfers({a}) = {Edge(0, entry, "kCall"), e} BY <1>1, TransfersOf
  <2>2. Edge(0, entry, "kCall") \in GraphEdges BY TransfersOf DEF IInv, EdgesInv
  <2> QED BY <2>1, <2>2
<1>5. Targets(G) = Targets(GraphEdges) \cup {0}
  <2>1. e.target = 0 BY Fields
  <2> HIDE DEF e, G
  <2> QED BY <1>4, <2>1 DEF Targets
<1>6. graph' = GraphOf(G \cup {})
  <2>1. graph' = GraphOf(GraphEdges \cup {e})
    BY <1>1, EdgeFacts, AddToGraph, Zenon
  <2>2. G \cup {} = GraphEdges \cup {e} BY <1>4
  <2> QED BY <2>1, <2>2, Zenon
<1>7. ASSUME NEW c \in RunningOn(visited \cup {a}), c + 1 \in Targets(G \cup {})
      PROVE  Edge(c, c + 1, "kFlow") \in G \cup {} \/ LoopsBackIn(visited \cup {a}, c + 1)
  <2>1. Targets(G \cup {}) = Targets(G)
    <3>1. G \cup {} = G OBVIOUS
    <3> QED BY <3>1, Zenon
  <2>2. c + 1 \in Targets(GraphEdges) BY <1>3, <1>5, <1>7, <2>1
  <2>3. Edge(c, c + 1, "kFlow") \in GraphEdges \/ LoopsBackIn(visited, c + 1)
    BY <1>3, <1>7, <2>2 DEF IInv, SplitInv
  <2>4. \A t : LoopsBackIn(visited, t) => LoopsBackIn(visited \cup {a}, t)
    <3>1. visited \subseteq visited \cup {a} OBVIOUS
    <3> QED BY <3>1, MoreInstructions, Zenon
  <2> QED BY <2>3, <2>4
<1>8. Successors(a) = {} BY <1>2 DEF Successors, Class
<1>9. Visited(a, {}) BY <1>1, <1>6, <1>7, <1>8, Taken DEF Visited
<1> QED BY <1>9

LEMMA FallthroughVisited ==
  ASSUME IInv, NEW a, Fallthrough(a) PROVE \E Split : Visited(a, Split)
<1> DEFINE on == Edge(a, a + 1, "kFlow")
           G == GraphEdges \cup Transfers({a})
           Split == IF a + 1 \in Targets(GraphEdges) THEN {on} ELSE {}
<1>1. /\ Class(a) = "other" /\ Take(a)
      /\ graph' = IF a + 1 \in DOMAIN graph.incoming THEN AddFlowEdge(a) ELSE graph
      /\ queue' = (queue \ {a}) \cup {a + 1}
  BY DEF Fallthrough, Queue, Class
<1>2. G = GraphEdges
  <2>1. Transfers({a}) = {Edge(0, entry, "kCall")} BY <1>1, TransfersOf
  <2>2. Edge(0, entry, "kCall") \in GraphEdges BY TransfersOf DEF IInv, EdgesInv
  <2> QED BY <2>1, <2>2
<1>3. graph' = GraphOf(G \cup Split)
  <2>1. graph = GraphOf(GraphEdges) BY EdgeFacts
  <2>2. DOMAIN graph.incoming = Targets(GraphEdges) BY <2>1, GraphOfMaps, Zenon
  <2>3. AddFlowEdge(a) = GraphOf(GraphEdges \cup {on})
    BY <2>1, AddToGraph, Zenon DEF AddFlowEdge
  <2>4. GraphEdges \cup {} = GraphEdges OBVIOUS
  <2> HIDE DEF on, G
  <2>5. CASE a + 1 \in Targets(GraphEdges) BY <1>1, <1>2, <2>2, <2>3, <2>5
  <2>6. CASE a + 1 \notin Targets(GraphEdges) BY <1>1, <1>2, <2>1, <2>2, <2>4, <2>6
  <2> QED BY <2>5, <2>6
<1>4. Targets(G \cup Split) = Targets(GraphEdges)
  <2>1. on.target = a + 1 BY Fields
  <2> HIDE DEF on, G
  <2> QED BY <1>2, <2>1 DEF Targets
<1>5. RunningOn(visited \cup {a}) = RunningOn(visited) \cup {a}
  BY <1>1 DEF RunningOn
<1>6. Split \subseteq RunsOn(visited \cup {a}, G)
  BY <1>2, <1>5 DEF RunsOn
<1>7. ASSUME NEW c \in RunningOn(visited \cup {a}), c + 1 \in Targets(G \cup Split)
      PROVE  \/ Edge(c, c + 1, "kFlow") \in G \cup Split
             \/ LoopsBackIn(visited \cup {a}, c + 1)
  <2>1. c + 1 \in Targets(GraphEdges) BY <1>4, <1>7
  <2>2. CASE c = a BY <2>1, <2>2
  <2>3. CASE c \in RunningOn(visited)
    <3>1. Edge(c, c + 1, "kFlow") \in GraphEdges \/ LoopsBackIn(visited, c + 1)
      BY <2>1, <2>3 DEF IInv, SplitInv
    <3>2. \A t : LoopsBackIn(visited, t) => LoopsBackIn(visited \cup {a}, t)
      <4>1. visited \subseteq visited \cup {a} OBVIOUS
      <4> QED BY <4>1, MoreInstructions, Zenon
    <3> QED BY <3>1, <3>2
  <2> QED BY <1>5, <2>2, <2>3
<1>8. Successors(a) = {a + 1} BY <1>1 DEF Successors, Class
<1>9. Visited(a, Split)
  <2> HIDE DEF Split
  <2> QED BY <1>1, <1>3, <1>6, <1>7, <1>8, Taken DEF Visited
<1> QED BY <1>9

-----------------------------------------------------------------------------
(* The invariant holds.                                                    *)

\* Reached holds the entry and the successors of its members, and no address that a
\* set with both of these does not hold.
LEMMA ReachedIsLeast ==
  ASSUME code \in [Code -> Instructions], entry \in Code
  PROVE  /\ entry \in Reached
         /\ \A a \in Reached : Successors(a) \subseteq Reached
         /\ \A V \in SUBSET (Address \ {0}) :
              entry \in V /\ (\A a \in V : Successors(a) \subseteq V) => Reached \subseteq V
         /\ Reached \subseteq Address \ {0}
<1> DEFINE Closed(V) == entry \in V /\ \A a \in V : Successors(a) \subseteq V
           All == Address \ {0}
<1>1. \A a : Successors(a) \subseteq All
  <2> SUFFICES ASSUME NEW a PROVE Successors(a) \subseteq All OBVIOUS
  <2>1. /\ Class(a) \in Classes /\ Target(a) \in Address
        /\ a \notin Code => Class(a) = "unallocated"
    BY Decoded
  <2>2. a \in Code => a + 1 \in All BY Addresses
  <2> QED BY <2>1, <2>2 DEF Successors, Class, Target, Classes
<1>2. Closed(All) BY <1>1, Addresses
<1>3. \A a : a \in Reached <=> a \in Address /\ \A V \in SUBSET All : Closed(V) => a \in V
  BY DEF Reached
<1> HIDE DEF Closed
<1>4. entry \in Reached
  <2>1. entry \in Address BY Addresses
  <2>2. \A V : Closed(V) => entry \in V BY DEF Closed
  <2> QED BY <1>3, <2>1, <2>2
<1>5. ASSUME NEW a \in Reached PROVE Successors(a) \subseteq Reached
  <2> SUFFICES ASSUME NEW b \in Successors(a) PROVE b \in Reached OBVIOUS
  <2>1. b \in Address BY <1>1
  <2>2. ASSUME NEW V \in SUBSET All, Closed(V) PROVE b \in V
    BY <1>3, <2>2 DEF Closed
  <2> QED BY <1>3, <2>1, <2>2
<1>6. ASSUME NEW V \in SUBSET All, Closed(V) PROVE Reached \subseteq V
  BY <1>3, <1>6
<1>7. Reached \subseteq All BY <1>2, <1>6
<1> QED BY <1>4, <1>5, <1>6, <1>7 DEF Closed

LEMMA SameCode ==
  ASSUME code' = code, entry' = entry
  PROVE  /\ \A a : Class(a)' = Class(a) /\ Target(a)' = Target(a)
         /\ \A a : Successors(a)' = Successors(a)
         /\ Reached' = Reached
<1>1. \A a : DecodeInstruction(a)' = DecodeInstruction(a) BY DEF DecodeInstruction
<1>2. \A a : Class(a)' = Class(a) /\ Target(a)' = Target(a) BY <1>1 DEF Class, Target
<1>3. \A a : Successors(a)' = Successors(a) BY <1>1 DEF Successors
<1>4. Reached' = Reached BY <1>3 DEF Reached
<1> QED BY <1>2, <1>3, <1>4

LEMMA RunsOnFacts ==
  ASSUME NEW V, NEW W, V \subseteq W, NEW F, NEW G, Targets(F) \subseteq Targets(G)
  PROVE  /\ Targets(RunsOn(V, F)) \subseteq Targets(F)
         /\ RunsOn(V, F) \subseteq RunsOn(W, G)
<1>1. RunningOn(V) \subseteq RunningOn(W) BY MoreInstructions
<1>2. Targets(RunsOn(V, F)) \subseteq Targets(F)
  <2> SUFFICES ASSUME NEW e \in RunsOn(V, F) PROVE e.target \in Targets(F)
    BY DEF Targets
  <2>1. PICK b \in RunningOn(V) : b + 1 \in Targets(F) /\ e = Edge(b, b + 1, "kFlow")
    BY DEF RunsOn
  <2> QED BY <2>1, Fields
<1> QED BY <1>1, <1>2 DEF RunsOn

LEMMA EdgeTarget ==
  ASSUME NEW F, NEW s, NEW t, NEW k, Edge(s, t, k) \in F PROVE t \in Targets(F)
<1>1. Edge(s, t, k).target = t BY Fields
<1> QED BY <1>1 DEF Targets

\* What is queued for a has an edge, or follows a.
LEMMA SuccessorsPreceded ==
  ASSUME code \in [Code -> Instructions], NEW a \in Nat, NEW b \in Successors(a)
  PROVE  b \in Targets(Transfers({a})) \/ (b - 1 = a /\ a \in RunningOn({a}))
<1> DEFINE n == Target(a)
           T == Transfers({a})
<1>1. Class(a) \in Classes BY Decoded
<1>3. CASE Class(a) = "maybe_branch"
  <2>1. b = a + 1 \/ b = n BY <1>3 DEF Successors, Class, Target
  <2>2. Edge(a, a + 1, "kFlow") \in T /\ Edge(a, n, "kJump") \in T
    BY <1>3, TransfersOf
  <2> HIDE DEF T, n
  <2>3. b \in Targets(T) BY <2>1, <2>2, EdgeTarget
  <2> QED BY <2>3 DEF T
<1>4. CASE Class(a) = "branch"
  <2>1. b = n BY <1>4 DEF Successors, Class, Target
  <2>2. Edge(a, n, "kJump") \in T BY <1>4, TransfersOf
  <2> HIDE DEF T, n
  <2>3. b \in Targets(T) BY <2>1, <2>2, EdgeTarget
  <2> QED BY <2>3 DEF T
<1>5. CASE Class(a) = "call"
  <2>1. b = a + 1 BY <1>5 DEF Successors, Class
  <2>2. Edge(a, a + 1, "kFlow") \in T BY <1>5, TransfersOf
  <2> HIDE DEF T
  <2>3. b \in Targets(T) BY <2>1, <2>2, EdgeTarget
  <2> QED BY <2>3 DEF T
<1>6. CASE Class(a) = "other"
  <2>1. b = a + 1 BY <1>6 DEF Successors, Class
  <2> QED BY <1>6, <2>1 DEF RunningOn
<1>7. CASE Class(a) \in {"return", "brk", "unallocated"}
  <2>1. Successors(a) = {} BY <1>7 DEF Successors, Class
  <2> QED BY <2>1
<1> QED BY <1>1, <1>3, <1>4, <1>5, <1>6, <1>7 DEF Classes

LEMMA InitIInv == Init => IInv
<1> SUFFICES ASSUME Init PROVE IInv OBVIOUS
<1> DEFINE e == Edge(0, entry, "kCall")
<1>1. graph = GraphOf({e})
  <2>1. {} \cup {e} = {e} OBVIOUS
  <2> QED BY <2>1, AddToGraph, EmptyGraphOf, Zenon DEF Init
<1>2. GraphEdges = {e}
  <2> HIDE DEF e
  <2>1. GraphEdges = EdgesOf(graph) BY Zenon DEF GraphEdges, EdgesOf
  <2>2. EdgesOf(GraphOf({e})) = {e} BY GraphOfMaps, Zenon
  <2> QED BY <1>1, <2>1, <2>2, Zenon
<1>3. /\ code \in [Code -> Instructions] /\ entry \in Code
      /\ queue = {entry} /\ visited = {}
  BY DEF Init
<1>4. TypeInv BY <1>1, <1>2, <1>3, Addresses DEF TypeInv
<1>5. ReachInv BY <1>3, ReachedIsLeast DEF ReachInv
<1>6. EdgesInv
  <2>1. Transfers({}) = {e} BY DEF Transfers
  <2> QED BY <1>2, <1>3, <2>1 DEF EdgesInv
<1>7. PrecededInv
  <2>1. entry \in Targets({e}) BY Fields, TargetsOfUnion
  <2> QED BY <1>2, <1>3, <2>1 DEF PrecededInv
<1>8. NextInv /\ SplitInv BY <1>3 DEF NextInv, SplitInv, RunningOn
<1> QED BY <1>4, <1>5, <1>6, <1>7, <1>8 DEF IInv

LEMMA VisitedIInv ==
  ASSUME IInv, NEW a, NEW Split, Visited(a, Split) PROVE IInv'
<1> DEFINE W == visited \cup {a}
           G == GraphEdges \cup Transfers({a}) \cup Split
           R == RunningOn(visited)
<1>1. /\ a \in queue /\ a \notin visited /\ \A b \in queue : a <= b
      /\ code' = code /\ entry' = entry /\ visited' = W
      /\ queue' = (queue \ {a}) \cup Successors(a)
      /\ Split \subseteq RunsOn(W, GraphEdges \cup Transfers({a}))
  BY DEF Visited
<1>2. TypeInv /\ ReachInv /\ EdgesInv /\ PrecededInv /\ NextInv /\ SplitInv BY DEF IInv
<1>3. /\ \A b : Class(b)' = Class(b) /\ Target(b)' = Target(b)
      /\ \A b : Successors(b)' = Successors(b)
      /\ Reached' = Reached
  BY <1>1, SameCode
<1>4. GraphEdges' = G /\ graph' = GraphOf(G)
  <2>1. graph' = GraphOf(G) BY DEF Visited
  <2>2. GraphEdges' = EdgesOf(graph') BY Zenon DEF GraphEdges, EdgesOf
  <2> QED BY <2>1, <2>2, GraphOfMaps, Zenon
<1>5. /\ Successors(a) \subseteq Reached /\ Reached \subseteq Address \ {0}
      /\ a \in Nat /\ a \in Address \ {0} /\ queue \subseteq Nat
  BY <1>1, <1>2, Addresses, ReachedIsLeast DEF TypeInv, ReachInv
<1>6. TypeInv'
  <2>1. queue' \subseteq Address \ {0} /\ visited' \subseteq Address \ {0}
    BY <1>1, <1>2, <1>5 DEF TypeInv
  <2>2. code' \in [Code -> Instructions] /\ entry' \in Code BY <1>1, <1>2 DEF TypeInv
  <2>3. graph' = GraphOf(GraphEdges)' BY <1>4
  <2> QED BY <2>1, <2>2, <2>3 DEF TypeInv
<1>7. ReachInv'
  <2>1. entry' \in queue' \cup visited' BY <1>1, <1>2 DEF ReachInv
  <2>2. \A b \in visited' : Successors(b) \subseteq queue' \cup visited'
    BY <1>1, <1>2 DEF ReachInv
  <2>3. queue' \cup visited' \subseteq Reached BY <1>1, <1>2, <1>5 DEF ReachInv
  <2> QED BY <1>3, <2>1, <2>2, <2>3 DEF ReachInv
<1>8. RunningOn(visited)' = RunningOn(W) BY <1>1, <1>3 DEF RunningOn
<1>9. Transfers(visited)' = Transfers(W)
  <2>1. Transfers(visited)' = Transfers(visited') BY <1>1, <1>3 DEF Transfers
  <2> QED BY <1>1, <2>1, Zenon
<1>10. RunsOn(visited, Transfers(visited))' = RunsOn(W, Transfers(W))
  BY <1>8, <1>9 DEF RunsOn, Targets
<1>11. Targets(GraphEdges \cup Transfers({a})) \subseteq Targets(Transfers(W))
  <2>1. visited \subseteq visited OBVIOUS
  <2>2. Targets(RunsOn(visited, Transfers(visited))) \subseteq Targets(Transfers(visited))
    BY <2>1, RunsOnFacts
  <2>3. Transfers(W) = Transfers(visited) \cup Transfers({a}) BY TransfersOf
  <2> QED BY <1>2, <2>2, <2>3 DEF Targets, EdgesInv
<1>12. EdgesInv'
  <2>1. Transfers(W) = Transfers(visited) \cup Transfers({a}) BY TransfersOf
  <2>2. RunsOn(W, GraphEdges \cup Transfers({a})) \subseteq RunsOn(W, Transfers(W))
    <3>1. W \subseteq W OBVIOUS
    <3> HIDE DEF W
    <3> QED BY <1>11, <3>1, RunsOnFacts
  <2>3. RunsOn(visited, Transfers(visited)) \subseteq RunsOn(W, Transfers(W))
    <3>1. visited \subseteq W OBVIOUS
    <3>2. Targets(Transfers(visited)) \subseteq Targets(Transfers(W))
      BY <2>1 DEF Targets
    <3> HIDE DEF W
    <3> QED BY <3>1, <3>2, RunsOnFacts
  <2>4. Transfers(W) \subseteq G BY <1>2, <2>1 DEF EdgesInv
  <2>5. G \subseteq Transfers(W) \cup RunsOn(W, Transfers(W))
    BY <1>1, <1>2, <2>1, <2>2, <2>3 DEF EdgesInv
  <2> HIDE DEF G, W
  <2> QED BY <1>4, <1>9, <1>10, <2>4, <2>5 DEF EdgesInv
<1>13. Targets(GraphEdges)' = Targets(G) BY <1>4 DEF Targets
<1>14. PrecededInv'
  <2>1. ASSUME NEW b \in queue' \cup visited'
        PROVE  b \in Targets(G) \/ b - 1 \in RunningOn(W)
    <3>1. CASE b \in queue \cup visited
      <4>1. b \in Targets(GraphEdges) \/ b - 1 \in R BY <1>2, <3>1 DEF PrecededInv
      <4> QED BY <4>1 DEF Targets, RunningOn
    <3>2. CASE b \in Successors(a)
      <4>1. b \in Targets(Transfers({a})) \/ (b - 1 = a /\ a \in RunningOn({a}))
        BY <1>2, <1>5, <3>2, SuccessorsPreceded DEF TypeInv
      <4> QED BY <4>1 DEF Targets, RunningOn
    <3> QED BY <1>1, <2>1, <3>1, <3>2
  <2> QED BY <1>8, <1>13, <2>1 DEF PrecededInv
<1>15. NextInv'
  <2>1. ASSUME NEW c \in RunningOn(W)
        PROVE  c + 1 \in visited' \/ (c + 1 \in queue' /\ \A b \in queue' : c + 1 <= b)
    <3>1. CASE c = a
      <4>1. Successors(a) = {a + 1} BY <2>1, <3>1 DEF RunningOn, Successors, Class
      <4>2. \A b \in queue : b # a => a + 1 <= b BY <1>1, <1>5
      <4> QED BY <1>1, <1>5, <3>1, <4>1, <4>2
    <3>2. CASE c \in R
      <4>1. c + 1 \in visited \/ (c + 1 \in queue /\ \A b \in queue : c + 1 <= b)
        BY <1>2, <3>2 DEF NextInv
      <4>2. c + 1 \in queue /\ c + 1 <= a => c + 1 = a
        <5>1. c \in Nat BY <3>2, EdgeFacts, Addresses
        <5>2. c + 1 \in queue => a <= c + 1 BY <1>1
        <5> QED BY <1>5, <5>1, <5>2
      <4> QED BY <1>1, <4>1, <4>2
    <3> QED BY <2>1, <3>1, <3>2 DEF RunningOn
  <2> QED BY <1>8, <2>1 DEF NextInv
<1>16. SplitInv'
  <2>1. \A t : LoopsBackIn(visited, t)' <=> LoopsBackIn(W, t)
    BY <1>1, <1>3, <1>8 DEF LoopsBackIn
  <2>2. \A c \in RunningOn(W) :
          c + 1 \in Targets(G) => Edge(c, c + 1, "kFlow") \in G \/ LoopsBackIn(W, c + 1)
    BY DEF Visited
  <2>3. \A c : Edge(c, c + 1, "kFlow")' = Edge(c, c + 1, "kFlow") OBVIOUS
  <2> HIDE DEF G, W
  <2> QED BY <1>4, <1>8, <1>13, <2>1, <2>2 DEF SplitInv
<1> QED BY <1>6, <1>7, <1>12, <1>14, <1>15, <1>16 DEF IInv

LEMMA SkipIInv == ASSUME IInv, NEW a, Skip(a) PROVE IInv'
<1>1. /\ a \in queue /\ a \in visited /\ \A b \in queue : a <= b
      /\ queue' = queue \ {a} /\ code' = code /\ entry' = entry
      /\ graph' = graph /\ visited' = visited
  BY DEF Skip
<1>2. TypeInv /\ ReachInv /\ EdgesInv /\ PrecededInv /\ NextInv /\ SplitInv BY DEF IInv
<1>3. /\ \A b : Class(b)' = Class(b) /\ Target(b)' = Target(b)
      /\ \A b : Successors(b)' = Successors(b)
      /\ Reached' = Reached
  BY <1>1, SameCode
<1>4. GraphEdges' = GraphEdges BY <1>1 DEF GraphEdges
<1>5. RunningOn(visited)' = RunningOn(visited) BY <1>1, <1>3 DEF RunningOn
<1>6. Transfers(visited)' = Transfers(visited) BY <1>1, <1>3 DEF Transfers
<1>7. Targets(GraphEdges)' = Targets(GraphEdges) BY <1>4 DEF Targets
<1>8. RunsOn(visited, Transfers(visited))' = RunsOn(visited, Transfers(visited))
  BY <1>5, <1>6 DEF RunsOn, Targets
<1>9. \A t : LoopsBackIn(visited, t)' <=> LoopsBackIn(visited, t)
  BY <1>1, <1>3, <1>5 DEF LoopsBackIn
<1>10. TypeInv' BY <1>1, <1>2, <1>4 DEF TypeInv
<1>11. ReachInv' BY <1>1, <1>2, <1>3 DEF ReachInv
<1>12. EdgesInv' BY <1>2, <1>4, <1>6, <1>8 DEF EdgesInv
<1>13. PrecededInv' BY <1>1, <1>2, <1>5, <1>7 DEF PrecededInv
<1>14. NextInv'
  <2>1. ASSUME NEW c \in RunningOn(visited)
        PROVE  c + 1 \in visited' \/ (c + 1 \in queue' /\ \A b \in queue' : c + 1 <= b)
    <3>1. c + 1 \in visited \/ (c + 1 \in queue /\ \A b \in queue : c + 1 <= b)
      BY <1>2, <2>1 DEF NextInv
    <3> QED BY <1>1, <3>1
  <2> QED BY <1>5, <2>1 DEF NextInv
<1>15. SplitInv' BY <1>2, <1>4, <1>5, <1>7, <1>9 DEF SplitInv
<1> QED BY <1>10, <1>11, <1>12, <1>13, <1>14, <1>15 DEF IInv

LEMMA NextIInv == ASSUME IInv, [Next]_vars PROVE IInv'
<1>1. ASSUME NEW a \in queue, MaybeBranch(a) PROVE IInv'
  BY <1>1, MaybeBranchVisited, VisitedIInv
<1>2. ASSUME NEW a \in queue, Branch(a) PROVE IInv'
  BY <1>2, BranchIsVisited, VisitedIInv
<1>3. ASSUME NEW a \in queue, Call(a) PROVE IInv' BY <1>3, CallVisited, VisitedIInv
<1>4. ASSUME NEW a \in queue, End(a) PROVE IInv' BY <1>4, EndVisited, VisitedIInv
<1>5. ASSUME NEW a \in queue, Fallthrough(a) PROVE IInv'
  BY <1>5, FallthroughVisited, VisitedIInv
<1>6. ASSUME NEW a \in queue, Skip(a) PROVE IInv' BY <1>6, SkipIInv
<1>7. CASE UNCHANGED vars
  <2>1. /\ code' = code /\ entry' = entry /\ graph' = graph
        /\ queue' = queue /\ visited' = visited
    BY <1>7 DEF vars
  <2>2. /\ \A b : Class(b)' = Class(b) /\ Target(b)' = Target(b)
        /\ \A b : Successors(b)' = Successors(b)
        /\ Reached' = Reached
    BY <2>1, SameCode
  <2>3. GraphEdges' = GraphEdges BY <2>1 DEF GraphEdges
  <2>4. RunningOn(visited)' = RunningOn(visited) BY <2>1, <2>2 DEF RunningOn
  <2>5. Transfers(visited)' = Transfers(visited) BY <2>1, <2>2 DEF Transfers
  <2>6. Targets(GraphEdges)' = Targets(GraphEdges) BY <2>3 DEF Targets
  <2>7. RunsOn(visited, Transfers(visited))' = RunsOn(visited, Transfers(visited))
    BY <2>4, <2>5 DEF RunsOn, Targets
  <2>8. \A t : LoopsBackIn(visited, t)' <=> LoopsBackIn(visited, t)
    BY <2>1, <2>2, <2>4 DEF LoopsBackIn
  <2>9. TypeInv' /\ ReachInv' BY <2>1, <2>2, <2>3 DEF IInv, TypeInv, ReachInv
  <2>10. EdgesInv' BY <2>3, <2>5, <2>7 DEF IInv, EdgesInv
  <2>11. PrecededInv' /\ NextInv' BY <2>1, <2>4, <2>6 DEF IInv, PrecededInv, NextInv
  <2>12. SplitInv' BY <2>3, <2>4, <2>6, <2>8 DEF IInv, SplitInv
  <2> QED BY <2>9, <2>10, <2>11, <2>12 DEF IInv
<1> QED BY <1>1, <1>2, <1>3, <1>4, <1>5, <1>6, <1>7 DEF Next, Step, Visit, Returned

THEOREM Invariant == Spec => []IInv
<1>1. IInv /\ [Next]_vars => IInv' BY NextIInv
<1> QED BY <1>1, InitIInv, PTL DEF Spec

-----------------------------------------------------------------------------
(* What Disassemble promises.                                              *)

\* Disassemble takes addresses from the queue and adds edges between addresses, whatever
\* code it reads.
THEOREM TypeCorrect == Spec => []TypeOK
<1>1. IInv => TypeOK BY EdgeFacts DEF IInv, TypeInv, TypeOK
<1> QED BY <1>1, Invariant, PTL

\* When Disassemble returns it has visited what the function may run and nothing else,
\* although addresses are queued more than once and callees are left out.
THEOREM VisitsAllReached == Spec => []VisitsReached
<1>1. ASSUME IInv, queue = {} PROVE visited = Reached
  <2>1. visited \subseteq Reached BY <1>1 DEF IInv, ReachInv
  <2>2. entry \in visited /\ \A a \in visited : Successors(a) \subseteq visited
    BY <1>1 DEF IInv, ReachInv
  <2>3. visited \subseteq Address \ {0} BY <1>1 DEF IInv, TypeInv
  <2>4. Reached \subseteq visited
    BY <1>1, <2>2, <2>3, ReachedIsLeast DEF IInv, TypeInv
  <2> QED BY <2>1, <2>4
<1>2. IInv => VisitsReached BY <1>1 DEF VisitsReached
<1> QED BY <1>2, Invariant, PTL

\* The blocks that AddBranchEdge may split hold disassembled instructions only, at any
\* time while leaders and edges are still being found.
THEOREM BlocksHoldCode == Spec => []BlocksAreCode
<1>1. ASSUME IInv, NEW a \in Address \ {0}, BasicBlockStart(graph, a) # 0
      PROVE  BasicBlockStart(graph, a) .. BasicBlockEnd(graph, a) \subseteq visited
  <2> DEFINE s == BasicBlockStart(graph, a)
             t == BasicBlockEnd(graph, a)
             R == RunningOn(visited)
  <2>1. /\ graph = GraphOf(GraphEdges) /\ Numbered(GraphEdges)
        /\ Sources(GraphEdges) \subseteq {0} \cup visited /\ R \subseteq visited
    BY <1>1, EdgeFacts
  <2>2. a \in Nat BY Addresses
  <2>3. BlockAt(GraphEdges, a, s, t)
    <3>1. LET start == BasicBlockStart(GraphOf(GraphEdges), a)
              end == BasicBlockEnd(GraphOf(GraphEdges), a)
          IN  start # 0 => BlockAt(GraphEdges, a, start, end)
      BY <2>1, <2>2, BlockStartEnd
    <3> QED BY <1>1, <2>1, <3>1, Zenon
  <2>4. Preceded(visited, R, GraphEdges)
    BY <1>1, <2>1, Addresses DEF Preceded, IInv, TypeInv, PrecededInv
  <2>5. Block(GraphEdges, s, t) /\ s # 0 BY <1>1, <2>3 DEF BlockAt
  <2> HIDE DEF s, t, R
  <2>6. s .. t \subseteq visited BY <2>1, <2>4, <2>5, BlockContent
  <2> QED BY <2>6 DEF s, t
<1>2. IInv => BlocksAreCode BY <1>1 DEF BlocksAreCode
<1> QED BY <1>2, Invariant, PTL

\* The definitions of the finished graph, said of Reached as those of the invariant are
\* said of what has been visited.
LEMMA FinishedEdges ==
  /\ TransferEdges = Transfers(Reached)
  /\ OfClass({"other"}) = RunningOn(Reached)
  /\ RunOnEdges = RunsOn(Reached, Transfers(Reached))
  /\ \A t : LoopsBackTo(t) <=> LoopsBackIn(Reached, t)
<1>1. \A cs : Among(Reached, cs) = {b \in Reached : Class(b) \in cs}
  BY DEF Among, Class
<1>2. \A V : {b \in V : Class(b) \in {"call"}} = {b \in V : Class(b) = "call"}
  OBVIOUS
<1>3. OfClass({"other"}) = RunningOn(Reached) BY <1>1 DEF OfClass, RunningOn
<1>4. TransferEdges = Transfers(Reached)
  BY <1>1, <1>2, Zenon DEF TransferEdges, Transfers, Class, Target
<1>5. RunOnEdges = RunsOn(Reached, Transfers(Reached))
  BY <1>3, <1>4, Zenon DEF RunOnEdges, RunsOn, Targets
<1>6. \A t : LoopsBackTo(t) <=> LoopsBackIn(Reached, t)
  BY <1>1, <1>3 DEF LoopsBackTo, LoopsBackIn, OfClass, Class, Target
<1> QED BY <1>3, <1>4, <1>5, <1>6

\* The finished graph has the edge of every control transfer of the function and ends
\* every block that runs into a leader, whether the leader was found before the code in
\* front of it or after; but for the loops that Unsplit names.  It has no other edge.
THEOREM EdgesAreTransfers == Spec => []EdgesMatch
<1>1. ASSUME IInv, queue = {}, visited = Reached PROVE EdgesMatch
  <2>1. /\ Transfers(visited) \subseteq GraphEdges
        /\ GraphEdges \subseteq Transfers(visited) \cup RunsOn(visited, Transfers(visited))
    BY <1>1 DEF IInv, EdgesInv
  <2>2. ASSUME NEW e \in RunOnEdges \ Unsplit PROVE e \in GraphEdges
    <3>1. e \in RunsOn(visited, Transfers(visited)) BY <1>1, FinishedEdges, Zenon
    <3>2. PICK c \in RunningOn(visited) :
            c + 1 \in Targets(Transfers(visited)) /\ e = Edge(c, c + 1, "kFlow")
      BY <3>1 DEF RunsOn
    <3>3. c + 1 \in Targets(GraphEdges) BY <2>1, <3>2 DEF Targets
    <3>4. Edge(c, c + 1, "kFlow") \in GraphEdges \/ LoopsBackIn(visited, c + 1)
      BY <1>1, <3>3 DEF IInv, SplitInv
    <3>5. ~LoopsBackTo(c + 1) BY <3>2, Fields DEF Unsplit
    <3> QED BY <1>1, <3>2, <3>4, <3>5, FinishedEdges
  <2>3. /\ GraphEdges \subseteq TransferEdges \cup RunOnEdges
        /\ TransferEdges \subseteq GraphEdges
    BY <1>1, <2>1, FinishedEdges
  <2> QED BY <2>2, <2>3 DEF EdgesMatch
<1>2. IInv /\ VisitsReached => EdgesMatch BY <1>1 DEF VisitsReached, EdgesMatch
<1> QED BY <1>2, Invariant, VisitsAllReached, PTL

\* When Disassemble returns every instruction is in a block, where FlowGraph::Create and
\* the analyses find it, but for those that run straight into an unsplit loop.
THEOREM AllAreInBlocks == Spec => []AllInBlocks
<1>1. ASSUME IInv, queue = {}, visited = Reached,
             NEW a \in visited, BasicBlockStart(graph, a) = 0
      PROVE  \E e \in Unsplit : a <= e.source /\ a .. e.source \subseteq OfClass({"other"})
  <2> DEFINE R == RunningOn(visited)
             E == GraphEdges
  <2>1. /\ graph = GraphOf(E) /\ Numbered(E)
        /\ Sources(E) \subseteq {0} \cup visited
        /\ visited \ R \subseteq Sources(E)
        /\ \A c \in R \cap Sources(E) : c + 1 \in Targets(E)
        /\ R \subseteq visited /\ R \subseteq Code /\ visited \subseteq Nat \ {0}
    BY <1>1, EdgeFacts, Addresses DEF IInv, TypeInv
  <2>2. Preceded(visited, R, E)
    BY <1>1, <2>1 DEF Preceded, IInv, PrecededInv
  <2>3. PICK s \in visited \cap Targets(E) :
          /\ s <= a /\ s .. (a - 1) \subseteq R
          /\ \A l \in Targets(E) : ~(s < l /\ l <= a)
    BY <2>2, Leader
  <2>4. a \in Nat /\ s \in Nat \ {0} BY <2>1
  <2>5. PICK e \in Nat : /\ a <= e /\ a .. (e - 1) \subseteq R
                         /\ \A c \in a .. (e - 1) : c + 1 \notin Targets(E)
                         /\ e \notin R \/ e + 1 \in Targets(E)
    BY <2>1, <2>4, Run
  <2>6. e \in visited
    <3>1. CASE e = a BY <3>1
    <3>2. CASE e # a
      <4>1. e - 1 \in R BY <2>4, <2>5, <3>2
      <4>2. (e - 1) + 1 \in visited BY <1>1, <4>1 DEF IInv, NextInv
      <4> QED BY <4>2
    <3> QED BY <3>1, <3>2
  <2>7. e \notin Sources(E)
    <3> SUFFICES ASSUME e \in Sources(E) PROVE FALSE OBVIOUS
    <3>1. ASSUME NEW l \in Targets(E), s < l, l <= e PROVE FALSE
      <4>1. l \in Nat BY <2>1 DEF Numbered
      <4>2. l > a BY <2>3, <2>4, <3>1, <4>1
      <4>3. l - 1 \in a .. (e - 1) /\ (l - 1) + 1 = l BY <2>4, <3>1, <4>1, <4>2
      <4> QED BY <2>5, <4>3
    <3>2. ASSUME NEW r \in Sources(E), s <= r, r < e PROVE FALSE
      <4>1. r \in Nat BY <2>1 DEF Numbered
      <4>2. r \in R
        <5>1. CASE r < a BY <2>3, <2>4, <3>2, <4>1, <5>1
        <5>2. CASE r >= a BY <2>4, <2>5, <3>2, <4>1, <5>2
        <5> QED BY <2>4, <4>1, <5>1, <5>2
      <4>3. r + 1 \in Targets(E) BY <2>1, <4>2
      <4>4. s < r + 1 /\ r + 1 <= e BY <2>4, <3>2, <4>1
      <4> QED BY <3>1, <4>3, <4>4
    <3>3. s <= e BY <2>3, <2>4, <2>5
    <3>4. BlockAt(E, a, s, e)
      BY <2>3, <2>5, <3>1, <3>2, <3>3 DEF BlockAt, Block
    <3>5. BasicBlockStart(GraphOf(E), a) = s BY <2>1, <2>4, <3>4, BlockStartEnd
    <3> QED BY <1>1, <2>1, <2>4, <3>5
  <2>8. e \in R /\ e + 1 \in Targets(E) BY <2>1, <2>5, <2>6, <2>7
  <2>9. LoopsBackIn(visited, e + 1)
    <3>1. Edge(e, e + 1, "kFlow") \notin E BY <2>7, Fields DEF Sources
    <3> QED BY <1>1, <2>8, <3>1 DEF IInv, SplitInv
  <2>10. e + 1 \in Targets(Transfers(visited))
    <3>1. E \subseteq Transfers(visited) \cup RunsOn(visited, Transfers(visited))
      BY <1>1 DEF IInv, EdgesInv
    <3>2. Targets(RunsOn(visited, Transfers(visited))) \subseteq Targets(Transfers(visited))
      BY RunsOnFacts
    <3> QED BY <2>8, <3>1, <3>2 DEF Targets
  <2>11. Edge(e, e + 1, "kFlow") \in RunOnEdges
    <3>1. Edge(e, e + 1, "kFlow") \in RunsOn(visited, Transfers(visited))
      BY <2>8, <2>10 DEF RunsOn
    <3> QED BY <1>1, <3>1, FinishedEdges, Zenon
  <2>12. Edge(e, e + 1, "kFlow") \in Unsplit
    <3>1. LoopsBackTo(e + 1) BY <1>1, <2>9, FinishedEdges, Zenon
    <3> QED BY <2>11, <3>1, Fields DEF Unsplit
  <2>13. a .. e \subseteq OfClass({"other"})
    <3>1. \A c \in a .. e : c \in R BY <2>4, <2>5, <2>8
    <3> QED BY <1>1, <3>1, FinishedEdges
  <2> QED BY <2>5, <2>12, <2>13, Fields
<1>2. IInv /\ VisitsReached => AllInBlocks BY <1>1 DEF VisitsReached, AllInBlocks
<1> QED BY <1>2, Invariant, VisitsAllReached, PTL

-----------------------------------------------------------------------------
(* Any number of rounds.                                                     *)

\* What may run once jumps are resolved: Reached, with NextAddresses.
MayRun ==
  LET closed == {S \in SUBSET (Address \ {0}) :
                   entry \in S /\ \A a \in S : NextAddresses(a) \subseteq S}
  IN  {a \in Address : \A S \in closed : a \in S}

\* The edges that EdgesAreReal allows, and those to 0 by the instruction they come from.
Real(e) ==
  \/ e.source = 0 /\ e.target = entry /\ e.kind = "kCall"
  \/ e.kind = "kCall" /\ Class(e.source) = "call"
     /\ e.target \in {Target(e.source), constant[e.source]}
  \/ e.kind = "kJump" /\ Class(e.source) \in {"maybe_branch", "branch"}
     /\ e.target \in {0} \cup NextAddresses(e.source)
  \/ e.kind = "kFlow" /\ e.target \in NextAddresses(e.source)
  \/ e.kind \in {"kReturn", "kBreak", "kInvalid"} /\ e.target = 0

\* Edges that Disassemble follows.
Leads(e) == e.kind \in {"kJump", "kFlow"} /\ e.target # 0

-----------------------------------------------------------------------------
(* The invariant.                                                          *)

RTypeInv ==
  /\ code \in [Code -> Instructions] /\ entry \in Code
  /\ queue \subseteq Address \ {0} /\ visited \subseteq Address \ {0}
  /\ graph = GraphOf(GraphEdges)
  /\ GraphEdges \subseteq [source : Address, target : Address, kind : Kinds]
  /\ constant \in [Code -> 0 .. Size]
  /\ \A a \in Code : constant[a] # 0 => Indirect(a)
  /\ zero_edges \subseteq Code /\ jump_added \in BOOLEAN
  /\ pc \in {"disassemble", "analyse", "edges", "redisassemble", "done"}
  /\ pc \in {"analyse", "edges", "done"} => queue = {}

RealInv == /\ \A e \in GraphEdges : Real(e)
           /\ Edge(0, entry, "kCall") \in GraphEdges

\* H has been disassembled, in this round or an earlier one: visited is emptied by every
\* round, and what the graph says of a block rests on all of them.
History(H) ==
  /\ visited \subseteq H /\ H \cup queue \subseteq MayRun
  /\ Sources(GraphEdges) \subseteq {0} \cup H
  /\ H \ RunningOn(H) \subseteq Sources(GraphEdges)
  /\ \A b \in H \cup queue : b \in Targets(GraphEdges) \/ b - 1 \in RunningOn(H)
  /\ \A a \in RunningOn(H) : a + 1 \in H \cup queue
  /\ \A e \in GraphEdges : Leads(e) => e.target \in H \cup queue

HistoryInv == \E H : History(H)

\* A jump or a call at a to a target that is not known.
OpenAt(E, a) ==
  \E e \in E : e.source = a /\ e.target = 0 /\ e.kind \in {"kJump", "kCall"}

\* What is still to look at has its edge to 0, and in a round that has resolved no jump
\* so far nothing else that could be resolved has a state.
ZeroInv ==
  /\ pc \in {"edges", "redisassemble"} =>
       \A a \in zero_edges : OpenAt(GraphEdges, a)
  /\ pc = "redisassemble" => jump_added
  /\ pc = "edges" /\ ~jump_added =>
       \A a \in ZeroEdgesWithState : a \in zero_edges \/ constant[a] = 0
  /\ pc = "done" => \A a \in ZeroEdgesWithState : constant[a] = 0

RInv == RTypeInv /\ RealInv /\ HistoryInv /\ ZeroInv

-----------------------------------------------------------------------------
(* What may run.                                                           *)

LEMMA NextAddressesIn ==
  ASSUME RTypeInv, NEW a
  PROVE  /\ NextAddresses(a) \subseteq Address \ {0}
         /\ NextAddresses(a) # {} => a \in Code
         /\ Successors(a) \subseteq NextAddresses(a)
         /\ JumpSite(a) => constant[a] \in NextAddresses(a)
<1>1. /\ Class(a) \in Classes /\ Target(a) \in Address
      /\ a \notin Code => Class(a) = "unallocated"
  BY Decoded DEF RTypeInv
<1>2. a \in Code => a + 1 \in Address \ {0} BY Addresses
<1>3. Successors(a) \subseteq Address \ {0} /\ (Successors(a) # {} => a \in Code)
  BY <1>1, <1>2 DEF Successors, Class, Target, Classes
<1>4. JumpSite(a) => a \in Code /\ constant[a] \in Address \ {0}
  BY Addresses DEF JumpSite, Site, RTypeInv
<1>5. /\ JumpSite(a) => NextAddresses(a) = Successors(a) \cup {constant[a]}
      /\ ~JumpSite(a) => NextAddresses(a) = Successors(a)
  BY DEF NextAddresses
<1> QED BY <1>3, <1>4, <1>5

LEMMA MayRunIsLeast ==
  ASSUME RTypeInv
  PROVE  /\ entry \in MayRun
         /\ \A a \in MayRun : NextAddresses(a) \subseteq MayRun
         /\ \A V \in SUBSET (Address \ {0}) :
              entry \in V /\ (\A a \in V : NextAddresses(a) \subseteq V) => MayRun \subseteq V
         /\ MayRun \subseteq Address \ {0}
<1> DEFINE Closed(V) == entry \in V /\ \A a \in V : NextAddresses(a) \subseteq V
           All == Address \ {0}
<1>1. \A a : NextAddresses(a) \subseteq All BY NextAddressesIn
<1>2. Closed(All) BY <1>1, Addresses DEF RTypeInv
<1>3. \A a : a \in MayRun <=> a \in Address /\ \A V \in SUBSET All : Closed(V) => a \in V
  BY DEF MayRun
<1> HIDE DEF Closed
<1>4. entry \in MayRun
  <2>1. entry \in Address BY Addresses DEF RTypeInv
  <2>2. \A V : Closed(V) => entry \in V BY DEF Closed
  <2> QED BY <1>3, <2>1, <2>2
<1>5. ASSUME NEW a \in MayRun PROVE NextAddresses(a) \subseteq MayRun
  <2> SUFFICES ASSUME NEW b \in NextAddresses(a) PROVE b \in MayRun OBVIOUS
  <2>1. b \in Address BY <1>1
  <2>2. ASSUME NEW V \in SUBSET All, Closed(V) PROVE b \in V
    BY <1>3, <2>2 DEF Closed
  <2> QED BY <1>3, <2>1, <2>2
<1>6. ASSUME NEW V \in SUBSET All, Closed(V) PROVE MayRun \subseteq V
  BY <1>3, <1>6
<1>7. MayRun \subseteq All BY <1>2, <1>6
<1> QED BY <1>4, <1>5, <1>6, <1>7 DEF Closed

-----------------------------------------------------------------------------
(* A step of Disassemble, in any round.                                    *)

\* a is taken from the queue, its edges are added, and with Split the ones by which
\* blocks now end in front of a leader.
Advances(H, a, Split) ==
  /\ a \in queue
  /\ code' = code /\ entry' = entry
  /\ visited' = visited \cup {a} /\ queue' = (queue \ {a}) \cup Successors(a)
  /\ graph' = GraphOf(GraphEdges \cup Transfers({a}) \cup Split)
  /\ \A e \in Split : \E c \in RunningOn(H \cup {a}) :
       /\ e = Edge(c, c + 1, "kFlow")
       /\ c + 1 \in H \cup {a} \cup Successors(a)

LEMMA TakenAgain ==
  ASSUME RTypeInv, NEW a, Take(a)
  PROVE  /\ a \in queue /\ a \in Nat /\ a \in Address /\ a # 0
         /\ code' = code /\ entry' = entry /\ visited' = visited \cup {a}
BY Addresses DEF Take, RTypeInv

\* The edges before the one for the branch at a is added.
BeforeBranch(a, F) ==
  F = GraphEdges \/ F = GraphEdges \cup {Edge(a, a + 1, "kFlow")}

LEMMA BranchingAgain ==
  ASSUME RTypeInv, NEW H, History(H), NEW a \in queue, NEW F,
         BeforeBranch(a, F)
  PROVE  /\ Preceded(H \cup {a}, RunningOn(H), F)
         /\ Sources(F) \subseteq {0} \cup (H \cup {a})
<1> DEFINE f == Edge(a, a + 1, "kFlow")
<1>1. H \subseteq Nat \ {0} /\ a \in Nat \ {0}
  BY MayRunIsLeast, Addresses DEF History
<1>2. Numbered(GraphEdges)
  BY Addresses DEF RTypeInv, Numbered, Sources, Targets
<1>3. /\ Sources(F) \subseteq Sources(GraphEdges) \cup {a}
      /\ Targets(F) \subseteq Targets(GraphEdges) \cup {a + 1}
      /\ Targets(GraphEdges) \subseteq Targets(F)
  <2>1. \A e \in F : e \in GraphEdges \/ e = f BY DEF BeforeBranch
  <2>2. GraphEdges \subseteq F BY DEF BeforeBranch
  <2> HIDE DEF f
  <2>3. f.source = a /\ f.target = a + 1 BY Fields DEF f
  <2> QED BY <2>1, <2>2, <2>3 DEF Sources, Targets
<1>4. Numbered(F) BY <1>1, <1>2, <1>3 DEF Numbered
<1>5. \A b \in H \cup {a} : b \in Targets(F) \/ b - 1 \in RunningOn(H)
  BY <1>3 DEF History
<1>6. RunningOn(H) \subseteq H \cup {a} BY DEF RunningOn
<1> QED BY <1>1, <1>3, <1>4, <1>5, <1>6 DEF Preceded, History

LEMMA BranchAdvances ==
  ASSUME RTypeInv, NEW H, History(H), NEW a, Take(a), NEW F, NEW kind,
         BeforeBranch(a, F),
         F \cup {Edge(a, Target(a), kind)} = GraphEdges \cup Transfers({a}),
         queue' = (queue \ {a}) \cup Successors(a),
         graph' = AddBranchEdge(GraphOf(F), a, Target(a), kind)
  PROVE  \E Split : Advances(H, a, Split)
<1> DEFINE n == Target(a)
           W == H \cup {a}
           R == RunningOn(H)
           e == Edge(a, n, kind)
           G == GraphEdges \cup Transfers({a})
<1>1. /\ a \in queue /\ n \in Nat
      /\ Preceded(W, R, F) /\ Sources(F) \subseteq {0} \cup W
  <2>1. a \in queue BY TakenAgain
  <2>2. n \in Nat BY Decoded, Addresses DEF RTypeInv
  <2>3. Preceded(W, R, F) /\ Sources(F) \subseteq {0} \cup W
    BY <2>1, BranchingAgain, Zenon
  <2> QED BY <2>1, <2>2, <2>3
<1>2. PICK Split : Splits(W, R, F, a, n, kind, Split)
  <2> HIDE DEF n
  <2> QED BY <1>1, AddBranchSplits
<1>3. /\ Split \subseteq {Edge(n - 1, n, "kFlow")}
      /\ graph' = GraphOf(F \cup Split \cup {e})
      /\ Split # {} => n - 1 \in R /\ n \in W
  BY <1>2, Zenon DEF Splits
<1>4. F \cup Split \cup {e} = G \cup Split
  <2>1. F \cup {e} = G OBVIOUS
  <2> HIDE DEF e, n, G
  <2> QED BY <2>1
<1>5. ASSUME NEW x \in Split
      PROVE  \E c \in RunningOn(W) : /\ x = Edge(c, c + 1, "kFlow")
                                     /\ c + 1 \in H \cup {a} \cup Successors(a)
  <2>1. n - 1 \in R /\ n \in W /\ (n - 1) + 1 = n BY <1>1, <1>3
  <2>2. x = Edge(n - 1, n, "kFlow") BY <1>3
  <2>3. n - 1 \in RunningOn(W) BY <2>1 DEF RunningOn
  <2> HIDE DEF n, W
  <2>4. n \in H \cup {a} \cup Successors(a) BY <2>1 DEF W
  <2> WITNESS n - 1 \in RunningOn(W)
  <2> QED BY <2>1, <2>2, <2>4
<1>6. graph' = GraphOf(G \cup Split) BY <1>3, <1>4, Zenon
<1>7. Advances(H, a, Split) BY <1>5, <1>6, TakenAgain DEF Advances
<1> QED BY <1>7

LEMMA MaybeBranchAdvances ==
  ASSUME RTypeInv, RealInv, NEW H, History(H), NEW a, MaybeBranch(a)
  PROVE  \E Split : Advances(H, a, Split)
<1> DEFINE n == Target(a)
           F == GraphEdges \cup {Edge(a, a + 1, "kFlow")}
<1>1. /\ Class(a) = "maybe_branch" /\ Take(a)
      /\ graph' = AddBranchEdge(AddFlowEdge(a), a, n, "kJump")
      /\ queue' = (queue \ {a}) \cup ({a + 1} \cup ({n} \ {0}))
  BY DEF MaybeBranch, Queue, Class, Target
<1>2. a + 1 # 0 BY TakenAgain, <1>1
<1>3. AddFlowEdge(a) = GraphOf(F) BY AddToGraph, Zenon DEF AddFlowEdge, RTypeInv
<1>4. F \cup {Edge(a, n, "kJump")} = GraphEdges \cup Transfers({a})
  <2>1. Transfers({a}) = {Edge(0, entry, "kCall"), Edge(a, a + 1, "kFlow"),
                          Edge(a, n, "kJump")}
    BY <1>1, TransfersOf
  <2> QED BY <2>1 DEF RealInv
<1>5. Successors(a) = {a + 1} \cup ({n} \ {0})
  BY <1>1, <1>2 DEF Successors, Class, Target
<1>6. BeforeBranch(a, F) BY DEF BeforeBranch
<1> QED BY <1>1, <1>3, <1>4, <1>5, <1>6, BranchAdvances

LEMMA BranchIsAdvance ==
  ASSUME RTypeInv, RealInv, NEW H, History(H), NEW a, Branch(a)
  PROVE  \E Split : Advances(H, a, Split)
<1> DEFINE n == Target(a)
<1>1. /\ Class(a) = "branch" /\ Take(a)
      /\ graph' = AddBranchEdge(graph, a, n, "kJump")
      /\ queue' = (queue \ {a}) \cup ({n} \ {0})
  BY DEF Branch, Queue, Class, Target
<1>2. graph = GraphOf(GraphEdges) BY DEF RTypeInv
<1>3. GraphEdges \cup {Edge(a, n, "kJump")} = GraphEdges \cup Transfers({a})
  <2>1. Transfers({a}) = {Edge(0, entry, "kCall"), Edge(a, n, "kJump")}
    BY <1>1, TransfersOf
  <2> QED BY <2>1 DEF RealInv
<1>4. Successors(a) = {n} \ {0} BY <1>1 DEF Successors, Class, Target
<1>5. BeforeBranch(a, GraphEdges) BY DEF BeforeBranch
<1> QED BY <1>1, <1>2, <1>3, <1>4, <1>5, BranchAdvances

LEMMA CallAdvances ==
  ASSUME RTypeInv, RealInv, NEW H, History(H), NEW a, Call(a)
  PROVE  \E Split : Advances(H, a, Split)
<1> DEFINE n == Target(a)
           F == GraphEdges \cup {Edge(a, a + 1, "kFlow")}
<1>1. /\ Class(a) = "call" /\ Take(a)
      /\ graph' = AddBranchEdge(AddFlowEdge(a), a, n, "kCall")
      /\ queue' = (queue \ {a}) \cup {a + 1}
  BY DEF Call, Queue, Class, Target
<1>2. AddFlowEdge(a) = GraphOf(F) BY AddToGraph, Zenon DEF AddFlowEdge, RTypeInv
<1>3. F \cup {Edge(a, n, "kCall")} = GraphEdges \cup Transfers({a})
  <2>1. Transfers({a}) = {Edge(0, entry, "kCall"), Edge(a, a + 1, "kFlow"),
                          Edge(a, n, "kCall")}
    BY <1>1, TransfersOf
  <2> QED BY <2>1 DEF RealInv
<1>4. Successors(a) = {a + 1} BY <1>1 DEF Successors, Class
<1>5. BeforeBranch(a, F) BY DEF BeforeBranch
<1> QED BY <1>1, <1>2, <1>3, <1>4, <1>5, BranchAdvances

LEMMA EndAdvances ==
  ASSUME RTypeInv, RealInv, NEW H, History(H), NEW a, End(a)
  PROVE  \E Split : Advances(H, a, Split)
<1> DEFINE e == Edge(a, 0, EndKind[Class(a)])
           G == GraphEdges \cup Transfers({a})
<1>1. /\ Class(a) \in DOMAIN EndKind /\ Take(a)
      /\ graph' = AddEdge(graph, e)
      /\ queue' = (queue \ {a}) \cup {}
  BY DEF End, Queue, Class
<1>2. Class(a) \in {"return", "brk", "unallocated"} BY <1>1 DEF EndKind
<1>3. G = GraphEdges \cup {e}
  <2>1. Transfers({a}) = {Edge(0, entry, "kCall"), e} BY <1>1, TransfersOf
  <2> QED BY <2>1 DEF RealInv
<1>4. graph' = GraphOf(G \cup {})
  <2>1. graph' = GraphOf(GraphEdges \cup {e}) BY <1>1, AddToGraph, Zenon DEF RTypeInv
  <2>2. G \cup {} = GraphEdges \cup {e} BY <1>3
  <2> QED BY <2>1, <2>2, Zenon
<1>5. Successors(a) = {} BY <1>2 DEF Successors, Class
<1>6. Advances(H, a, {}) BY <1>1, <1>4, <1>5, TakenAgain DEF Advances
<1> QED BY <1>6

LEMMA FallthroughAdvances ==
  ASSUME RTypeInv, RealInv, NEW H, History(H), NEW a, Fallthrough(a)
  PROVE  \E Split : Advances(H, a, Split)
<1> DEFINE on == Edge(a, a + 1, "kFlow")
           G == GraphEdges \cup Transfers({a})
           Split == IF a + 1 \in DOMAIN graph.incoming THEN {on} ELSE {}
<1>1. /\ Class(a) = "other" /\ Take(a)
      /\ graph' = IF a + 1 \in DOMAIN graph.incoming THEN AddFlowEdge(a) ELSE graph
      /\ queue' = (queue \ {a}) \cup {a + 1}
  BY DEF Fallthrough, Queue, Class
<1>2. G = GraphEdges
  <2>1. Transfers({a}) = {Edge(0, entry, "kCall")} BY <1>1, TransfersOf
  <2> QED BY <2>1 DEF RealInv
<1>3. graph' = GraphOf(G \cup Split)
  <2>1. graph = GraphOf(GraphEdges) BY DEF RTypeInv
  <2>2. AddFlowEdge(a) = GraphOf(GraphEdges \cup {on})
    BY <2>1, AddToGraph, Zenon DEF AddFlowEdge
  <2>3. GraphEdges \cup {} = GraphEdges OBVIOUS
  <2> HIDE DEF on, G
  <2>4. CASE a + 1 \in DOMAIN graph.incoming BY <1>1, <1>2, <2>2, <2>4
  <2>5. CASE a + 1 \notin DOMAIN graph.incoming BY <1>1, <1>2, <2>1, <2>3, <2>5
  <2> QED BY <2>4, <2>5
<1>4. Successors(a) = {a + 1} BY <1>1 DEF Successors, Class
<1>5. a \in RunningOn(H \cup {a}) BY <1>1 DEF RunningOn
<1>6. \A e \in Split : e = on OBVIOUS
<1>7. Advances(H, a, Split)
  <2> HIDE DEF Split
  <2> QED BY <1>1, <1>3, <1>4, <1>5, <1>6, TakenAgain DEF Advances
<1> QED BY <1>7

\* The edges of one instruction.
LEMMA OwnEdges ==
  ASSUME RTypeInv, NEW a \in Address
  PROVE  /\ \A e \in Transfers({a}) :
              /\ e \in [source : Address, target : Address, kind : Kinds]
              /\ Real(e) /\ e.source \in {0, a}
              /\ Leads(e) => e.target \in Successors(a)
         /\ Class(a) # "other" => a \in Sources(Transfers({a}))
<1> DEFINE n == Target(a)
           enter == Edge(0, entry, "kCall")
           on == Edge(a, a + 1, "kFlow")
           jump == Edge(a, n, "kJump")
           call == Edge(a, n, "kCall")
           end == Edge(a, 0, EndKind[Class(a)])
           E == [source : Address, target : Address, kind : Kinds]
           Own(e) == /\ e \in E /\ Real(e) /\ e.source \in {0, a}
                     /\ Leads(e) => e.target \in Successors(a)
<1>1. /\ Class(a) \in Classes /\ n \in Address
      /\ a \notin Code => Class(a) = "unallocated"
      /\ 0 \in Address /\ entry \in Address /\ (a \in Code => a + 1 \in Address)
  BY Decoded, Addresses DEF RTypeInv
<1>2. Successors(a) \subseteq NextAddresses(a) BY NextAddressesIn
<1>3. Own(enter)
  <2>1. /\ enter.source = 0 /\ enter.target = entry /\ enter.kind = "kCall"
        /\ enter \in E
    BY <1>1 DEF Edge, Kinds
  <2> HIDE DEF enter, E
  <2> QED BY <2>1 DEF Real, Leads
<1>4. ASSUME Class(a) \in {"maybe_branch", "call"} PROVE Own(on)
  <2>1. /\ on.source = a /\ on.target = a + 1 /\ on.kind = "kFlow" /\ on \in E
    BY <1>1, <1>4 DEF Edge, Kinds
  <2>2. a + 1 # 0 BY Addresses
  <2>3. a + 1 \in Successors(a) BY <1>4, <2>2 DEF Successors, Class
  <2> HIDE DEF on, E
  <2> QED BY <1>2, <2>1, <2>3 DEF Real
<1>5. ASSUME Class(a) \in {"maybe_branch", "branch"} PROVE Own(jump)
  <2>1. /\ jump.source = a /\ jump.target = n /\ jump.kind = "kJump" /\ jump \in E
    BY <1>1, <1>5 DEF Edge, Kinds
  <2>2. n # 0 => n \in Successors(a) BY <1>5 DEF Successors, Class, Target
  <2> HIDE DEF jump, E, n
  <2> QED BY <1>2, <1>5, <2>1, <2>2 DEF Real, Leads
<1>6. ASSUME Class(a) = "call" PROVE Own(call)
  <2>1. /\ call.source = a /\ call.target = n /\ call.kind = "kCall" /\ call \in E
    BY <1>1, <1>6 DEF Edge, Kinds
  <2> HIDE DEF call, E
  <2> QED BY <1>6, <2>1 DEF Real, Leads
<1>7. ASSUME Class(a) \in DOMAIN EndKind PROVE Own(end)
  <2>1. EndKind[Class(a)] \in {"kReturn", "kBreak", "kInvalid"} BY <1>7 DEF EndKind
  <2>2. /\ end.source = a /\ end.target = 0 /\ end.kind = EndKind[Class(a)] /\ end \in E
    BY <1>1, <2>1 DEF Edge, Kinds
  <2> HIDE DEF end, E
  <2> QED BY <2>1, <2>2 DEF Real, Leads
<1>8. \A e \in Transfers({a}) : Own(e)
  <2>1. DOMAIN EndKind = {"return", "brk", "unallocated"} BY DEF EndKind
  <2>2. \/ Class(a) \in {"maybe_branch", "branch", "call", "other"}
        \/ Class(a) \in DOMAIN EndKind
    BY <1>1, <2>1 DEF Classes
  <2>3. CASE Class(a) = "maybe_branch"
    <3>1. Transfers({a}) = {enter, on, jump} BY <2>3, TransfersOf
    <3> HIDE DEF Own, enter, on, jump
    <3> QED BY <1>3, <1>4, <1>5, <2>3, <3>1
  <2>4. CASE Class(a) = "branch"
    <3>1. Transfers({a}) = {enter, jump} BY <2>4, TransfersOf
    <3> HIDE DEF Own, enter, jump
    <3> QED BY <1>3, <1>5, <2>4, <3>1
  <2>5. CASE Class(a) = "call"
    <3>1. Transfers({a}) = {enter, on, call} BY <2>5, TransfersOf
    <3> HIDE DEF Own, enter, on, call
    <3> QED BY <1>3, <1>4, <1>6, <2>5, <3>1
  <2>6. CASE Class(a) = "other"
    <3>1. Transfers({a}) = {enter} BY <2>6, TransfersOf
    <3> HIDE DEF Own, enter
    <3> QED BY <1>3, <3>1
  <2>7. CASE Class(a) \in DOMAIN EndKind
    <3>1. Transfers({a}) = {enter, end} BY <2>7, TransfersOf
    <3> HIDE DEF Own, enter, end
    <3> QED BY <1>3, <1>7, <2>7, <3>1
  <2> QED BY <2>2, <2>3, <2>4, <2>5, <2>6, <2>7
<1>9. ASSUME Class(a) # "other" PROVE a \in Sources(Transfers({a}))
  <2>1. Sources(Transfers({a})) = {0} \cup ({a} \ RunningOn({a}))
    BY TransferSources DEF RTypeInv
  <2>2. a \notin RunningOn({a}) BY <1>9 DEF RunningOn
  <2> QED BY <2>1, <2>2
<1> QED BY <1>8, <1>9

\* The edge by which a block runs into the next instruction.
LEMMA RunOnEdge ==
  ASSUME RTypeInv, NEW c, Class(c) = "other"
  PROVE  LET on == Edge(c, c + 1, "kFlow")
         IN  /\ on \in [source : Address, target : Address, kind : Kinds]
             /\ Real(on) /\ on.source = c /\ on.target = c + 1 /\ c + 1 # 0
<1> DEFINE on == Edge(c, c + 1, "kFlow")
<1>1. c \in Code BY Decoded DEF RTypeInv
<1>2. c \in Address /\ c + 1 \in Address /\ c + 1 # 0 BY <1>1, Addresses
<1>3. c + 1 \in NextAddresses(c)
  <2>1. Successors(c) = {c + 1} BY DEF Successors, Class
  <2> QED BY <2>1, NextAddressesIn
<1>4. /\ on.source = c /\ on.target = c + 1 /\ on.kind = "kFlow"
      /\ on \in [source : Address, target : Address, kind : Kinds]
  BY <1>2 DEF Edge, Kinds
<1> HIDE DEF on
<1>5. Real(on) BY <1>3, <1>4 DEF Real
<1> QED BY <1>2, <1>4, <1>5 DEF on

LEMMA SameConstants ==
  ASSUME code' = code, entry' = entry, constant' = constant
  PROVE  /\ \A a : Indirect(a)' <=> Indirect(a)
         /\ \A a : NextAddresses(a)' = NextAddresses(a)
         /\ MayRun' = MayRun
         /\ \A e : Real(e)' <=> Real(e)
         /\ \A V : RunningOn(V)' = RunningOn(V)
<1>1. /\ \A a : Class(a)' = Class(a) /\ Target(a)' = Target(a)
      /\ \A a : Successors(a)' = Successors(a)
  BY SameCode
<1>2. \A a : DecodeInstruction(a)' = DecodeInstruction(a) BY DEF DecodeInstruction
<1>3. \A a : Indirect(a)' <=> Indirect(a) BY <1>2 DEF Indirect
<1>4. \A a : JumpSite(a)' <=> JumpSite(a) BY <1>2, <1>3 DEF JumpSite, Site
<1>5. \A a : NextAddresses(a)' = NextAddresses(a) BY <1>1, <1>4 DEF NextAddresses
<1>6. MayRun' = MayRun BY <1>5 DEF MayRun
<1>7. \A e : Real(e)' <=> Real(e) BY <1>1, <1>5 DEF Real
<1>8. \A V : RunningOn(V)' = RunningOn(V) BY <1>1 DEF RunningOn
<1> QED BY <1>3, <1>5, <1>6, <1>7, <1>8

LEMMA AdvanceKeeps ==
  ASSUME RTypeInv, RealInv, NEW H, History(H), NEW a, NEW Split, Advances(H, a, Split),
         pc \in {"disassemble", "redisassemble"}, UNCHANGED resolving
  PROVE  RTypeInv' /\ RealInv' /\ History(H \cup {a})' /\ GraphEdges \subseteq GraphEdges'
<1> DEFINE W == H \cup {a}
           T == Transfers({a})
           G == GraphEdges \cup T \cup Split
           All == [source : Address, target : Address, kind : Kinds]
<1>1. /\ a \in queue /\ code' = code /\ entry' = entry
      /\ visited' = visited \cup {a} /\ queue' = (queue \ {a}) \cup Successors(a)
      /\ constant' = constant /\ pc' = pc /\ zero_edges' = zero_edges
      /\ jump_added' = jump_added
  BY DEF Advances, resolving
<1>2. /\ \A b : Indirect(b)' <=> Indirect(b)
      /\ MayRun' = MayRun
      /\ \A e : Real(e)' <=> Real(e)
      /\ \A V : RunningOn(V)' = RunningOn(V)
  BY <1>1, SameConstants
<1>3. GraphEdges' = G /\ graph' = GraphOf(G)
  <2>1. graph' = GraphOf(G) BY DEF Advances
  <2>2. GraphEdges' = EdgesOf(graph') BY Zenon DEF GraphEdges, EdgesOf
  <2> QED BY <2>1, <2>2, GraphOfMaps, Zenon
<1>4. /\ a \in MayRun /\ a \in Address \ {0}
      /\ NextAddresses(a) \subseteq MayRun /\ Successors(a) \subseteq MayRun
      /\ MayRun \subseteq Address \ {0}
  BY <1>1, MayRunIsLeast, NextAddressesIn DEF History
<1>5. /\ \A e \in T : /\ e \in All /\ Real(e) /\ e.source \in {0, a}
                      /\ Leads(e) => e.target \in Successors(a)
      /\ Class(a) # "other" => a \in Sources(T)
  BY <1>4, OwnEdges
<1>6. \A e \in Split : /\ e \in All /\ Real(e) /\ e.source \in RunningOn(W)
                       /\ e.target \in W \cup Successors(a)
  <2> SUFFICES ASSUME NEW e \in Split
               PROVE  /\ e \in All /\ Real(e) /\ e.source \in RunningOn(W)
                      /\ e.target \in W \cup Successors(a)
    OBVIOUS
  <2>1. PICK c \in RunningOn(W) : /\ e = Edge(c, c + 1, "kFlow")
                                  /\ c + 1 \in W \cup Successors(a)
    BY DEF Advances
  <2>2. Class(c) = "other" BY DEF RunningOn
  <2> HIDE DEF All, W
  <2> QED BY <2>1, <2>2, RunOnEdge DEF All
<1>7. RTypeInv'
  <2>1. queue' \subseteq Address \ {0} /\ visited' \subseteq Address \ {0}
    BY <1>1, <1>4 DEF RTypeInv
  <2>2. G \subseteq All BY <1>5, <1>6 DEF RTypeInv
  <2>3. pc' \notin {"analyse", "edges", "done"} BY <1>1
  <2> HIDE DEF G
  <2> QED BY <1>1, <1>2, <1>3, <2>1, <2>2, <2>3 DEF RTypeInv
<1>8. RealInv'
  <2>1. \A e \in G : Real(e) BY <1>5, <1>6 DEF RealInv
  <2>2. Edge(0, entry, "kCall") \in G BY DEF RealInv
  <2>3. Edge(0, entry, "kCall")' = Edge(0, entry, "kCall") BY <1>1 DEF Edge
  <2> HIDE DEF G
  <2> QED BY <1>2, <1>3, <2>1, <2>2, <2>3 DEF RealInv
<1>9. History(W)'
  <2>1. visited' \subseteq W /\ W \cup queue' \subseteq MayRun
    BY <1>1, <1>4 DEF History
  <2>2. RunningOn(W) \subseteq W /\ RunningOn(H) \subseteq RunningOn(W) BY DEF RunningOn
  <2>3. Sources(G) \subseteq {0} \cup W
    <3> SUFFICES ASSUME NEW e \in G PROVE e.source \in {0} \cup W BY DEF Sources
    <3>1. e \in GraphEdges => e.source \in {0} \cup W BY DEF History, Sources
    <3> HIDE DEF T, W
    <3>2. e \in T => e.source \in {0} \cup W BY <1>5 DEF W
    <3>3. e \in Split => e.source \in {0} \cup W BY <1>6, <2>2
    <3> QED BY <3>1, <3>2, <3>3
  <2>4. W \ RunningOn(W) \subseteq Sources(G)
    <3> SUFFICES ASSUME NEW b \in W \ RunningOn(W) PROVE b \in Sources(G) OBVIOUS
    <3>1. Class(b) # "other" BY DEF RunningOn
    <3>2. b \in H => b \in Sources(GraphEdges) BY <3>1 DEF History, RunningOn
    <3>3. b = a => b \in Sources(T) BY <1>5, <3>1
    <3>4. Sources(GraphEdges) \subseteq Sources(G) /\ Sources(T) \subseteq Sources(G)
      BY DEF Sources
    <3> QED BY <3>2, <3>3, <3>4
  <2>5. \A b \in W \cup queue' : b \in Targets(G) \/ b - 1 \in RunningOn(W)
    <3> SUFFICES ASSUME NEW b \in W \cup queue'
                 PROVE  b \in Targets(G) \/ b - 1 \in RunningOn(W)
      OBVIOUS
    <3>1. CASE b \in H \cup queue
      <4>1. b \in Targets(GraphEdges) \/ b - 1 \in RunningOn(H)
        BY <3>1 DEF History
      <4>2. Targets(GraphEdges) \subseteq Targets(G) BY DEF Targets
      <4> QED BY <2>2, <4>1, <4>2
    <3>2. CASE b \in Successors(a)
      <4>1. b \in Targets(T) \/ (b - 1 = a /\ a \in RunningOn({a}))
        BY <1>4, <3>2, Addresses, SuccessorsPreceded DEF RTypeInv
      <4>2. Targets(T) \subseteq Targets(G) BY DEF Targets
      <4>3. RunningOn({a}) \subseteq RunningOn(W) BY DEF RunningOn
      <4> QED BY <4>1, <4>2, <4>3
    <3> QED BY <1>1, <3>1, <3>2
  <2>6. \A c \in RunningOn(W) : c + 1 \in W \cup queue'
    <3> SUFFICES ASSUME NEW c \in RunningOn(W) PROVE c + 1 \in W \cup queue' OBVIOUS
    <3>1. CASE c \in H
      <4>1. c + 1 \in H \cup queue BY <3>1 DEF History, RunningOn
      <4> QED BY <1>1, <4>1
    <3>2. CASE c = a
      <4>1. Successors(a) = {a + 1} BY <3>2 DEF RunningOn, Successors, Class
      <4> QED BY <1>1, <3>2, <4>1
    <3> QED BY <3>1, <3>2 DEF RunningOn
  <2>7. \A e \in G : Leads(e) => e.target \in W \cup queue'
    <3> SUFFICES ASSUME NEW e \in G, Leads(e) PROVE e.target \in W \cup queue' OBVIOUS
    <3>1. e \in GraphEdges => e.target \in H \cup queue BY DEF History
    <3>2. e \in T \cup Split => e.target \in W \cup Successors(a)
      <4> HIDE DEF T, W
      <4> QED BY <1>5, <1>6
    <3> QED BY <1>1, <3>1, <3>2
  <2>8. Sources(GraphEdges)' = Sources(G) /\ Targets(GraphEdges)' = Targets(G)
    <3> HIDE DEF G
    <3> QED BY <1>3 DEF Sources, Targets
  <2> HIDE DEF G, W
  <2> QED BY <1>2, <1>3, <2>1, <2>3, <2>4, <2>5, <2>6, <2>7, <2>8 DEF History, Leads
<1>10. GraphEdges \subseteq GraphEdges' BY <1>3
<1> QED BY <1>7, <1>8, <1>9, <1>10

-----------------------------------------------------------------------------
(* The reach of the analysis, of any graph g.                              *)

BlockStartsOf(g) ==
  {a \in DOMAIN g.incoming \ {0} :
     /\ \E e \in g.incoming[a] : e.kind # "kCall" \/ e.source = 0
     /\ BasicBlockStart(g, a) # 0
     /\ BasicBlockEnd(g, a) \in Code}

FlowsToOf(g, a) ==
  LET end == BasicBlockEnd(g, a)
      insn == DecodeInstruction(end)
      jumps == {e.target : e \in {f \in g.outgoing[end] : f.kind = "kJump"}}
      next == IF insn.class \in {"branch", "call", "return"} THEN {} ELSE {end + 1}
  IN  {BasicBlockStart(g, t) : t \in (jumps \cup next) \ {0}} \cap BlockStartsOf(g)

ClosedIn(g, S) == /\ {entry} \cap BlockStartsOf(g) \subseteq S
                  /\ \A a \in S : FlowsToOf(g, a) \subseteq S

WithStateOf(g) ==
  {a \in BlockStartsOf(g) : \A S \in SUBSET BlockStartsOf(g) : ClosedIn(g, S) => a \in S}

ZeroEdgesOf(g) ==
  {BasicBlockEnd(g, a) : a \in
     {b \in WithStateOf(g) : \E e \in g.outgoing[BasicBlockEnd(g, b)] :
                               e.target = 0 /\ e.kind \in {"kJump", "kCall"}}}

LEMMA AnalysisOf ==
  /\ ZeroEdgesWithState = ZeroEdgesOf(graph)
  /\ code' = code /\ entry' = entry => ZeroEdgesWithState' = ZeroEdgesOf(graph')
<1>1. ZeroEdgesWithState = ZeroEdgesOf(graph)
  <2>1. BlockStarts = BlockStartsOf(graph) BY Zenon DEF BlockStarts, BlockStartsOf
  <2>2. \A a : FlowsTo(a) = FlowsToOf(graph, a) BY <2>1, Zenon DEF FlowsTo, FlowsToOf
  <2>3. WithState = WithStateOf(graph)
    BY <2>1, <2>2 DEF WithState, WithStateOf, ClosedIn
  <2> QED BY <2>3, Zenon DEF ZeroEdgesWithState, ZeroEdgesOf
<1>2. ASSUME code' = code, entry' = entry
      PROVE  ZeroEdgesWithState' = ZeroEdgesOf(graph')
  <2>1. BlockStarts' = BlockStartsOf(graph') BY Zenon DEF BlockStarts, BlockStartsOf
  <2>2. \A a : DecodeInstruction(a)' = DecodeInstruction(a)
    BY <1>2 DEF DecodeInstruction
  <2>3. \A a : FlowsTo(a)' = FlowsToOf(graph', a)
    BY <2>1, <2>2 DEF FlowsTo, FlowsToOf
  <2>4. WithState' = WithStateOf(graph')
    BY <1>2, <2>1, <2>3 DEF WithState, WithStateOf, ClosedIn
  <2> QED BY <2>4, Zenon DEF ZeroEdgesWithState, ZeroEdgesOf
<1> QED BY <1>1, <1>2

\* A block that starts at one of BlockStarts.
LEMMA StartsOf ==
  ASSUME NEW E, Numbered(E), NEW b
  PROVE  LET g == GraphOf(E)
             t == BasicBlockEnd(g, b)
         IN  /\ b \in BlockStartsOf(g) <=>
                  /\ b \in Targets(E) \ {0} /\ BlockAt(E, b, b, t) /\ t \in Code
                  /\ \E e \in E : e.target = b /\ (e.kind # "kCall" \/ e.source = 0)
             /\ b \in BlockStartsOf(g) => g.outgoing[t] = {e \in E : e.source = t}
<1> DEFINE g == GraphOf(E)
           s == BasicBlockStart(g, b)
           t == BasicBlockEnd(g, b)
<1>1. /\ DOMAIN g.incoming = Targets(E)
      /\ \A a \in Targets(E) : g.incoming[a] = {e \in E : e.target = a}
      /\ \A a \in Sources(E) : g.outgoing[a] = {e \in E : e.source = a}
  BY GraphOfMaps
<1>2. ASSUME b \in Targets(E) \ {0}
      PROVE  /\ s # 0 => BlockAt(E, b, b, t)
             /\ BlockAt(E, b, b, t) => s # 0
  <2>1. b \in Nat \ {0} BY <1>2 DEF Numbered
  <2>2. /\ \A u, v : BlockAt(E, b, u, v) => s = u /\ t = v
        /\ s # 0 => BlockAt(E, b, s, t)
        /\ s \in Nat /\ t \in Nat
    BY <2>1, BlockStartEnd
  <2>3. ASSUME s # 0 PROVE s = b
    <3>1. s <= b /\ b <= t /\ ~(s < b /\ b <= t)
      BY <1>2, <2>2, <2>3 DEF BlockAt, Block
    <3> HIDE DEF s, t
    <3> QED BY <2>1, <2>2, <3>1
  <2> HIDE DEF s, t
  <2> QED BY <2>1, <2>2, <2>3
<1>3. BlockAt(E, b, b, t) => t \in Sources(E) BY DEF BlockAt, Block
<1> HIDE DEF s, t
<1>4. b \in BlockStartsOf(g) <=>
        /\ b \in Targets(E) \ {0} /\ s # 0 /\ t \in Code
        /\ \E e \in E : e.target = b /\ (e.kind # "kCall" \/ e.source = 0)
  BY <1>1 DEF BlockStartsOf, s, t
<1>5. b \in BlockStartsOf(g) <=>
        /\ b \in Targets(E) \ {0} /\ BlockAt(E, b, b, t) /\ t \in Code
        /\ \E e \in E : e.target = b /\ (e.kind # "kCall" \/ e.source = 0)
  BY <1>2, <1>4
<1>6. b \in BlockStartsOf(g) => g.outgoing[t] = {e \in E : e.source = t}
  BY <1>1, <1>3, <1>5
<1> QED BY <1>5, <1>6 DEF t

\* ResolveCall replaces an edge to 0 by one to c.  It may cut the block that c is in the
\* middle of, but makes no new one that has a state.
Replaces(E, F, a, c) ==
  /\ Numbered(E) /\ a \in Nat \ {0} /\ c \in Nat \ {0}
  /\ F = (E \ {Edge(a, 0, "kCall")}) \cup {Edge(a, c, "kCall")}
  /\ \A e \in E : e.source = a /\ e.target = 0 /\ e.kind \in {"kJump", "kCall"} =>
                    e = Edge(a, 0, "kCall")

LEMMA ReplacedEdges ==
  ASSUME NEW E, NEW F, NEW a, NEW c, Replaces(E, F, a, c)
  PROVE  /\ Sources(F) \subseteq Sources(E) \cup {a}
         /\ Sources(E) \subseteq Sources(F)
         /\ Targets(F) \subseteq Targets(E) \cup {c}
         /\ Targets(E) \ {0} \subseteq Targets(F)
         /\ Numbered(F)
         /\ \A e \in F : e \in E \/ (e.source = a /\ e.target = c /\ e.kind = "kCall")
         /\ ~OpenAt(F, a)
<1> DEFINE old == Edge(a, 0, "kCall")
           new == Edge(a, c, "kCall")
<1>1. /\ old.source = a /\ old.target = 0 /\ old.kind = "kCall"
      /\ new.source = a /\ new.target = c /\ new.kind = "kCall"
  BY Fields
<1>2. /\ F = (E \ {old}) \cup {new}
      /\ \A e \in E : e.source = a /\ e.target = 0 /\ e.kind \in {"kJump", "kCall"} => e = old
      /\ c # 0
  BY DEF Replaces
<1> HIDE DEF old, new
<1>3. /\ Sources(F) \subseteq Sources(E) \cup {a} /\ Sources(E) \subseteq Sources(F)
      /\ Targets(F) \subseteq Targets(E) \cup {c} /\ Targets(E) \ {0} \subseteq Targets(F)
  BY <1>1, <1>2 DEF Sources, Targets
<1>4. Numbered(F) BY <1>3 DEF Replaces, Numbered
<1>5. \A e \in F : e \in E \/ (e.source = a /\ e.target = c /\ e.kind = "kCall")
  BY <1>1, <1>2
<1>6. ~OpenAt(F, a)
  BY <1>1, <1>2 DEF OpenAt
<1> QED BY <1>3, <1>4, <1>5, <1>6

LEMMA CutFlows ==
  ASSUME NEW E, NEW F, NEW a, NEW c, Replaces(E, F, a, c), a \in Sources(E)
  PROVE  LET old == GraphOf(E)
             new == GraphOf(F)
         IN  /\ \A b \in BlockStartsOf(new) :
                  /\ b \in BlockStartsOf(old)
                  /\ BasicBlockEnd(new, b) = BasicBlockEnd(old, b)
                  /\ FlowsToOf(new, b) \subseteq FlowsToOf(old, b)
             /\ WithStateOf(new) \subseteq WithStateOf(old)
<1> DEFINE old == GraphOf(E)
           new == GraphOf(F)
           BlockEnd(g, b) == BasicBlockEnd(g, b)
<1>1. /\ Sources(F) = Sources(E) /\ Targets(F) \subseteq Targets(E) \cup {c}
      /\ Targets(E) \ {0} \subseteq Targets(F)
      /\ Numbered(F) /\ Numbered(E) /\ a # 0
      /\ \A e \in F : e \in E \/ (e.source = a /\ e.target = c /\ e.kind = "kCall")
  <2>1. Numbered(E) /\ a # 0 BY DEF Replaces
  <2>2. /\ Sources(F) \subseteq Sources(E) \cup {a} /\ Sources(E) \subseteq Sources(F)
        /\ Targets(F) \subseteq Targets(E) \cup {c}
        /\ Targets(E) \ {0} \subseteq Targets(F) /\ Numbered(F)
        /\ \A e \in F : e \in E \/ (e.source = a /\ e.target = c /\ e.kind = "kCall")
    BY ReplacedEdges, Zenon
  <2> QED BY <2>1, <2>2
<1>2. ASSUME NEW n \in Nat, NEW s \in Targets(E) \ {0}, NEW t, BlockAt(F, n, s, t)
      PROVE  BlockAt(E, n, s, t)
  <2>1. ASSUME NEW l \in Targets(E), s < l, l <= t PROVE FALSE
    <3>1. s \in Nat /\ l \in Nat BY <1>1 DEF Numbered
    <3>2. l \in Targets(F) BY <1>1, <2>1, <3>1
    <3> QED BY <1>2, <2>1, <3>2 DEF BlockAt, Block
  <2> QED BY <1>1, <1>2, <2>1 DEF BlockAt, Block
<1>3. ASSUME NEW b \in BlockStartsOf(new)
      PROVE  /\ b \in BlockStartsOf(old) /\ BlockEnd(new, b) = BlockEnd(old, b)
             /\ b \in Targets(E) \ {0} /\ b \in Nat
             /\ new.outgoing[BlockEnd(new, b)] = {e \in F : e.source = BlockEnd(new, b)}
             /\ old.outgoing[BlockEnd(new, b)] = {e \in E : e.source = BlockEnd(new, b)}
  <2> DEFINE t == BlockEnd(new, b)
  <2>1. /\ b \in Targets(F) \ {0} /\ BlockAt(F, b, b, t) /\ t \in Code
        /\ \E e \in F : e.target = b /\ (e.kind # "kCall" \/ e.source = 0)
        /\ new.outgoing[t] = {e \in F : e.source = t}
    BY <1>1, StartsOf
  <2> HIDE DEF t
  <2>2. PICK e \in E : e.target = b /\ (e.kind # "kCall" \/ e.source = 0)
    BY <1>1, <2>1
  <2>3. b \in Targets(E) \ {0} /\ b \in Nat BY <1>1, <2>1, <2>2 DEF Targets, Numbered
  <2>4. BlockAt(E, b, b, t) BY <1>2, <2>1, <2>3
  <2>5. BlockEnd(old, b) = t BY <1>1, <2>3, <2>4, BlockStartEnd
  <2>6. b \in BlockStartsOf(old)
    BY <1>1, <2>1, <2>2, <2>3, <2>4, <2>5, StartsOf
  <2>7. old.outgoing[BlockEnd(old, b)] = {f \in E : f.source = BlockEnd(old, b)}
    BY <1>1, <2>6, StartsOf
  <2> QED BY <2>1, <2>3, <2>5, <2>6, <2>7 DEF t
<1>4. ASSUME NEW b \in BlockStartsOf(new)
      PROVE  FlowsToOf(new, b) \subseteq FlowsToOf(old, b)
  <2> DEFINE t == BlockEnd(new, b)
             next == IF DecodeInstruction(t).class \in {"branch", "call", "return"}
                     THEN {} ELSE {t + 1}
             jumps(E0) == {e.target : e \in {f \in {g \in E0 : g.source = t} : f.kind = "kJump"}}
             from(E0) == (jumps(E0) \cup next) \ {0}
  <2>1. jumps(F) \subseteq jumps(E) BY <1>1
  <2>2. /\ FlowsToOf(new, b) = {BasicBlockStart(new, n) : n \in from(F)} \cap BlockStartsOf(new)
        /\ FlowsToOf(old, b) = {BasicBlockStart(old, n) : n \in from(E)} \cap BlockStartsOf(old)
    BY <1>3, <1>4, Zenon DEF FlowsToOf
  <2>3. from(F) \subseteq Nat
    <3>1. t \in Nat
      <4>1. t \in Code BY <1>1, <1>4, StartsOf
      <4> QED BY <4>1, Addresses
    <3>2. jumps(F) \subseteq Nat BY <1>1 DEF Numbered, Targets
    <3> HIDE DEF t, jumps
    <3> QED BY <3>1, <3>2
  <2> HIDE DEF from, new, old
  <2>4. ASSUME NEW x \in FlowsToOf(new, b) PROVE x \in FlowsToOf(old, b)
    <3>1. PICK n \in from(F) : x = BasicBlockStart(new, n) /\ x \in BlockStartsOf(new)
      BY <2>2
    <3>2. /\ x \in BlockStartsOf(old) /\ x \in Targets(E) \ {0} BY <1>3, <3>1
    <3>3. n \in Nat BY <2>3
    <3>4. BlockAt(F, n, x, BasicBlockEnd(new, n))
      BY <1>1, <3>1, <3>2, <3>3, BlockStartEnd DEF new
    <3>5. BlockAt(E, n, x, BasicBlockEnd(new, n)) BY <1>2, <3>2, <3>3, <3>4
    <3>6. BasicBlockStart(old, n) = x BY <1>1, <3>3, <3>5, BlockStartEnd DEF old
    <3>7. n \in from(E)
      <4> HIDE DEF jumps, next
      <4> QED BY <2>1 DEF from
    <3> QED BY <2>2, <3>2, <3>6, <3>7
  <2> QED BY <2>4
<1>5. WithStateOf(new) \subseteq WithStateOf(old)
  <2> SUFFICES ASSUME NEW x \in WithStateOf(new),
                      NEW S \in SUBSET BlockStartsOf(old), ClosedIn(old, S)
               PROVE  x \in S
    BY <1>3 DEF WithStateOf
  <2> DEFINE R == S \cap BlockStartsOf(new)
  <2> HIDE DEF old, new
  <2>1. \A b \in BlockStartsOf(new) : FlowsToOf(new, b) \subseteq BlockStartsOf(new)
    BY DEF FlowsToOf
  <2>2. ClosedIn(new, R) BY <1>3, <1>4, <2>1 DEF ClosedIn
  <2>3. x \in R BY <2>2 DEF WithStateOf
  <2> QED BY <2>3
<1> QED BY <1>3, <1>4, <1>5

LEMMA CutZeroEdges ==
  ASSUME NEW E, NEW F, NEW a, NEW c, Replaces(E, F, a, c), a \in Sources(E)
  PROVE  ZeroEdgesOf(GraphOf(F)) \subseteq ZeroEdgesOf(GraphOf(E)) \ {a}
<1> DEFINE old == GraphOf(E)
           new == GraphOf(F)
<1>1. /\ \A e \in F : e \in E \/ (e.source = a /\ e.target = c /\ e.kind = "kCall")
      /\ ~OpenAt(F, a)
      /\ Numbered(F) /\ Numbered(E) /\ c # 0
  <2>1. Numbered(E) /\ c # 0 BY DEF Replaces
  <2>2. \A e \in F : e \in E \/ (e.source = a /\ e.target = c /\ e.kind = "kCall")
    BY ReplacedEdges, Zenon
  <2>3. ~OpenAt(F, a)
    BY ReplacedEdges, Zenon
  <2>4. Numbered(F) BY ReplacedEdges, Zenon
  <2> QED BY <2>1, <2>2, <2>3, <2>4
<1> SUFFICES ASSUME NEW b \in WithStateOf(new),
                    NEW e \in new.outgoing[BasicBlockEnd(new, b)],
                    e.target = 0 /\ e.kind \in {"kJump", "kCall"}
             PROVE  BasicBlockEnd(new, b) \in ZeroEdgesOf(old) \ {a}
  BY DEF ZeroEdgesOf
<1> DEFINE t == BasicBlockEnd(new, b)
<1>2. b \in BlockStartsOf(new) BY DEF WithStateOf
<1>3. /\ b \in BlockStartsOf(old) /\ t = BasicBlockEnd(old, b) /\ b \in WithStateOf(old)
  BY <1>2, CutFlows
<1>4. new.outgoing[t] = {f \in F : f.source = t} BY <1>1, <1>2, StartsOf
<1>5. old.outgoing[t] = {f \in E : f.source = t}
  <2>1. old.outgoing[BasicBlockEnd(old, b)] = {f \in E : f.source = BasicBlockEnd(old, b)}
    BY <1>1, <1>3, StartsOf
  <2> QED BY <1>3, <2>1
<1> HIDE DEF old, new, t
<1>6. e \in F /\ e.source = t BY <1>4 DEF t
<1>7. t # a BY <1>1, <1>6 DEF OpenAt
<1>8. e \in old.outgoing[t] BY <1>1, <1>5, <1>6, <1>7
<1>9. t \in ZeroEdgesOf(old) BY <1>3, <1>8 DEF ZeroEdgesOf
<1> QED BY <1>7, <1>9 DEF t

LEMMA ZeroEdgesAreOpen ==
  ASSUME RTypeInv, NEW a \in ZeroEdgesWithState
  PROVE  a \in Code /\ OpenAt(GraphEdges, a)
<1> DEFINE g == GraphOf(GraphEdges)
<1>1. Numbered(GraphEdges) BY Addresses DEF RTypeInv, Numbered, Sources, Targets
<1>2. a \in ZeroEdgesOf(graph) BY AnalysisOf
<1>3. PICK b \in WithStateOf(graph) :
        /\ a = BasicBlockEnd(graph, b)
        /\ \E e \in graph.outgoing[a] : e.target = 0 /\ e.kind \in {"kJump", "kCall"}
  BY <1>2 DEF ZeroEdgesOf
<1>4. graph = g /\ b \in BlockStartsOf(g) BY <1>3 DEF RTypeInv, WithStateOf
<1>5. /\ BasicBlockEnd(g, b) \in Code
      /\ g.outgoing[BasicBlockEnd(g, b)] = {e \in GraphEdges : e.source = BasicBlockEnd(g, b)}
  BY <1>1, <1>4, StartsOf
<1> HIDE DEF g
<1> QED BY <1>3, <1>4, <1>5 DEF OpenAt

-----------------------------------------------------------------------------
(* The steps of ResolveBranches.                                           *)

LEMMA InitRInv == InitResolve => RInv
<1> SUFFICES ASSUME InitResolve PROVE RInv OBVIOUS
<1> DEFINE e == Edge(0, entry, "kCall")
<1>1. IInv BY InitIInv DEF InitResolve
<1>2. /\ code \in [Code -> Instructions] /\ entry \in Code
      /\ queue = {entry} /\ visited = {}
      /\ constant \in [Code -> 0 .. Size]
      /\ \A a \in Code : constant[a] # 0 => Indirect(a)
      /\ pc = "disassemble" /\ zero_edges = {} /\ jump_added = FALSE
  BY DEF InitResolve, Init
<1>3. GraphEdges = {e}
  <2>1. Transfers({}) = {e} /\ RunningOn({}) = {} BY DEF Transfers, RunningOn
  <2>2. RunsOn({}, Transfers({})) = {} BY <2>1 DEF RunsOn
  <2>3. Transfers({}) \subseteq GraphEdges /\ GraphEdges \subseteq Transfers({}) \cup {}
    BY <1>1, <1>2, <2>2 DEF IInv, EdgesInv
  <2> QED BY <2>1, <2>3
<1>4. RTypeInv
  <2>1. graph = GraphOf(GraphEdges) BY <1>1 DEF IInv, TypeInv
  <2>2. GraphEdges \subseteq [source : Address, target : Address, kind : Kinds]
    BY <1>1, EdgeFacts
  <2> QED BY <1>2, <2>1, <2>2, Addresses DEF RTypeInv
<1>5. e.source = 0 /\ e.target = entry /\ e.kind = "kCall" BY Fields
<1> HIDE DEF e
<1>6. RealInv BY <1>3, <1>5 DEF RealInv, Real, e
<1>7. History({})
  <2>1. Sources(GraphEdges) = {0} /\ Targets(GraphEdges) = {entry}
    BY <1>3, <1>5 DEF Sources, Targets
  <2>2. \A f \in GraphEdges : ~Leads(f) BY <1>3, <1>5 DEF Leads
  <2>3. {entry} \subseteq MayRun BY <1>4, MayRunIsLeast
  <2> QED BY <1>2, <2>1, <2>2, <2>3 DEF History, RunningOn
<1>8. ZeroInv BY <1>2 DEF ZeroInv
<1> QED BY <1>4, <1>6, <1>7, <1>8 DEF RInv, HistoryInv

\* A step that leaves the graph and the rounds of Disassemble alone.
LEMMA SameGraph ==
  ASSUME RInv, UNCHANGED <<vars, constant>>
  PROVE  /\ RealInv' /\ HistoryInv' /\ GraphEdges' = GraphEdges
         /\ ZeroEdgesWithState' = ZeroEdgesWithState
         /\ code' = code /\ entry' = entry /\ graph' = graph
         /\ queue' = queue /\ visited' = visited /\ constant' = constant
         /\ \A a : Indirect(a)' <=> Indirect(a)
<1>1. /\ code' = code /\ entry' = entry /\ graph' = graph
      /\ queue' = queue /\ visited' = visited /\ constant' = constant
  BY DEF vars
<1>2. /\ \A a : Indirect(a)' <=> Indirect(a)
      /\ MayRun' = MayRun
      /\ \A e : Real(e)' <=> Real(e)
      /\ \A V : RunningOn(V)' = RunningOn(V)
  BY <1>1, SameConstants
<1>3. GraphEdges' = GraphEdges BY <1>1 DEF GraphEdges
<1>4. RealInv'
  <2>1. Edge(0, entry, "kCall")' = Edge(0, entry, "kCall") BY <1>1 DEF Edge
  <2> QED BY <1>2, <1>3, <2>1 DEF RInv, RealInv
<1>5. HistoryInv'
  <2>1. PICK H : History(H) BY DEF RInv, HistoryInv
  <2>2. Sources(GraphEdges)' = Sources(GraphEdges) /\ Targets(GraphEdges)' = Targets(GraphEdges)
    BY <1>3 DEF Sources, Targets
  <2>3. History(H)' BY <1>1, <1>2, <1>3, <2>1, <2>2 DEF History, Leads
  <2> QED BY <2>3 DEF HistoryInv
<1>6. ZeroEdgesWithState' = ZeroEdgesWithState BY <1>1, AnalysisOf
<1> QED BY <1>1, <1>2, <1>3, <1>4, <1>5, <1>6

\* The edge to 0 at a gives way to one to c, which makes GraphEdges F.
Swaps(a, c, kind, F) ==
  /\ AddEdge(RemoveEdge(graph, Edge(a, 0, kind)), Edge(a, c, kind)) = GraphOf(F)
  /\ F = (GraphEdges \ {Edge(a, 0, kind)}) \cup {Edge(a, c, kind)}
  /\ F \subseteq [source : Address, target : Address, kind : Kinds]
  /\ Sources(F) = Sources(GraphEdges) /\ a \in Sources(GraphEdges)
  /\ Targets(GraphEdges) \ {0} \subseteq Targets(F) /\ c \in Targets(F)
  /\ \A b : b # a /\ OpenAt(GraphEdges, b) => OpenAt(F, b)
  /\ \A e \in F : e \in GraphEdges \/ e = Edge(a, c, kind)

LEMMA ReplaceZeroEdge ==
  ASSUME RTypeInv, NEW a \in zero_edges, OpenAt(GraphEdges, a),
         NEW c \in Address \ {0}, NEW kind \in {"kJump", "kCall"}
  PROVE  \E F : Swaps(a, c, kind, F)
<1> DEFINE old == Edge(a, 0, kind)
           new == Edge(a, c, kind)
           E == GraphEdges
           F == (E \ {old}) \cup {new}
<1>1. a \in Code /\ a \in Address /\ a # 0 BY Addresses DEF RTypeInv
<1>2. new \in [source : Address, target : Address, kind : Kinds]
  BY <1>1 DEF Edge, Kinds
<1>3. AddEdge(RemoveEdge(graph, old), new) = GraphOf(F)
  <2>1. graph = GraphOf(E) BY DEF RTypeInv
  <2>2. RemoveEdge(GraphOf(E), old) = GraphOf(E \ {old}) BY RemoveFromGraph, Zenon
  <2>3. AddEdge(GraphOf(E \ {old}), new) = GraphOf((E \ {old}) \cup {new})
    BY AddToGraph, Zenon
  <2>4. F = (E \ {old}) \cup {new} OBVIOUS
  <2> QED BY <2>1, <2>2, <2>3, <2>4, Zenon
<1>4. /\ old.source = a /\ old.target = 0 /\ new.source = a /\ new.target = c
  BY Fields
<1>5. a \in Sources(E) BY DEF OpenAt, Sources
<1>6. F = (E \ {old}) \cup {new} OBVIOUS
<1> HIDE DEF old, new, F
<1>7. F \subseteq [source : Address, target : Address, kind : Kinds]
  BY <1>2, <1>6 DEF RTypeInv
<1>8. /\ Sources(F) = Sources(E)
      /\ Targets(E) \ {0} \subseteq Targets(F) /\ c \in Targets(F)
  BY <1>4, <1>5, <1>6 DEF Sources, Targets
<1>9. \A b : b # a /\ OpenAt(E, b) => OpenAt(F, b) BY <1>4, <1>6 DEF OpenAt
<1>10. \A e \in F : e \in E \/ e = new BY <1>6
<1>11. Swaps(a, c, kind, F)
  BY <1>3, <1>5, <1>6, <1>7, <1>8, <1>9, <1>10 DEF Swaps, old, new
<1> QED BY <1>11

LEMMA DisassemblingRInv == ASSUME RInv, Disassembling PROVE RInv'
<1>1. /\ pc \in {"disassemble", "redisassemble"} /\ UNCHANGED resolving
      /\ RTypeInv /\ RealInv /\ ZeroInv
  BY DEF Disassembling, RInv
<1>2. PICK H : History(H) BY DEF RInv, HistoryInv
<1>3. PICK a \in queue : Visit(a) BY DEF Disassembling, Step
<1>4. /\ constant' = constant /\ pc' = pc /\ zero_edges' = zero_edges
      /\ jump_added' = jump_added
  BY <1>1 DEF resolving
<1>5. ASSUME NEW Split, Advances(H, a, Split) PROVE RInv'
  <2>1. RTypeInv' /\ RealInv' /\ History(H \cup {a})' /\ GraphEdges \subseteq GraphEdges'
    BY <1>1, <1>2, <1>5, AdvanceKeeps
  <2>2. HistoryInv' BY <2>1 DEF HistoryInv
  <2>3. ZeroInv' BY <1>1, <1>4, <2>1 DEF ZeroInv, OpenAt
  <2> QED BY <2>1, <2>2, <2>3 DEF RInv
<1>6. CASE Skip(a)
  <2>1. /\ a \in visited /\ queue' = queue \ {a}
        /\ code' = code /\ entry' = entry /\ graph' = graph /\ visited' = visited
    BY <1>6 DEF Skip
  <2>2. /\ \A b : Indirect(b)' <=> Indirect(b)
        /\ MayRun' = MayRun
        /\ \A e : Real(e)' <=> Real(e)
        /\ \A V : RunningOn(V)' = RunningOn(V)
    BY <1>4, <2>1, SameConstants
  <2>3. GraphEdges' = GraphEdges BY <2>1 DEF GraphEdges
  <2>4. RTypeInv' BY <1>1, <1>4, <2>1, <2>2, <2>3 DEF RTypeInv
  <2>5. RealInv'
    <3>1. Edge(0, entry, "kCall")' = Edge(0, entry, "kCall") BY <2>1 DEF Edge
    <3> QED BY <1>1, <2>2, <2>3, <3>1 DEF RealInv
  <2>6. History(H)'
    <3>1. Sources(GraphEdges)' = Sources(GraphEdges) /\ Targets(GraphEdges)' = Targets(GraphEdges)
      BY <2>3 DEF Sources, Targets
    <3>2. H \cup queue' = H \cup queue BY <1>2, <2>1 DEF History
    <3> QED BY <1>2, <2>1, <2>2, <2>3, <3>1, <3>2 DEF History, Leads
  <2>7. HistoryInv' BY <2>6 DEF HistoryInv
  <2>8. ZeroInv' BY <1>1, <1>4, <2>3 DEF ZeroInv, OpenAt
  <2> QED BY <2>4, <2>5, <2>7, <2>8 DEF RInv
<1>7. ASSUME \E Split : Advances(H, a, Split) PROVE RInv' BY <1>5, <1>7
<1> QED
  BY <1>1, <1>2, <1>3, <1>6, <1>7, MaybeBranchAdvances, BranchIsAdvance, CallAdvances,
     EndAdvances, FallthroughAdvances DEF Visit

\* Once no edge to 0 is left there is nothing to resolve.
LEMMA NoZeroEdges ==
  ASSUME RTypeInv, resolved(graph) PROVE ZeroEdgesWithState = {}
<1> SUFFICES ASSUME NEW a \in ZeroEdgesWithState PROVE FALSE OBVIOUS
<1>1. OpenAt(GraphEdges, a) BY ZeroEdgesAreOpen
<1>2. PICK e \in GraphEdges : e.target = 0 /\ e.kind \in {"kJump", "kCall"}
  BY <1>1 DEF OpenAt
<1>3. 0 \in Targets(GraphEdges) BY <1>2 DEF Targets
<1>4. graph = GraphOf(GraphEdges) BY DEF RTypeInv
<1>5. EdgesAt(graph.incoming, 0) = {f \in GraphEdges : f.target = 0}
  <2>1. /\ DOMAIN GraphOf(GraphEdges).incoming = Targets(GraphEdges)
        /\ GraphOf(GraphEdges).incoming[0] = {f \in GraphEdges : f.target = 0}
    BY <1>3, GraphOfMaps
  <2> QED BY <1>3, <1>4, <2>1 DEF EdgesAt
<1> QED BY <1>2, <1>5 DEF resolved

LEMMA BetweenRoundsRInv ==
  ASSUME RInv, Disassembled \/ Analyse \/ Redisassembled \/ Unresolved \/ Again
               \/ UNCHANGED allvars
  PROVE  RInv'
<1>1. UNCHANGED <<vars, constant>>
  BY DEF Disassembled, Analyse, Redisassembled, Unresolved, Again, allvars, resolving
<1>2. /\ RealInv' /\ HistoryInv' /\ GraphEdges' = GraphEdges
      /\ ZeroEdgesWithState' = ZeroEdgesWithState
      /\ code' = code /\ entry' = entry /\ graph' = graph
      /\ queue' = queue /\ visited' = visited /\ constant' = constant
      /\ \A a : Indirect(a)' <=> Indirect(a)
  BY <1>1, SameGraph
<1>3. RTypeInv /\ ZeroInv BY DEF RInv
<1>4. ASSUME /\ zero_edges' \subseteq Code /\ jump_added' \in BOOLEAN
             /\ pc' \in {"disassemble", "analyse", "edges", "redisassemble", "done"}
             /\ pc' \in {"analyse", "edges", "done"} => queue = {}
      PROVE  RTypeInv'
  BY <1>2, <1>3, <1>4 DEF RTypeInv
<1>5. \A a : OpenAt(GraphEdges, a)' <=> OpenAt(GraphEdges, a) BY <1>2 DEF OpenAt
<1>6. \A a \in ZeroEdgesWithState : a \in Code /\ OpenAt(GraphEdges, a)
  BY <1>3, ZeroEdgesAreOpen
<1>7. resolved(graph) => ZeroEdgesWithState = {} BY <1>3, NoZeroEdges
<1>8. RTypeInv' /\ ZeroInv'
  <2>1. CASE Disassembled
    <3>1. /\ queue = {} /\ zero_edges' = zero_edges /\ jump_added' = jump_added
          /\ pc' \in {"done", "analyse"} /\ (pc' = "done" => resolved(graph))
      BY <2>1 DEF Disassembled
    <3>2. RTypeInv' BY <1>3, <1>4, <3>1 DEF RTypeInv
    <3>3. ZeroInv' BY <1>2, <1>7, <3>1 DEF ZeroInv
    <3> QED BY <3>2, <3>3
  <2>2. CASE Analyse
    <3>1. /\ pc = "analyse" /\ zero_edges' = ZeroEdgesWithState /\ jump_added' = FALSE
          /\ pc' = "edges"
      BY <2>2 DEF Analyse
    <3>2. RTypeInv'
      <4>1. queue = {} BY <1>3, <3>1 DEF RTypeInv
      <4> QED BY <1>4, <1>6, <3>1, <4>1
    <3>3. ZeroInv' BY <1>2, <1>5, <1>6, <3>1 DEF ZeroInv
    <3> QED BY <3>2, <3>3
  <2>3. CASE Redisassembled
    <3>1. /\ pc = "redisassemble" /\ queue = {} /\ pc' = "edges"
          /\ zero_edges' = zero_edges /\ jump_added' = jump_added
      BY <2>3 DEF Redisassembled
    <3>2. RTypeInv' BY <1>3, <1>4, <3>1 DEF RTypeInv
    <3>3. ZeroInv' BY <1>3, <1>5, <3>1 DEF ZeroInv
    <3> QED BY <3>2, <3>3
  <2>4. CASE Unresolved
    <3>1. PICK a \in zero_edges : /\ constant[a] = 0 /\ zero_edges' = zero_edges \ {a}
                                  /\ pc = "edges" /\ pc' = pc /\ jump_added' = jump_added
      BY <2>4 DEF Unresolved, Lowest
    <3>2. RTypeInv'
      <4>1. queue = {} BY <1>3, <3>1 DEF RTypeInv
      <4> QED BY <1>3, <1>4, <3>1, <4>1 DEF RTypeInv
    <3>3. ZeroInv' BY <1>2, <1>3, <1>5, <3>1 DEF ZeroInv
    <3> QED BY <3>2, <3>3
  <2>5. CASE Again
    <3>1. /\ pc = "edges" /\ zero_edges = {} /\ zero_edges' = zero_edges
          /\ jump_added' = jump_added
          /\ pc' \in {"done", "analyse"} /\ (pc' = "done" => ~jump_added \/ resolved(graph))
      BY <2>5 DEF Again
    <3>2. RTypeInv'
      <4>1. queue = {} BY <1>3, <3>1 DEF RTypeInv
      <4> QED BY <1>3, <1>4, <3>1, <4>1 DEF RTypeInv
    <3>3. \A a \in ZeroEdgesWithState : pc' = "done" => constant[a] = 0
      BY <1>3, <1>7, <3>1 DEF ZeroInv
    <3>4. ZeroInv' BY <1>2, <3>1, <3>3 DEF ZeroInv
    <3> QED BY <3>2, <3>4
  <2>6. CASE UNCHANGED allvars
    <3>1. /\ pc' = pc /\ zero_edges' = zero_edges /\ jump_added' = jump_added
      BY <2>6 DEF allvars, resolving
    <3>2. RTypeInv' BY <1>3, <1>4, <3>1 DEF RTypeInv
    <3>3. ZeroInv' BY <1>2, <1>3, <1>5, <3>1 DEF ZeroInv
    <3> QED BY <3>2, <3>3
  <2> QED BY <2>1, <2>2, <2>3, <2>4, <2>5, <2>6
<1> QED BY <1>2, <1>8 DEF RInv

\* What replacing the edge to 0 at a does to all but ZeroInv, with nothing queued but
\* what the new edge leads to.
LEMMA ReplaceKeeps ==
  ASSUME RInv, NEW H, History(H), pc = "edges", NEW a \in zero_edges, constant[a] # 0,
         NEW kind \in {"kJump", "kCall"},
         Class(a) = IF kind = "kJump" THEN "branch" ELSE "call",
         graph' = AddEdge(RemoveEdge(graph, Edge(a, 0, kind)), Edge(a, constant[a], kind)),
         zero_edges' = zero_edges \ {a},
         code' = code, entry' = entry, constant' = constant,
         jump_added' \in BOOLEAN, visited' \subseteq visited,
         IF kind = "kJump" THEN pc' = "redisassemble" /\ queue' = {constant[a]}
                           ELSE pc' = pc /\ queue' = queue
  PROVE  /\ RTypeInv' /\ RealInv' /\ HistoryInv'
         /\ Edge(a, 0, kind) \in GraphEdges
         /\ \A e \in GraphEdges :
              e.source = a /\ e.target = 0 /\ e.kind \in {"kJump", "kCall"} =>
                e = Edge(a, 0, kind)
         /\ GraphEdges' = (GraphEdges \ {Edge(a, 0, kind)}) \cup {Edge(a, constant[a], kind)}
         /\ graph' = GraphOf(GraphEdges')
         /\ \A b \in zero_edges' : OpenAt(GraphEdges, b)'
<1> DEFINE c == constant[a]
           old == Edge(a, 0, kind)
           new == Edge(a, c, kind)
           E == GraphEdges
           F == (E \ {old}) \cup {new}
           All == [source : Address, target : Address, kind : Kinds]
<1>1. RTypeInv /\ RealInv /\ ZeroInv BY DEF RInv
<1>2. /\ a \in Code /\ c \in Address \ {0} /\ OpenAt(E, a) /\ queue = {}
      /\ Indirect(a) /\ E \subseteq All
  BY <1>1, Addresses DEF RTypeInv, ZeroInv
<1>3. /\ graph' = GraphOf(F) /\ F \subseteq All
      /\ Sources(F) = Sources(E) /\ a \in Sources(E)
      /\ Targets(E) \ {0} \subseteq Targets(F) /\ c \in Targets(F)
      /\ \A b : b # a /\ OpenAt(E, b) => OpenAt(F, b)
      /\ \A e \in F : e \in E \/ e = new
  <2>1. c \in Address \ {0} /\ OpenAt(GraphEdges, a) BY <1>2
  <2> HIDE DEF c
  <2>2. PICK G : Swaps(a, c, kind, G) BY <1>1, <2>1, ReplaceZeroEdge
  <2>3. G = F BY <2>2 DEF Swaps, c
  <2> QED BY <2>2, <2>3 DEF Swaps, c
<1>4. GraphEdges' = F
  <2>1. GraphEdges' = EdgesOf(graph') BY Zenon DEF GraphEdges, EdgesOf
  <2> QED BY <1>3, <2>1, GraphOfMaps, Zenon
<1>5. /\ \A b : Indirect(b)' <=> Indirect(b)
      /\ MayRun' = MayRun
      /\ \A e : Real(e)' <=> Real(e)
      /\ \A V : RunningOn(V)' = RunningOn(V)
  BY SameConstants
<1>6. new.source = a /\ new.target = c /\ new.kind = kind BY Fields
<1>7. ASSUME NEW e \in E, e.source = a, e.target = 0, e.kind \in {"kJump", "kCall"}
      PROVE  e = old
  <2>1. Real(e) /\ e \in All BY <1>1, <1>2 DEF RealInv
  <2>2. e.kind = kind
    <3>1. a # 0 BY <1>2, Addresses
    <3> QED BY <1>7, <2>1, <3>1 DEF Real
  <2> QED BY <1>7, <2>1, <2>2 DEF Edge
<1>8. old \in E BY <1>2, <1>7 DEF OpenAt
<1>9. kind = "kJump" => c \in NextAddresses(a)
  <2>1. kind = "kJump" => JumpSite(a) BY <1>2 DEF JumpSite, Site, Class
  <2> QED BY <1>1, <2>1, NextAddressesIn
<1>10. RTypeInv'
  <2>1. zero_edges' \subseteq Code BY <1>1 DEF RTypeInv
  <2>2. queue' \subseteq Address \ {0} /\ visited' \subseteq Address \ {0}
    BY <1>1, <1>2 DEF RTypeInv
  <2>3. /\ pc' \in {"disassemble", "analyse", "edges", "redisassemble", "done"}
        /\ pc' \in {"analyse", "edges", "done"} => queue' = {}
    BY <1>2
  <2> HIDE DEF F
  <2> QED BY <1>1, <1>3, <1>4, <1>5, <2>1, <2>2, <2>3 DEF RTypeInv
<1>11. RealInv'
  <2>1. Real(new) BY <1>6, <1>9 DEF Real
  <2>2. Edge(0, entry, "kCall") # old
    <3>1. Edge(0, entry, "kCall").source = 0 /\ old.source = a /\ a # 0
      BY <1>2, Fields, Addresses
    <3> QED BY <3>1
  <2>3. Edge(0, entry, "kCall") \in F BY <1>1, <2>2 DEF RealInv
  <2>4. Edge(0, entry, "kCall")' = Edge(0, entry, "kCall") BY DEF Edge
  <2>5. \A e \in F : Real(e) BY <1>1, <1>3, <2>1 DEF RealInv
  <2> HIDE DEF F
  <2> QED BY <1>4, <1>5, <2>3, <2>4, <2>5 DEF RealInv
<1>12. History(H)'
  <2>1. visited' \subseteq H BY DEF History
  <2>2. H \subseteq MayRun /\ H \subseteq Nat \ {0}
    BY <1>1, MayRunIsLeast, Addresses DEF History
  <2>3. a \in H
    <3>1. a # 0 BY <1>2, Addresses
    <3> QED BY <1>3, <3>1 DEF History
  <2>4. H \cup queue' \subseteq MayRun
    <3>1. kind = "kJump" => c \in MayRun
      BY <1>1, <1>9, <2>2, <2>3, MayRunIsLeast
    <3> QED BY <1>2, <2>2, <3>1
  <2>5. \A b \in H \cup queue' : b \in Targets(F) \/ b - 1 \in RunningOn(H)
    <3>1. \A b \in H : b \in Targets(E) \/ b - 1 \in RunningOn(H) BY DEF History
    <3> HIDE DEF F
    <3> QED BY <1>2, <1>3, <2>2, <3>1
  <2>6. \A b \in RunningOn(H) : b + 1 \in H \cup queue' BY <1>2 DEF History
  <2>7. \A e \in F : Leads(e) => e.target \in H \cup queue'
    <3>1. \A e \in E : Leads(e) => e.target \in H BY <1>2 DEF History
    <3>2. Leads(new) => new.target \in queue' BY <1>6 DEF Leads
    <3> HIDE DEF F
    <3> QED BY <1>3, <3>1, <3>2
  <2>8. Sources(GraphEdges)' = Sources(F) /\ Targets(GraphEdges)' = Targets(F)
    <3> HIDE DEF F
    <3> QED BY <1>4 DEF Sources, Targets
  <2>9. Sources(F) \subseteq {0} \cup H /\ H \ RunningOn(H) \subseteq Sources(F)
    BY <1>3 DEF History
  <2> HIDE DEF F
  <2> QED BY <1>4, <1>5, <2>1, <2>4, <2>5, <2>6, <2>7, <2>8, <2>9 DEF History, Leads
<1>13. \A b \in zero_edges' : OpenAt(GraphEdges, b)'
  <2>1. \A b \in zero_edges : OpenAt(E, b) BY <1>1 DEF ZeroInv
  <2>2. \A b \in zero_edges' : OpenAt(F, b) BY <1>3, <2>1
  <2> HIDE DEF F
  <2> QED BY <1>4, <2>2 DEF OpenAt
<1> QED BY <1>3, <1>4, <1>7, <1>8, <1>10, <1>11, <1>12, <1>13 DEF HistoryInv

LEMMA ResolveJumpRInv == ASSUME RInv, ResolveJump PROVE RInv'
<1>1. PICK a \in zero_edges :
        /\ pc = "edges" /\ Class(a) = "branch" /\ constant[a] # 0
        /\ jump_added' = Found(graph, Edge(a, 0, "kJump"))
        /\ graph' = AddEdge(RemoveEdge(graph, Edge(a, 0, "kJump")),
                            Edge(a, constant[a], "kJump"))
        /\ queue' = {constant[a]} /\ visited' = {}
        /\ zero_edges' = zero_edges \ {a}
        /\ pc' = "redisassemble"
        /\ code' = code /\ entry' = entry /\ constant' = constant
  BY DEF ResolveJump, Lowest, Class
<1>2. PICK H : History(H) BY DEF RInv, HistoryInv
<1>3. graph = GraphOf(GraphEdges) BY DEF RInv, RTypeInv
<1>4. jump_added' <=> Edge(a, 0, "kJump") \in GraphEdges
  BY <1>1, <1>3, RemoveFromGraph, Zenon
<1>5. jump_added' \in BOOLEAN BY <1>1 DEF Found
<1>6. /\ RTypeInv' /\ RealInv' /\ HistoryInv' /\ Edge(a, 0, "kJump") \in GraphEdges
      /\ \A b \in zero_edges' : OpenAt(GraphEdges, b)'
  BY <1>1, <1>2, <1>5, ReplaceKeeps
<1>7. ZeroInv' BY <1>1, <1>4, <1>6 DEF ZeroInv
<1> QED BY <1>6, <1>7 DEF RInv

\* What had a state and was resolved or is still to look at stays so, although the call
\* may cut a block.
LEMMA ResolveCallRInv == ASSUME RInv, ResolveCall PROVE RInv'
<1>1. PICK a \in zero_edges :
        /\ pc = "edges" /\ Class(a) = "call" /\ constant[a] # 0
        /\ graph' = AddEdge(RemoveEdge(graph, Edge(a, 0, "kCall")),
                            Edge(a, constant[a], "kCall"))
        /\ zero_edges' = zero_edges \ {a}
        /\ code' = code /\ entry' = entry /\ constant' = constant
        /\ queue' = queue /\ visited' = visited /\ pc' = pc /\ jump_added' = jump_added
  BY DEF ResolveCall, Lowest, Class
<1>2. PICK H : History(H) BY DEF RInv, HistoryInv
<1>3. RTypeInv /\ ZeroInv BY DEF RInv
<1>4. jump_added' \in BOOLEAN BY <1>1, <1>3 DEF RTypeInv
<1>5. /\ RTypeInv' /\ RealInv' /\ HistoryInv' /\ Edge(a, 0, "kCall") \in GraphEdges
      /\ \A e \in GraphEdges :
           e.source = a /\ e.target = 0 /\ e.kind \in {"kJump", "kCall"} =>
             e = Edge(a, 0, "kCall")
      /\ GraphEdges' = (GraphEdges \ {Edge(a, 0, "kCall")}) \cup {Edge(a, constant[a], "kCall")}
      /\ graph' = GraphOf(GraphEdges')
      /\ \A b \in zero_edges' : OpenAt(GraphEdges, b)'
  BY <1>1, <1>2, <1>4, ReplaceKeeps
<1>6. Replaces(GraphEdges, GraphEdges', a, constant[a])
  <2>1. Numbered(GraphEdges)
    BY <1>3, Addresses DEF RTypeInv, Numbered, Sources, Targets
  <2>2. a \in Nat \ {0} /\ constant[a] \in Nat \ {0}
    BY <1>1, <1>3, Addresses DEF RTypeInv
  <2> QED BY <1>5, <2>1, <2>2 DEF Replaces
<1>7. a \in Sources(GraphEdges)
  <2>1. OpenAt(GraphEdges, a) BY <1>1, <1>3 DEF ZeroInv
  <2> QED BY <2>1 DEF OpenAt, Sources
<1>8. ZeroEdgesWithState' \subseteq ZeroEdgesWithState \ {a}
  <2>1. ZeroEdgesOf(GraphOf(GraphEdges')) \subseteq ZeroEdgesOf(GraphOf(GraphEdges)) \ {a}
    BY <1>6, <1>7, CutZeroEdges, Zenon
  <2>2. graph = GraphOf(GraphEdges) BY <1>3 DEF RTypeInv
  <2>3. /\ ZeroEdgesWithState = ZeroEdgesOf(graph)
        /\ ZeroEdgesWithState' = ZeroEdgesOf(graph')
    BY <1>1, AnalysisOf
  <2>4. graph' = GraphOf(GraphEdges') BY <1>5
  <2> QED BY <2>1, <2>2, <2>3, <2>4
<1>9. ZeroInv' BY <1>1, <1>3, <1>5, <1>8 DEF ZeroInv
<1> QED BY <1>5, <1>9 DEF RInv

LEMMA NextRInv == ASSUME RInv, [NextResolve]_allvars PROVE RInv'
BY DisassemblingRInv, BetweenRoundsRInv, ResolveJumpRInv, ResolveCallRInv
DEF NextResolve, Resolving, Done

\* Whatever order jumps and calls are resolved in, and however many rounds of Disassemble
\* run on the same graph, RInv holds.
THEOREM ResolveInvariant == SpecResolve => []RInv
<1>1. RInv /\ [NextResolve]_allvars => RInv' BY NextRInv
<1> QED BY <1>1, InitRInv, PTL DEF SpecResolve

-----------------------------------------------------------------------------
(* Within, which counts the steps, and MayRun, which does not.              *)

Onwards(S) == S \cup UNION {NextAddresses(a) : a \in S}

LEMMA WithinIs ==
  ASSUME RTypeInv, NEW S \in SUBSET Address
  PROVE  /\ Within(0, S) = S
         /\ \A n \in Nat : Within(n + 1, S) = Onwards(Within(n, S))
<1> DEFINE Path(n, p) == /\ p \in [0 .. n -> Address] /\ p[0] \in S
                         /\ \A i \in 0 .. (n - 1) : p[i + 1] \in {p[i]} \cup NextAddresses(p[i])
           At(n) == {x \in Address : \E p : Path(n, p) /\ p[n] = x}
           F(g) == [i \in Nat |-> IF i = 0 THEN S
                                  ELSE g[i - 1] \cup UNION {NextAddresses(a) : a \in g[i - 1]}]
           h == [i \in Nat |-> At(i)]
           f == CHOOSE g : g = F(g)
<1>1. \A a : NextAddresses(a) \subseteq Address BY NextAddressesIn
<1>2. At(0) = S
  <2>1. ASSUME NEW x \in S PROVE x \in At(0)
    <3> DEFINE p == [i \in 0 .. 0 |-> x]
    <3>1. Path(0, p) /\ p[0] = x /\ x \in Address OBVIOUS
    <3> HIDE DEF Path, p
    <3> QED BY <3>1
  <2> QED BY <2>1
<1>3. ASSUME NEW n \in Nat PROVE At(n + 1) = At(n) \cup UNION {NextAddresses(a) : a \in At(n)}
  <2>1. ASSUME NEW x \in At(n + 1)
        PROVE  \E y \in At(n) : x = y \/ x \in NextAddresses(y)
    <3>1. PICK p : Path(n + 1, p) /\ p[n + 1] = x OBVIOUS
    <3> DEFINE q == [i \in 0 .. n |-> p[i]]
    <3>2. Path(n, q) BY <3>1
    <3>3. p[n + 1] \in {p[n]} \cup NextAddresses(p[n]) BY <3>1
    <3>4. q[n] = p[n] /\ q[n] \in Address BY <3>2
    <3> HIDE DEF Path, q
    <3>5. q[n] \in At(n) BY <3>2, <3>4
    <3> QED BY <3>1, <3>3, <3>4, <3>5
  <2>2. ASSUME NEW y \in At(n), NEW x \in Address, x = y \/ x \in NextAddresses(y)
        PROVE  x \in At(n + 1)
    <3>1. PICK p : Path(n, p) /\ p[n] = y OBVIOUS
    <3> DEFINE q == [i \in 0 .. (n + 1) |-> IF i = n + 1 THEN x ELSE p[i]]
    <3>2. Path(n + 1, q)
      <4>1. q \in [0 .. (n + 1) -> Address] BY <3>1
      <4>2. q[0] \in S BY <3>1
      <4>3. ASSUME NEW i \in 0 .. ((n + 1) - 1)
            PROVE  q[i + 1] \in {q[i]} \cup NextAddresses(q[i])
        <5>1. CASE i = n BY <2>2, <3>1, <5>1
        <5>2. CASE i # n
          <6>1. i \in 0 .. (n - 1) /\ i + 1 # n + 1 /\ i # n + 1 /\ i + 1 \in 0 .. (n + 1)
            BY <5>2
          <6>2. q[i + 1] = p[i + 1] /\ q[i] = p[i] BY <6>1
          <6> HIDE DEF q
          <6> QED BY <3>1, <6>1, <6>2
        <5> QED BY <5>1, <5>2
      <4> HIDE DEF q
      <4> QED BY <4>1, <4>2, <4>3
    <3>3. q[n + 1] = x OBVIOUS
    <3> HIDE DEF Path, q
    <3> QED BY <3>2, <3>3
  <2> HIDE DEF At
  <2>3. At(n) \subseteq Address /\ At(n + 1) \subseteq Address BY DEF At
  <2> QED BY <1>1, <2>1, <2>2, <2>3
<1> HIDE DEF At
<1>4. h = F(h)
  <2>1. ASSUME NEW i \in Nat, i # 0
        PROVE  h[i] = h[i - 1] \cup UNION {NextAddresses(a) : a \in h[i - 1]}
    <3>1. i - 1 \in Nat /\ (i - 1) + 1 = i BY <2>1
    <3>2. At((i - 1) + 1) = At(i - 1) \cup UNION {NextAddresses(a) : a \in At(i - 1)}
      BY <1>3, <3>1
    <3> QED BY <3>1, <3>2
  <2>2. h[0] = S BY <1>2
  <2>3. h = [i \in Nat |-> h[i]] OBVIOUS
  <2> HIDE DEF h
  <2> QED BY <2>1, <2>2, <2>3
<1>5. \A n : Within(n, S) = f[n] BY Zenon DEF Within
<1> HIDE DEF F, h
<1>6. f = F(f) BY <1>4, Zenon
<1> HIDE DEF f
<1>7. f = [i \in Nat |-> IF i = 0 THEN S
                         ELSE f[i - 1] \cup UNION {NextAddresses(a) : a \in f[i - 1]}]
  BY <1>6 DEF F
<1>8. f[0] = S BY <1>7
<1>9. ASSUME NEW n \in Nat PROVE f[n + 1] = Onwards(f[n])
  <2>1. n + 1 # 0 /\ (n + 1) - 1 = n /\ n + 1 \in Nat OBVIOUS
  <2>2. f[n + 1] = f[(n + 1) - 1] \cup UNION {NextAddresses(a) : a \in f[(n + 1) - 1]}
    BY <1>7, <2>1
  <2> QED BY <2>1, <2>2 DEF Onwards
<1> QED BY <1>5, <1>8, <1>9

\* Every step reaches something new or nothing new is left, and there are no more than
\* Size + 1 addresses.
LEMMA MayRunWithin == ASSUME RTypeInv PROVE MayRun \subseteq Within(Size + 1, {entry})
<1> DEFINE W(n) == Within(n, {entry})
           Closed(n) == \A a \in W(n) : NextAddresses(a) \subseteq W(n)
           Fine(n) == /\ W(n) \subseteq Address \ {0} /\ entry \in W(n)
                      /\ Closed(n) \/ Cardinality(W(n)) > n
           Bad == {n \in Nat : ~Fine(n)}
<1>1. /\ entry \in Address \ {0} /\ Size \in Nat /\ Address \ {0} = 1 .. Size + 1
  BY Addresses DEF RTypeInv
<1>2. IsFiniteSet(Address \ {0}) /\ Cardinality(Address \ {0}) = Size + 1
  <2>1. /\ IsFiniteSet(1 .. Size + 1)
        /\ Cardinality(1 .. Size + 1) = IF 1 > Size + 1 THEN 0 ELSE (Size + 1) - 1 + 1
    BY <1>1, FS_Interval
  <2>2. ~(1 > Size + 1) /\ (Size + 1) - 1 + 1 = Size + 1 BY <1>1
  <2> QED BY <1>1, <2>1, <2>2
<1>3. W(0) = {entry} /\ \A n \in Nat : W(n + 1) = Onwards(W(n))
  BY <1>1, WithinIs
<1> HIDE DEF W
<1>4. Fine(0)
  <2>1. Cardinality({entry}) = 1 BY FS_Singleton
  <2> QED BY <1>1, <1>3, <2>1
<1>5. ASSUME NEW n \in Nat, Fine(n) PROVE Fine(n + 1)
  <2>1. W(n) \subseteq W(n + 1) /\ \A a \in W(n) : NextAddresses(a) \subseteq W(n + 1)
    BY <1>3 DEF Onwards
  <2>2. W(n + 1) \subseteq Address \ {0}
    <3>1. \A a : NextAddresses(a) \subseteq Address \ {0} BY NextAddressesIn
    <3> QED BY <1>3, <1>5, <3>1 DEF Onwards
  <2>3. CASE Closed(n)
    <3>1. W(n + 1) = W(n)
      <4>1. W(n + 1) = Onwards(W(n)) BY <1>3
      <4>2. Onwards(W(n)) \subseteq W(n) BY <2>3 DEF Onwards
      <4> QED BY <2>1, <4>1, <4>2
    <3> QED BY <1>5, <2>3, <3>1
  <2>4. CASE ~Closed(n)
    <3>1. IsFiniteSet(W(n)) /\ IsFiniteSet(W(n + 1))
      BY <1>2, <1>5, <2>2, FS_Subset
    <3>2. W(n + 1) # W(n) BY <2>1, <2>4
    <3>3. /\ Cardinality(W(n)) <= Cardinality(W(n + 1))
          /\ Cardinality(W(n + 1)) # Cardinality(W(n))
      BY <2>1, <3>1, <3>2, FS_Subset
    <3>4. Cardinality(W(n)) \in Nat /\ Cardinality(W(n + 1)) \in Nat
      BY <3>1, FS_CardinalityType
    <3>5. Cardinality(W(n)) > n BY <1>5, <2>4
    <3>6. Cardinality(W(n + 1)) > n + 1 BY <3>3, <3>4, <3>5
    <3> QED BY <1>5, <2>1, <2>2, <3>6
  <2> QED BY <2>3, <2>4
<1> HIDE DEF Fine
<1>6. \A n \in Nat : Fine(n)
  <2> SUFFICES ASSUME Bad # {} PROVE FALSE OBVIOUS
  <2>1. PICK n \in Bad : \A m \in Bad : n <= m
    <3>1. Bad \in SUBSET Nat OBVIOUS
    <3> HIDE DEF Bad
    <3> QED BY <3>1, Least
  <2>2. n \in Nat /\ ~Fine(n) /\ n # 0 BY <1>4, <2>1
  <2>3. n - 1 \in Nat /\ (n - 1) + 1 = n /\ ~(n <= n - 1) BY <2>2
  <2>4. Fine(n - 1) BY <2>1, <2>3
  <2>5. Fine((n - 1) + 1) BY <1>5, <2>3, <2>4
  <2> QED BY <2>2, <2>3, <2>5
<1>7. Fine(Size + 1) BY <1>1, <1>6
<1>8. W(Size + 1) \subseteq Address \ {0} /\ entry \in W(Size + 1) BY <1>7 DEF Fine
<1>9. Closed(Size + 1)
  <2>1. IsFiniteSet(W(Size + 1)) /\ Cardinality(W(Size + 1)) <= Size + 1
    BY <1>2, <1>8, FS_Subset
  <2>2. Cardinality(W(Size + 1)) \in Nat BY <2>1, FS_CardinalityType
  <2>3. ~(Cardinality(W(Size + 1)) > Size + 1) BY <1>1, <2>1, <2>2
  <2> QED BY <1>7, <2>3 DEF Fine
<1>10. MayRun \subseteq W(Size + 1) BY <1>8, <1>9, MayRunIsLeast
<1> QED BY <1>10 DEF W

-----------------------------------------------------------------------------
(* What ResolveBranches promises.                                          *)

\* No order of resolving and disassembling again, on blocks that a call or a jump has cut
\* before, adds an edge that the code cannot take.
THEOREM EdgesAreRealAlways == SpecResolve => []EdgesAreReal
<1>1. ASSUME RInv, NEW e \in GraphEdges, e.target # 0
      PROVE  \/ e.source = 0 /\ e.target = entry
             \/ e.kind = "kCall" /\ DecodeInstruction(e.source).class = "call"
                /\ e.target \in {DecodeInstruction(e.source).target, constant[e.source]}
             \/ e.kind \in {"kJump", "kFlow"} /\ e.target \in NextAddresses(e.source)
                /\ e.source \in Within(Size + 1, {entry})
  <2>1. RTypeInv /\ Real(e) BY <1>1 DEF RInv, RealInv
  <2>2. PICK H : History(H) BY <1>1 DEF RInv, HistoryInv
  <2>3. CASE e.kind \in {"kJump", "kFlow"} /\ e.target \in NextAddresses(e.source)
    <3>1. e.source \in Code /\ e.source # 0 BY <2>1, <2>3, NextAddressesIn, Addresses
    <3>2. e.source \in H BY <2>2, <3>1 DEF History, Sources
    <3>3. e.source \in MayRun BY <2>2, <3>2 DEF History
    <3> QED BY <2>1, <2>3, <3>3, MayRunWithin
  <2> QED BY <1>1, <2>1, <2>3 DEF Real, Class, Target
<1>2. RInv => EdgesAreReal BY <1>1 DEF EdgesAreReal
<1> QED BY <1>2, ResolveInvariant, PTL

\* When ResolveBranches returns, the code that edges lead to has been disassembled up to
\* an instruction with an edge of its own, whatever round it was in.
THEOREM AllTargetsDisassembled == SpecResolve => []TargetsDisassembled
<1>1. ASSUME RInv, pc = "done", NEW e \in GraphEdges, e.kind \in {"kJump", "kFlow"},
             e.target # 0
      PROVE  FirstTransfer(e.target) \in DOMAIN graph.outgoing
  <2> DEFINE b == e.target
             S == {x \in b .. Size + 1 : Class(x) # "other"}
             m == FirstTransfer(b)
  <2>1. RTypeInv /\ queue = {} /\ Size \in Nat
    BY <1>1, Addresses DEF RInv, RTypeInv
  <2>2. PICK H : History(H) BY <1>1 DEF RInv, HistoryInv
  <2>3. b \in H BY <1>1, <2>1, <2>2 DEF History, Leads
  <2>4. H \subseteq 1 .. Size + 1
    BY <2>1, <2>2, MayRunIsLeast, Addresses DEF History
  <2>5. b \in Nat /\ b <= Size + 1
    <3> HIDE DEF b
    <3>1. b \in 1 .. Size + 1 BY <2>3, <2>4
    <3> QED BY <2>1, <3>1
  <2>6. m \in S /\ \A k \in S : m <= k
    <3>1. Class(Size + 1) # "other"
      <4>1. Size + 1 \notin Code BY Addresses
      <4>2. Class(Size + 1) = "unallocated" BY <2>1, <4>1, Decoded DEF RTypeInv
      <4> QED BY <4>2
    <3>2. S \in SUBSET Nat /\ S # {} BY <2>1, <2>5, <3>1
    <3>3. m = Min(S) BY DEF FirstTransfer, Class
    <3> HIDE DEF S, m
    <3> QED BY <3>2, <3>3, MinIs
  <2>7. m \in H
    <3> DEFINE D == {x \in b .. m : x \notin H}
    <3> HIDE DEF m
    <3> SUFFICES ASSUME D # {} PROVE FALSE BY <2>1, <2>5, <2>6
    <3>1. m \in Nat /\ b <= m /\ m <= Size + 1 BY <2>1, <2>5, <2>6
    <3>2. PICK d \in D : \A x \in D : d <= x
      <4>1. D \in SUBSET Nat BY <2>5, <3>1
      <4> HIDE DEF D
      <4> QED BY <4>1, Least
    <3>3. d \in Nat /\ b < d /\ d <= m /\ d \notin H
      <4>1. d # b BY <2>3, <3>2
      <4> QED BY <2>5, <3>1, <3>2, <4>1
    <3>4. d - 1 \in H BY <2>5, <3>1, <3>2, <3>3
    <3>5. Class(d - 1) = "other" BY <2>1, <2>5, <2>6, <3>1, <3>3
    <3>6. (d - 1) + 1 \in H BY <2>1, <2>2, <3>4, <3>5 DEF History, RunningOn
    <3> QED BY <3>3, <3>6
  <2>8. m \notin RunningOn(H)
    <3> HIDE DEF m
    <3> QED BY <2>6 DEF RunningOn
  <2>9. m \in Sources(GraphEdges) BY <2>2, <2>7, <2>8 DEF History
  <2>10. DOMAIN graph.outgoing = Sources(GraphEdges)
    BY <2>1, GraphOfMaps DEF RTypeInv
  <2> QED BY <2>9, <2>10
<1>2. RInv => TargetsDisassembled BY <1>1 DEF TargetsDisassembled
<1> QED BY <1>2, ResolveInvariant, PTL

\* When ResolveBranches returns it leaves no edge to 0 that it could resolve, although
\* every round adds such edges again and works on the states from before its changes.
THEOREM NothingLeftToResolve == SpecResolve => []ResolvedForGood
<1>1. RInv => ResolvedForGood BY DEF RInv, ZeroInv, ResolvedForGood
<1> QED BY <1>1, ResolveInvariant, PTL
=============================================================================
