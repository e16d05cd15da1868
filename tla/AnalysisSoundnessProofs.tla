----------------------- MODULE AnalysisSoundnessProofs -----------------------
(***************************************************************************)
(* Theorems about ConstantsAnalysis and AnalysisSoundness, for code of any *)
(* size made of any native instructions that the translator could emit     *)
(* (NativesAssumption), any memory image and any initial values.           *)
(***************************************************************************)
EXTENDS AnalysisSoundness, NativeFlowGraphProofs

-----------------------------------------------------------------------------
(* The native graph.                                                       *)

Class(a) == IF a \in Code THEN code[a].class ELSE "unallocated"
Target(a) == IF a \in Code THEN code[a].target ELSE 0
Reached == Disassembled!Reached
Ends == {"return", "brk", "unallocated"}

LEMMA Numbers ==
  /\ Size \in Nat /\ Size # 0 /\ Code = 1 .. Size /\ Address = 0 .. Size + 1
  /\ Address \subseteq Nat /\ Code \subseteq Address \ {0} /\ Address \subseteq Values
  /\ Width \in Nat /\ Width # 0 /\ Modulus \in Nat /\ Modulus > 1
  /\ Values = 0 .. Modulus - 1 /\ 0 \in Values
BY SizeAssumption, WidthAssumption, ModulusAssumption DEF Code, Address, Values

LEMMA Decoded ==
  ASSUME code \in [Code -> Natives]
  PROVE  \A a : /\ Disassembled!DecodeInstruction(a).class = Class(a)
                /\ Disassembled!DecodeInstruction(a).target = Target(a)
                /\ Class(a) \in Disassembled!Classes /\ Target(a) \in Address
                /\ a \notin Code => Class(a) = "unallocated"
<1> SUFFICES ASSUME NEW a
    PROVE  /\ Disassembled!DecodeInstruction(a).class = Class(a)
           /\ Disassembled!DecodeInstruction(a).target = Target(a)
           /\ Class(a) \in Disassembled!Classes /\ Target(a) \in Address
           /\ a \notin Code => Class(a) = "unallocated"
  OBVIOUS
<1>1. CASE a \in Code
  <2>1. code[a] \in Natives BY <1>1
  <2>2. Disassembled!DecodeInstruction(a) = [class |-> code[a].class, target |-> code[a].target]
    BY <1>1 DEF Disassembled!DecodeInstruction, Disassembled!Code, Code
  <2> QED BY <1>1, <2>1, <2>2, NativesAssumption DEF Class, Target
<1>2. CASE a \notin Code
  <2>1. Disassembled!DecodeInstruction(a) = [class |-> "unallocated", target |-> 0]
    BY <1>2 DEF Disassembled!DecodeInstruction, Disassembled!Code, Code
  <2> QED BY <1>2, <2>1, Numbers DEF Class, Target, Disassembled!Classes
<1> QED BY <1>1, <1>2

\* What follows an instruction.
Follow(a) == CASE Class(a) = "maybe_branch"      -> {a + 1, Target(a)} \ {0}
               [] Class(a) = "branch"            -> {Target(a)} \ {0}
               [] Class(a) \in {"call", "other"} -> {a + 1}
               [] OTHER                          -> {}

LEMMA ReachedIs ==
  ASSUME code \in [Code -> Natives]
  PROVE  /\ Reached \subseteq Address \ {0} /\ 1 \in Reached
         /\ \A a \in Reached : Follow(a) \subseteq Reached
         /\ \A a \in Reached \ {1} : \E b \in Reached : a \in Follow(b)
<1> DEFINE All == Address \ {0}
           Closed(V) == 1 \in V /\ \A a \in V : Follow(a) \subseteq V
<1>1. \A a : Disassembled!Successors(a) = Follow(a)
  BY Decoded, Zenon DEF Disassembled!Successors, Follow
<1>2. \A a : a \in Reached <=> a \in Address /\ \A V \in SUBSET All : Closed(V) => a \in V
  BY <1>1 DEF Reached, Disassembled!Reached, Disassembled!Address, Address
<1>3. Closed(All)
  <2>1. 1 \in All BY Numbers
  <2>2. ASSUME NEW a \in All PROVE Follow(a) \subseteq All
    <3>1. Target(a) \in Address /\ (Class(a) # "unallocated" => a \in Code) BY Decoded
    <3>2. a \in Code => a + 1 \in All BY Numbers
    <3> QED BY <3>1, <3>2 DEF Follow
  <2> QED BY <2>1, <2>2
<1> HIDE DEF Closed
<1>4. Reached \subseteq All BY <1>2, <1>3
<1>5. Closed(Reached)
  <2>1. 1 \in Reached BY <1>2, Numbers DEF Closed
  <2>2. ASSUME NEW a \in Reached, NEW b \in Follow(a) PROVE b \in Reached
    <3>1. b \in Address BY <1>2, <1>3 DEF Closed
    <3>2. ASSUME NEW V \in SUBSET All, Closed(V) PROVE b \in V
      BY <1>2, <3>2 DEF Closed
    <3> QED BY <1>2, <3>1, <3>2
  <2> QED BY <2>1, <2>2 DEF Closed
<1>6. ASSUME NEW a \in Reached \ {1}, \A b \in Reached : a \notin Follow(b)
      PROVE  FALSE
  <2>1. Closed(Reached \ {a}) BY <1>5, <1>6 DEF Closed
  <2>2. Reached \ {a} \in SUBSET All BY <1>4
  <2> QED BY <1>2, <1>6, <2>1, <2>2
<1> QED BY <1>4, <1>5, <1>6 DEF Closed

Transfers ==
  {Edge(0, 1, "kCall")}
  \cup {Edge(a, a + 1, "kFlow") : a \in {b \in Reached : Class(b) \in {"maybe_branch", "call"}}}
  \cup {Edge(a, Target(a), "kJump") :
          a \in {b \in Reached : Class(b) \in {"maybe_branch", "branch"}}}
  \cup {Edge(a, Target(a), "kCall") : a \in {b \in Reached : Class(b) = "call"}}
  \cup {Edge(a, 0, Disassembled!EndKind[Class(a)]) : a \in {b \in Reached : Class(b) \in Ends}}

\* The instructions that run on.
Straight == {a \in Reached : Class(a) = "other"}
RunsOn == {Edge(a, a + 1, "kFlow") : a \in {b \in Straight : b + 1 \in Targets(Transfers)}}
LoopsBack(t) ==
  \E b \in Reached : Class(b) = "branch" /\ Target(b) \in t .. b
                      /\ (t - 1) .. (b - 1) \subseteq Straight

LEMMA NativeEdgesAre ==
  ASSUME code \in [Code -> Natives]
  PROVE  NativeEdges = Transfers \cup {e \in RunsOn : ~LoopsBack(e.target)}
<1>1. Disassembled!TransferEdges = Transfers
  <2>1. \A a : /\ Disassembled!DecodeInstruction(a).class = Class(a)
               /\ Disassembled!DecodeInstruction(a).target = Target(a)
    BY Decoded
  <2>2. DOMAIN Disassembled!EndKind = Ends BY DEF Disassembled!EndKind, Ends
  <2>3. \A a, b, k : Disassembled!Edge(a, b, k) = Edge(a, b, k)
    BY DEF Disassembled!Edge, Edge
  <2> QED BY <2>1, <2>2, <2>3 DEF Disassembled!TransferEdges, Disassembled!Among, Transfers, Reached
<1>2. Disassembled!RunOnEdges = RunsOn
  <2>1. \A a : Disassembled!DecodeInstruction(a).class = Class(a) BY Decoded
  <2>2. Disassembled!OfClass({"other"}) = Straight
    BY <2>1 DEF Disassembled!OfClass, Disassembled!Among, Straight, Reached
  <2>3. \A a, b, k : Disassembled!Edge(a, b, k) = Edge(a, b, k)
    BY DEF Disassembled!Edge, Edge
  <2> QED BY <1>1, <2>2, <2>3 DEF Disassembled!RunOnEdges, RunsOn, Targets
<1>3. \A t : Disassembled!LoopsBackTo(t) <=> LoopsBack(t)
  <2>1. \A a : /\ Disassembled!DecodeInstruction(a).class = Class(a)
               /\ Disassembled!DecodeInstruction(a).target = Target(a)
    BY Decoded
  <2>2. Disassembled!OfClass({"other"}) = Straight
    BY <2>1 DEF Disassembled!OfClass, Disassembled!Among, Straight, Reached
  <2>3. Disassembled!OfClass({"branch"}) = {b \in Reached : Class(b) = "branch"}
    BY <2>1 DEF Disassembled!OfClass, Disassembled!Among, Reached
  <2> QED BY <2>1, <2>2, <2>3 DEF Disassembled!LoopsBackTo, LoopsBack
<1>4. Disassembled!Unsplit = {e \in RunsOn : LoopsBack(e.target)}
  BY <1>2, <1>3 DEF Disassembled!Unsplit
<1> QED BY <1>1, <1>2, <1>4 DEF NativeEdges

LEMMA Fields ==
  \A s, t, k : /\ Edge(s, t, k).source = s /\ Edge(s, t, k).target = t
               /\ Edge(s, t, k).kind = k
BY DEF Edge

\* The edges out of an instruction, and where every edge comes from.
LEMMA NativeEdgesFrom ==
  ASSUME code \in [Code -> Natives]
  PROVE  /\ Edge(0, 1, "kCall") \in NativeEdges
         /\ \A e \in NativeEdges :
              /\ e.source \in Address /\ e.target \in Address /\ e.kind \in Kinds
              /\ e = Edge(e.source, e.target, e.kind)
              /\ e.source = 0 => e = Edge(0, 1, "kCall")
              /\ e.source # 0 =>
                   /\ e.source \in Reached
                   /\ e.kind = "kFlow" =>
                        /\ e.target = e.source + 1
                        /\ Class(e.source) \in {"maybe_branch", "call", "other"}
                   /\ e.kind = "kJump" =>
                        /\ e.target = Target(e.source)
                        /\ Class(e.source) \in {"maybe_branch", "branch"}
                   /\ e.kind = "kCall" =>
                        e.target = Target(e.source) /\ Class(e.source) = "call"
                   /\ e.kind \notin {"kFlow", "kJump", "kCall"} =>
                        e.target = 0 /\ Class(e.source) \in Ends
         /\ \A a \in Reached :
              /\ Class(a) \in {"maybe_branch", "branch"} =>
                   Edge(a, Target(a), "kJump") \in NativeEdges
              /\ Class(a) \in {"maybe_branch", "call"} =>
                   Edge(a, a + 1, "kFlow") \in NativeEdges
              /\ Class(a) = "call" => Edge(a, Target(a), "kCall") \in NativeEdges
              /\ Class(a) = "return" => Edge(a, 0, "kReturn") \in NativeEdges
              /\ Class(a) # "other" => a \in Sources(NativeEdges)
<1>1. NativeEdges = Transfers \cup {e \in RunsOn : ~LoopsBack(e.target)} BY NativeEdgesAre
<1>2. \A a \in Reached : /\ a \in Address /\ a # 0 /\ Class(a) \in Disassembled!Classes
                         /\ Target(a) \in Address
                         /\ Class(a) # "unallocated" => a \in Code /\ a + 1 \in Address
  BY ReachedIs, Decoded, Numbers
<1>3. ASSUME NEW e \in NativeEdges
      PROVE  /\ e.source \in Address /\ e.target \in Address /\ e.kind \in Kinds
             /\ e = Edge(e.source, e.target, e.kind)
             /\ e.source = 0 => e = Edge(0, 1, "kCall")
             /\ e.source # 0 =>
                   /\ e.source \in Reached
                   /\ e.kind = "kFlow" =>
                        /\ e.target = e.source + 1
                        /\ Class(e.source) \in {"maybe_branch", "call", "other"}
                   /\ e.kind = "kJump" =>
                        /\ e.target = Target(e.source)
                        /\ Class(e.source) \in {"maybe_branch", "branch"}
                   /\ e.kind = "kCall" =>
                        e.target = Target(e.source) /\ Class(e.source) = "call"
                   /\ e.kind \notin {"kFlow", "kJump", "kCall"} =>
                        e.target = 0 /\ Class(e.source) \in Ends
  <2>1. CASE e = Edge(0, 1, "kCall") BY <2>1, Fields, Numbers DEF Kinds
  <2>2. CASE \E a \in Reached : Class(a) \in {"maybe_branch", "call", "other"}
                                /\ e = Edge(a, a + 1, "kFlow")
    BY <2>2, <1>2, Fields DEF Kinds
  <2>3. CASE \E a \in Reached : Class(a) \in {"maybe_branch", "branch"}
                                /\ e = Edge(a, Target(a), "kJump")
    BY <2>3, <1>2, Fields DEF Kinds
  <2>4. CASE \E a \in Reached : Class(a) = "call" /\ e = Edge(a, Target(a), "kCall")
    BY <2>4, <1>2, Fields DEF Kinds
  <2>5. CASE \E a \in Reached :
               Class(a) \in Ends /\ e = Edge(a, 0, Disassembled!EndKind[Class(a)])
    BY <2>5, <1>2, Fields, Numbers DEF Kinds, Ends, Disassembled!EndKind
  <2> QED BY <1>1, <2>1, <2>2, <2>3, <2>4, <2>5 DEF Transfers, RunsOn, Straight
<1>4. ASSUME NEW a \in Reached
      PROVE  /\ Class(a) \in {"maybe_branch", "branch"} =>
                   Edge(a, Target(a), "kJump") \in NativeEdges
             /\ Class(a) \in {"maybe_branch", "call"} =>
                   Edge(a, a + 1, "kFlow") \in NativeEdges
             /\ Class(a) = "call" => Edge(a, Target(a), "kCall") \in NativeEdges
             /\ Class(a) \in Ends =>
                   Edge(a, 0, Disassembled!EndKind[Class(a)]) \in NativeEdges
  BY <1>1 DEF Transfers
<1>5. ASSUME NEW a \in Reached
      PROVE  /\ Class(a) = "return" => Edge(a, 0, "kReturn") \in NativeEdges
             /\ Class(a) # "other" => a \in Sources(NativeEdges)
  <2>1. Class(a) = "return" => Edge(a, 0, "kReturn") \in NativeEdges
    BY <1>4 DEF Ends, Disassembled!EndKind
  <2>2. Class(a) # "other" => \E t, k : Edge(a, t, k) \in NativeEdges
    BY <1>2, <1>4 DEF Ends, Disassembled!Classes
  <2>3. \A t, k : Edge(a, t, k) \in NativeEdges => a \in Sources(NativeEdges)
    BY Fields DEF Sources
  <2> QED BY <2>1, <2>2, <2>3
<1>6. Edge(0, 1, "kCall") \in NativeEdges BY <1>1 DEF Transfers
<1> QED BY <1>3, <1>4, <1>5, <1>6

-----------------------------------------------------------------------------
(* Nodes.                                                                  *)

LEMMA Multiples ==
  ASSUME NEW a \in Nat, NEW b \in Nat, a < b
  PROVE  a * Width \in Nat /\ b * Width \in Nat /\ a * Width + Width <= b * Width
<1>1. PICK d \in Nat : b = a + 1 + d
  <2>1. b - a - 1 \in Nat /\ b = a + 1 + (b - a - 1) OBVIOUS
  <2> QED BY <2>1
<1>2. Width \in Nat BY Numbers
<1>3. b * Width = a * Width + Width + d * Width BY <1>1, <1>2
<1>4. d * Width \in Nat /\ a * Width \in Nat BY <1>2
<1> QED BY <1>2, <1>3, <1>4

LEMMA NodeOrder ==
  ASSUME NEW a \in Nat, NEW b \in Nat, NEW o \in 0 .. Width - 1, NEW q \in 0 .. Width - 1
  PROVE  /\ Node(a, o) \in Nat
         /\ Node(a, o) <= Node(b, q) <=> a < b \/ (a = b /\ o <= q)
         /\ Node(a, o) = Node(b, q) <=> a = b /\ o = q
         /\ Node(a, o) = 0 <=> a = 0 /\ o = 0
         /\ o + 1 < Width => Node(a, o) + 1 = Node(a, o + 1)
<1> USE DEF Node
<1>1. Width \in Nat \ {0} BY Numbers
<1>2. a * Width \in Nat /\ b * Width \in Nat BY <1>1
<1>3. a < b => a * Width + Width <= b * Width BY Multiples
<1>4. b < a => b * Width + Width <= a * Width BY Multiples
<1>5. a # 0 => a * Width >= Width
  <2>1. a # 0 => 0 * Width + Width <= a * Width BY Multiples
  <2> QED BY <1>1, <2>1
<1>6. a = b => a * Width = b * Width OBVIOUS
<1>7. a = 0 => a * Width = 0 BY <1>1
<1> DEFINE A == a * Width
           B == b * Width
<1>8. A \in Nat /\ B \in Nat /\ (a < b => A + Width <= B) /\ (b < a => B + Width <= A)
      /\ (a = b => A = B) /\ (a # 0 => A >= Width) /\ (a = 0 => A = 0)
  BY <1>2, <1>3, <1>4, <1>5, <1>6, <1>7
<1> SUFFICES /\ A + o \in Nat
             /\ A + o <= B + q <=> a < b \/ (a = b /\ o <= q)
             /\ A + o = B + q <=> a = b /\ o = q
             /\ A + o = 0 <=> a = 0 /\ o = 0
             /\ o + 1 < Width => A + o + 1 = A + (o + 1)
  BY DEF A, B
<1> HIDE DEF A, B
<1> QED BY <1>1, <1>8

LEMMA NodeParts ==
  ASSUME NEW a \in Nat, NEW o \in 0 .. Width - 1
  PROVE  AddressOf(Node(a, o)) = a /\ OffsetOf(Node(a, o)) = o
<1> DEFINE n == Node(a, o)
           q == n \div Width
           r == n % Width
<1>1. Width \in Nat \ {0} /\ n \in Nat BY Numbers, NodeOrder
<1>2. q \in Nat /\ r \in 0 .. Width - 1 /\ n = Width * q + r
  <2> HIDE DEF n
  <2>1. q \in Int /\ r \in 0 .. Width - 1 BY <1>1
  <2> QED BY <1>1
<1>3. Node(q, r) = n
  <2> HIDE DEF q, r, n
  <2> QED BY <1>1, <1>2 DEF Node
<1>4. q = a /\ r = o
  <2> HIDE DEF q, r
  <2> QED BY <1>2, <1>3, NodeOrder
<1> QED BY <1>4 DEF AddressOf, OffsetOf

-----------------------------------------------------------------------------
(* The native blocks whose REIL code the flow graph has.                   *)

Coded == code \in [Code -> Natives]
InFunction(b) == b # 0 /\ \E e \in NativeEdges : e.target = b /\ (e.kind # "kCall" \/ e.source = 0)
NativeBlock(s, t) == Block(NativeEdges, s, t) /\ InFunction(s) /\ t \in Code
Created == {a \in Code : \E s, t : NativeBlock(s, t) /\ a \in s .. t}

LEMMA NativeNumbered ==
  ASSUME Coded
  PROVE  /\ Numbered(NativeEdges) /\ Sources(NativeEdges) \subseteq Address
         /\ Targets(NativeEdges) \subseteq Address
<1>1. \A e \in NativeEdges : e.source \in Address /\ e.target \in Address
  BY NativeEdgesFrom DEF Coded
<1> QED BY <1>1, Numbers DEF Numbered, Sources, Targets

LEMMA InFunctionReached ==
  ASSUME Coded, NEW b, InFunction(b)
  PROVE  b \in Reached /\ b \in Targets(NativeEdges)
<1>1. PICK e \in NativeEdges : e.target = b /\ (e.kind # "kCall" \/ e.source = 0) BY DEF InFunction
<1>2. b # 0 BY DEF InFunction
<1>3. b \in Targets(NativeEdges) BY <1>1 DEF Targets
<1>4. CASE e.source = 0
  <2>1. e = Edge(0, 1, "kCall") BY <1>1, <1>4, NativeEdgesFrom DEF Coded
  <2>2. b = 1 BY <1>1, <2>1, Fields
  <2> QED BY <1>3, <2>2, ReachedIs DEF Coded
<1>5. CASE e.source # 0
  <2>1. e.source \in Reached /\ e.kind \in {"kFlow", "kJump"}
    BY <1>1, <1>2, <1>5, NativeEdgesFrom DEF Coded
  <2>2. b \in Follow(e.source)
    BY <1>1, <1>2, <1>5, <2>1, NativeEdgesFrom DEF Coded, Follow
  <2> QED BY <1>3, <2>1, <2>2, ReachedIs DEF Coded
<1> QED BY <1>3, <1>4, <1>5

LEMMA NativeBlockRuns ==
  ASSUME Coded, NEW s, NEW t, Block(NativeEdges, s, t), InFunction(s)
  PROVE  /\ s \in Nat /\ t \in Nat /\ s # 0
         /\ \A a \in s .. t : a \in Reached
         /\ \A a \in s .. t - 1 : a \in Straight
<1>1. s \in Nat /\ t \in Nat /\ s <= t /\ t \in Sources(NativeEdges)
  BY NativeNumbered DEF Block, Numbered
<1>2. \A a \in s .. t - 1 : a \notin Sources(NativeEdges) BY <1>1 DEF Block
<1>3. s # 0 BY DEF InFunction
<1>4. \A a \in s .. t - 1 : a \in Reached => a \in Straight /\ a + 1 \in Reached
  <2> TAKE a \in s .. t - 1
  <2> HAVE a \in Reached
  <2>1. Class(a) = "other" BY <1>2, NativeEdgesFrom DEF Coded
  <2>2. a + 1 \in Follow(a) BY <2>1 DEF Follow
  <2> QED BY <2>1, <2>2, ReachedIs DEF Coded, Straight
<1>5. \A a \in s .. t : a \in Reached
  <2> DEFINE B == {a \in s .. t : a \notin Reached}
  <2> SUFFICES ASSUME B # {} PROVE FALSE OBVIOUS
  <2>1. PICK m \in B : \A k \in B : m <= k
    <3>1. B \in SUBSET Nat BY <1>1
    <3> QED BY <3>1, Least
  <2>2. m # s BY InFunctionReached
  <2>3. m - 1 \in s .. t - 1 /\ m - 1 \notin B BY <1>1, <2>1, <2>2
  <2>4. m - 1 \in Reached BY <1>1, <2>3
  <2>5. (m - 1) + 1 \in Reached BY <1>4, <2>3, <2>4
  <2>6. (m - 1) + 1 = m BY <1>1
  <2> QED BY <2>5, <2>6
<1>6. \A a \in s .. t - 1 : a \in s .. t BY <1>1
<1> QED BY <1>1, <1>3, <1>4, <1>5, <1>6

LEMMA CreatedReached ==
  ASSUME Coded, NEW a \in Created
  PROVE  a \in Reached /\ a \in Code /\ a \in Nat /\ a # 0
BY NativeBlockRuns, Numbers DEF Created, NativeBlock

\* Every edge out of straight-line code goes to the next instruction, and not to
\* where a loop comes back.
LEMMA StraightEdges ==
  ASSUME Coded, NEW a \in Straight, a \in Sources(NativeEdges)
  PROVE  a + 1 \in Targets(NativeEdges) /\ ~LoopsBack(a + 1)
<1>1. PICK e \in NativeEdges : e.source = a BY DEF Sources
<1>2. a # 0 /\ Class(a) = "other" BY ReachedIs DEF Straight, Coded
<1>3. e \notin Transfers
  BY <1>1, <1>2, Fields DEF Transfers, Ends
<1>4. e \in RunsOn /\ ~LoopsBack(e.target) BY <1>3, NativeEdgesAre DEF Coded
<1>5. e.target = a + 1 BY <1>1, <1>4, Fields DEF RunsOn
<1> QED BY <1>4, <1>5 DEF Targets

\* What runs on from anything but straight-line code is known to be a target.
LEMMA Followed ==
  ASSUME Coded, NEW a \in Reached, ~InFunction(a)
  PROVE  a - 1 \in Straight /\ (a - 1) + 1 = a
<1>1. a # 1 /\ a # 0
  <2>1. a # 0 BY ReachedIs DEF Coded
  <2>2. InFunction(1) BY NativeEdgesFrom, Fields DEF Coded, InFunction
  <2> QED BY <2>1, <2>2
<1>2. PICK b \in Reached : a \in Follow(b) BY <1>1, ReachedIs DEF Coded
<1>3. b \in Nat BY ReachedIs, Numbers DEF Coded
<1>4. \A k : Edge(b, a, k) \in NativeEdges => k = "kCall"
  BY <1>1, Fields DEF InFunction
<1>5. Class(b) = "other" /\ a = b + 1
  <2>1. Class(b) # "branch" /\ (Class(b) = "maybe_branch" => a # Target(b))
    <3>1. Class(b) \in {"maybe_branch", "branch"} => Edge(b, Target(b), "kJump") \in NativeEdges
      BY NativeEdgesFrom DEF Coded
    <3> QED BY <1>2, <1>4, <3>1 DEF Follow
  <2>2. Class(b) \in {"maybe_branch", "call"} => Edge(b, b + 1, "kFlow") \in NativeEdges
    BY NativeEdgesFrom DEF Coded
  <2> QED BY <1>2, <1>4, <2>1, <2>2 DEF Follow
<1> QED BY <1>2, <1>3, <1>5 DEF Straight

LEMMA SourcesCreated ==
  ASSUME Coded, NEW s \in Sources(NativeEdges), s # 0, s \in Code
  PROVE  s \in Created
<1> DEFINE D == {l \in 1 .. s : /\ l .. s \subseteq Reached /\ l .. s - 1 \subseteq Straight
                                /\ \A x \in l .. s - 1 : x \notin Sources(NativeEdges)
                                /\ \A x \in l + 1 .. s : x \notin Targets(NativeEdges)}
<1>1. s \in Reached /\ s \in Nat BY NativeEdgesFrom, Numbers DEF Coded, Sources
<1>2. s \in D BY <1>1
<1>3. PICK m \in D : \A k \in D : m <= k
  <2>1. D \in SUBSET Nat BY <1>1
  <2> QED BY <1>2, <2>1, Least
<1>4. m \in Nat /\ m # 0 /\ m <= s /\ m \in Reached BY <1>1, <1>3
<1>5. m \in Targets(NativeEdges)
  <2> SUFFICES ASSUME m \notin Targets(NativeEdges) PROVE FALSE OBVIOUS
  <2>1. m - 1 \in Straight /\ (m - 1) + 1 = m BY <1>4, Followed, InFunctionReached
  <2>2. m - 1 \notin Sources(NativeEdges) BY <2>1, StraightEdges
  <2>3. m - 1 \in Reached /\ m - 1 # 0 BY <2>1, ReachedIs DEF Straight, Coded
  <2>4. m - 1 \in D
    <3>1. m - 1 \in 1 .. s BY <1>1, <1>4, <2>3
    <3>2. (m - 1) .. s = {m - 1} \cup m .. s /\ (m - 1) .. s - 1 = {m - 1} \cup m .. s - 1
      BY <1>1, <1>4
    <3>3. (m - 1) + 1 .. s = {m} \cup m + 1 .. s BY <1>1, <1>4
    <3> QED BY <1>3, <2>1, <2>2, <2>3, <3>1, <3>2, <3>3
  <2>5. m <= m - 1 BY <1>3, <2>4
  <2> QED BY <1>4, <2>5
<1>6. Block(NativeEdges, m, s)
  <2>1. \A l \in Targets(NativeEdges) : ~(m < l /\ l <= s)
    <3>1. \A l \in Nat : m < l /\ l <= s => l \in m + 1 .. s BY <1>1, <1>4
    <3> QED BY <1>3, <3>1, NativeNumbered DEF Numbered
  <2>2. \A r \in Sources(NativeEdges) : ~(m <= r /\ r < s)
    <3>1. \A l \in Nat : m <= l /\ l < s => l \in m .. s - 1 BY <1>1, <1>4
    <3> QED BY <1>3, <3>1, NativeNumbered DEF Numbered
  <2> QED BY <1>4, <1>5, <2>1, <2>2 DEF Block
<1>7. InFunction(m)
  <2> SUFFICES ASSUME ~InFunction(m) PROVE FALSE OBVIOUS
  <2>1. m - 1 \in Straight /\ (m - 1) + 1 = m BY <1>4, Followed
  <2>2. PICK e \in NativeEdges : e.target = m BY <1>5 DEF Targets
  <2>3. e.kind = "kCall" BY <1>4, <2>2 DEF InFunction
  <2>4. e \in Transfers
    <3>1. e \notin RunsOn BY <2>3, Fields DEF RunsOn
    <3> QED BY <3>1, NativeEdgesAre DEF Coded
  <2>5. Edge(m - 1, m, "kFlow") \in RunsOn BY <2>1, <2>2, <2>4 DEF RunsOn, Targets
  <2>6. LoopsBack(m)
    <3> SUFFICES ASSUME ~LoopsBack(m) PROVE FALSE OBVIOUS
    <3>1. Edge(m - 1, m, "kFlow") \in NativeEdges BY <2>5, NativeEdgesAre, Fields DEF Coded
    <3> QED BY <1>4, <3>1, Fields DEF InFunction
  <2>7. PICK b \in Reached : /\ Class(b) = "branch" /\ Target(b) \in m .. b
                             /\ (m - 1) .. (b - 1) \subseteq Straight
    BY <2>6 DEF LoopsBack
  <2>8. Edge(b, Target(b), "kJump") \in NativeEdges BY <2>7, NativeEdgesFrom DEF Coded
  <2>9. Target(b) # m BY <1>4, <2>8, Fields DEF InFunction
  <2>10. Target(b) \in Targets(NativeEdges) BY <2>8, Fields DEF Targets
  <2>11. b \in Nat /\ Target(b) \in Nat /\ Target(b) <= b /\ m < Target(b) /\ s < Target(b)
    <3>1. b \in Nat BY ReachedIs, Numbers DEF Coded
    <3>2. Target(b) \in Nat /\ Target(b) <= b /\ m < Target(b) BY <1>4, <2>7, <2>9, <3>1
    <3> QED BY <1>1, <1>6, <2>10, <3>1, <3>2 DEF Block
  <2>12. s \in Straight /\ s .. b - 1 \subseteq Straight /\ Target(b) \in s + 1 .. b
    BY <1>1, <1>4, <2>7, <2>11
  <2>13. LoopsBack(s + 1)
    <3>1. (s + 1) - 1 = s BY <1>1
    <3> QED BY <2>7, <2>12, <3>1 DEF LoopsBack
  <2> QED BY <2>12, <2>13, StraightEdges
<1>8. s \in m .. s BY <1>1, <1>4
<1> QED BY <1>6, <1>7, <1>8 DEF Created, NativeBlock

-----------------------------------------------------------------------------
(* The edges of the flow graph.                                            *)

Length(a) == Len(code[a].reil)
Insn(a, o) == code[a].reil[o + 1]

LEMMA InsnIs ==
  ASSUME Coded, NEW a \in Code
  PROVE  /\ Length(a) \in 1 .. Width /\ Length(a) \in Nat /\ Length(a) - 1 \in 0 .. Width - 1
         /\ DOMAIN code[a].reil = 1 .. Length(a)
         /\ code[a].class = Class(a) /\ code[a].target = Target(a)
         /\ \A o \in 0 .. Length(a) - 1 :
              /\ o \in 0 .. Width - 1 /\ o + 1 \in DOMAIN code[a].reil
              /\ Node(a, o) \in Nat /\ Node(a, o) # 0
              /\ Ri(Node(a, o)) = Insn(a, o)
              /\ Operates(Insn(a, o))
              /\ Within(Insn(a, o)) => Insn(a, o).output[2] \in o + 1 .. Length(a) - 1
              /\ Insn(a, o).opcode = "Jcc" /\ ~Within(Insn(a, o)) =>
                   /\ o + 1 = Length(a) /\ Class(a) \in DOMAIN Hint
                   /\ Insn(a, o).input1 = Hint[Class(a)]
                   /\ Insn(a, o).input0[1] # "imm" =>
                        /\ Class(a) = "maybe_branch" /\ Target(a) # 0
                        /\ Insn(a, o).output \in Places
         /\ Class(a) \in {"maybe_branch", "branch"} =>
              Insn(a, Length(a) - 1).opcode = "Jcc" /\ ~Within(Insn(a, Length(a) - 1))
<1> DEFINE n == code[a]
<1>1. n \in Natives BY DEF Coded
<1>2. /\ Len(n.reil) \in 1 .. Width /\ DOMAIN n.reil = 1 .. Len(n.reil)
      /\ \A k \in DOMAIN n.reil : Operates(n.reil[k])
      /\ Jumps(n)
  BY <1>1, NativesAssumption
<1>3. Length(a) \in 1 .. Width /\ Length(a) \in Nat /\ Length(a) - 1 \in 0 .. Width - 1
  BY <1>2, Numbers DEF Length
<1>4. n.class = Class(a) /\ n.target = Target(a) BY DEF Class, Target
<1>5. ASSUME NEW o \in 0 .. Length(a) - 1
      PROVE  /\ o \in 0 .. Width - 1 /\ o + 1 \in DOMAIN n.reil
             /\ Node(a, o) \in Nat /\ Node(a, o) # 0
             /\ Ri(Node(a, o)) = Insn(a, o)
  <2>1. o \in 0 .. Width - 1 /\ o + 1 \in DOMAIN n.reil BY <1>2, <1>3, Numbers DEF Length
  <2>2. a \in Nat /\ a # 0 BY Numbers
  <2>3. Node(a, o) \in Nat /\ Node(a, o) # 0 BY <2>1, <2>2, NodeOrder
  <2>4. AddressOf(Node(a, o)) = a /\ OffsetOf(Node(a, o)) = o BY <2>1, <2>2, NodeParts
  <2>5. Reil[a] = n.reil BY DEF Reil
  <2> QED BY <2>1, <2>3, <2>4, <2>5 DEF Ri, InstructionAt, Insn
<1>6. ASSUME NEW o \in 0 .. Length(a) - 1
      PROVE  /\ Operates(Insn(a, o))
             /\ Within(Insn(a, o)) => Insn(a, o).output[2] \in o + 1 .. Length(a) - 1
             /\ Insn(a, o).opcode = "Jcc" /\ ~Within(Insn(a, o)) =>
                  /\ o + 1 = Length(a) /\ Class(a) \in DOMAIN Hint
                  /\ Insn(a, o).input1 = Hint[Class(a)]
                  /\ Insn(a, o).input0[1] # "imm" =>
                       /\ Class(a) = "maybe_branch" /\ Target(a) # 0
                       /\ Insn(a, o).output \in Places
  <2>1. o + 1 \in DOMAIN n.reil BY <1>5
  <2>2. Insn(a, o) = n.reil[o + 1] BY DEF Insn
  <2> QED BY <1>2, <1>4, <2>1, <2>2 DEF Jumps, Length
<1>7. Class(a) \in {"maybe_branch", "branch"} =>
        Insn(a, Length(a) - 1).opcode = "Jcc" /\ ~Within(Insn(a, Length(a) - 1))
  <2>1. (Length(a) - 1) + 1 = Len(n.reil) BY <1>3 DEF Length
  <2> QED BY <1>2, <1>4, <2>1 DEF Jumps, Insn, Within
<1> QED BY <1>2, <1>3, <1>4, <1>5, <1>6, <1>7 DEF Length

\* The edge by which an instruction flows on, and those by which it jumps.
FlowOut(a, o) ==
  IF Insn(a, o).opcode = "Jcc" /\ ~Flows(Insn(a, o)) THEN {}
  ELSE IF o + 1 = Length(a) THEN {Edge(Node(a, o), Node(a + 1, 0), "kNativeFlow")}
  ELSE IF Insn(a, o).opcode = "Jcc" THEN {Edge(Node(a, o), Node(a, o + 1), "kFlow")}
  ELSE {}
Hinted == [maybe_branch |-> "kJump", branch |-> "kJump", call |-> "kCall", return |-> "kReturn"]
NativeKind == [kJump |-> "kNativeJump", kCall |-> "kNativeCall", kReturn |-> "kNativeReturn"]
Whither(a) == IF Class(a) = "return" THEN 0 ELSE Target(a)
JumpOut(a, o) ==
  IF Insn(a, o).opcode # "Jcc" THEN {}
  ELSE IF Within(Insn(a, o)) THEN {Edge(Node(a, o), Node(a, Insn(a, o).output[2]), "kJump")}
  ELSE {Edge(Node(a, o), Node(Whither(a), 0), NativeKind[Hinted[Class(a)]])}
Out(a, o) == FlowOut(a, o) \cup JumpOut(a, o)

MadeNodes == UNION {{Node(a, o) : o \in 0 .. Length(a) - 1} : a \in Created}
Made == {Edge(0, Node(1, 0), "kNativeCall")}
        \cup UNION {UNION {Out(a, o) : o \in 0 .. Length(a) - 1} : a \in Created}

LEMMA FlowEdgesAre ==
  ASSUME Coded, NEW a \in Code, NEW o \in 0 .. Length(a) - 1
  PROVE  FlowEdges(Reil, Node(a, o)) = FlowOut(a, o)
<1> DEFINE n == Node(a, o)
           next == NextNode(Reil, n)
<1>1. /\ o \in 0 .. Width - 1 /\ a \in Nat /\ a + 1 \in Nat /\ Length(a) \in 1 .. Width
      /\ 0 \in 0 .. Width - 1 /\ Width \in Nat
  BY InsnIs, Numbers
<1>2. AddressOf(n) = a /\ OffsetOf(n) = o BY <1>1, NodeParts
<1>3. InstructionAt(Reil, n) = Insn(a, o) BY InsnIs DEF Ri
<1>4. Len(Reil[a]) = Length(a) BY DEF Reil, Length
<1>5. CASE o + 1 = Length(a)
  <2>1. next = Node(a + 1, 0) BY <1>2, <1>4, <1>5, <1>1 DEF NextNode
  <2>2. AddressOf(next) = a + 1 BY <1>1, <2>1, NodeParts
  <2>3. AddressOf(n) # AddressOf(next) BY <1>1, <1>2, <2>2
  <2> QED BY <1>3, <1>5, <2>1, <2>3 DEF FlowEdges, FlowOut
<1>6. CASE o + 1 # Length(a)
  <2>1. o + 1 \in 0 .. Width - 1 /\ o + 1 < Length(a) BY <1>1, <1>6
  <2>2. n + 1 = Node(a, o + 1) BY <1>1, <2>1, NodeOrder
  <2>3. next = Node(a, o + 1)
    <3> HIDE DEF n
    <3> QED BY <1>2, <1>4, <2>1, <2>2 DEF NextNode
  <2>4. AddressOf(next) = a BY <1>1, <2>1, <2>3, NodeParts
  <2> QED BY <1>2, <1>3, <1>6, <2>3, <2>4 DEF FlowEdges, FlowOut
<1> QED BY <1>5, <1>6

LEMMA HintIs ==
  /\ DOMAIN Hint = {"maybe_branch", "branch", "call", "return"}
  /\ DOMAIN Hinted = DOMAIN Hint /\ DOMAIN NativeKind = {"kJump", "kCall", "kReturn"}
  /\ \A c \in DOMAIN Hint :
       /\ <<"kJump", "kCall", "kReturn">>[Hint[c][2] + 1] = Hinted[c]
       /\ Hinted[c] \in DOMAIN NativeKind
       /\ NativeKind[Hinted[c]] \in {"kNativeJump", "kNativeCall", "kNativeReturn"}
<1>1. DOMAIN Hint = {"maybe_branch", "branch", "call", "return"} BY DEF Hint
<1>2. /\ Hint["maybe_branch"] = <<"imm", 0>> /\ Hint["branch"] = <<"imm", 0>>
      /\ Hint["call"] = <<"imm", 1>> /\ Hint["return"] = <<"imm", 2>>
  BY DEF Hint, kJump, kCall, kReturn, Imm
<1>3. \A c \in DOMAIN Hint :
       /\ <<"kJump", "kCall", "kReturn">>[Hint[c][2] + 1] = Hinted[c]
       /\ Hinted[c] \in DOMAIN NativeKind
  BY <1>1, <1>2 DEF Hinted, NativeKind
<1> QED BY <1>1, <1>3 DEF Hinted, NativeKind

LEMMA JccEdgesAre ==
  ASSUME Coded, NEW a \in Code, a \in Reached, NEW o \in 0 .. Length(a) - 1,
         Insn(a, o).opcode = "Jcc"
  PROVE  JccEdges(NativeGraph, Reil, Node(a, o)) = JumpOut(a, o)
<1> DEFINE n == Node(a, o)
<1>1. o \in 0 .. Width - 1 /\ a \in Nat BY InsnIs, Numbers
<1>2. AddressOf(n) = a BY <1>1, NodeParts
<1>3. InstructionAt(Reil, n) = Insn(a, o) BY InsnIs DEF Ri
<1>4. CASE Within(Insn(a, o))
  BY <1>2, <1>3, <1>4 DEF JccEdges, JumpOut, Within
<1>5. CASE ~Within(Insn(a, o))
  <2>1. Class(a) \in DOMAIN Hint /\ Insn(a, o).input1 = Hint[Class(a)] BY <1>5, InsnIs
  <2>2. EdgesAt(NativeGraph.outgoing, a) = {e \in NativeEdges : e.source = a}
    BY GraphOfMaps DEF NativeGraph
  <2> DEFINE h == Hinted[Class(a)]
             K == {f \in EdgesAt(NativeGraph.outgoing, a) : f.kind = h}
  <2>3. K = {Edge(a, Whither(a), h)}
    <3>1. Class(a) = "return" => h = "kReturn" BY DEF Hinted
    <3>2. Class(a) = "call" => h = "kCall" BY DEF Hinted
    <3>3. Class(a) \in {"maybe_branch", "branch"} => h = "kJump" BY DEF Hinted
    <3>4. Edge(a, Whither(a), h) \in K
      BY <2>1, <2>2, <3>1, <3>2, <3>3, HintIs, NativeEdgesFrom, Fields DEF Whither, Coded
    <3>5. ASSUME NEW f \in K PROVE f = Edge(a, Whither(a), h)
      <4>1. f \in NativeEdges /\ f.source = a /\ f.kind = h /\ a # 0
        BY <2>2, ReachedIs DEF Coded
      <4>2. f = Edge(a, f.target, h) BY <4>1, NativeEdgesFrom DEF Coded
      <4>3. f.target = Whither(a)
        BY <2>1, <3>1, <3>2, <3>3, <4>1, HintIs, NativeEdgesFrom DEF Whither, Coded
      <4> QED BY <4>2, <4>3
    <3> QED BY <3>4, <3>5
  <2>4. <<"kJump", "kCall", "kReturn">>[Insn(a, o).input1[2] + 1] = h BY <2>1, HintIs
  <2>5. JccEdges(NativeGraph, Reil, n) = {Edge(n, Node(e.target, 0), NativeKind[e.kind]) : e \in K}
    BY <1>2, <1>3, <1>5, <2>4 DEF JccEdges, Within, NativeKind
  <2> HIDE DEF K, h
  <2>6. JccEdges(NativeGraph, Reil, n) = {Edge(n, Node(Whither(a), 0), NativeKind[h])}
    BY <2>3, <2>5, Fields
  <2> QED BY <1>5, <2>6 DEF JumpOut, h
<1> QED BY <1>4, <1>5

\* The flow graph that Create makes.
LEMMA CreateIs ==
  ASSUME Coded
  PROVE  Create(NativeGraph, Reil) = GraphOf(Made)
<1> DEFINE entry == {Edge(0, Node(e.target, 0), "kNativeCall") :
                        e \in EdgesAt(NativeGraph.outgoing, 0)}
           nodes == UNION {NodesIn(b, Reil) : b \in NativeBlocks(NativeGraph, Reil)}
           F(n) == (IF InstructionAt(Reil, n).opcode = "Jcc"
                    THEN JccEdges(NativeGraph, Reil, n) ELSE {}) \cup FlowEdges(Reil, n)
<1>1. entry = {Edge(0, Node(1, 0), "kNativeCall")}
  <2>1. EdgesAt(NativeGraph.outgoing, 0) = {e \in NativeEdges : e.source = 0}
    BY GraphOfMaps DEF NativeGraph
  <2>2. {e \in NativeEdges : e.source = 0} = {Edge(0, 1, "kCall")}
    BY NativeEdgesFrom, Fields DEF Coded
  <2> QED BY <2>1, <2>2, Fields
<1>2. NativeBlocks(NativeGraph, Reil)
      = {[start |-> w[1], end |-> w[2]] : w \in {u \in Nat \X Nat :
           Block(NativeEdges, u[1], u[2]) /\ InFunction(u[1])}}
  <2> DEFINE R == {[start |-> w[1], end |-> w[2]] : w \in {u \in Nat \X Nat :
                     Block(NativeEdges, u[1], u[2]) /\ InFunction(u[1])}}
             L == {b \in DOMAIN NativeGraph.incoming \ {0} :
                     \E e \in NativeGraph.incoming[b] : e.kind # "kCall" \/ e.source = 0}
  <2>1. \A b : b \in L <=> InFunction(b)
    BY GraphOfMaps DEF NativeGraph, InFunction, Targets
  <2>2. ASSUME NEW b \in L, NEW x \in Blocks(NativeGraph, b) PROVE x \in R
    <3>1. InFunction(b) /\ b \in Targets(NativeEdges) /\ b \in Nat
      BY <2>1, InFunctionReached, NativeNumbered DEF Numbered
    <3>2. PICK s, t \in Nat : /\ BlockAt(NativeEdges, b, s, t)
                              /\ Blocks(NativeGraph, b) = {[start |-> s, end |-> t]}
      BY <2>2, <3>1, BlocksOfGraph, NativeNumbered DEF NativeGraph
    <3>3. s = b BY <3>1, <3>2 DEF BlockAt, Block
    <3>4. <<s, t>> \in {u \in Nat \X Nat : Block(NativeEdges, u[1], u[2]) /\ InFunction(u[1])}
      BY <3>1, <3>2, <3>3 DEF BlockAt
    <3> QED BY <2>2, <3>2, <3>4
  <2>3. ASSUME NEW s \in Nat, NEW t \in Nat, Block(NativeEdges, s, t), InFunction(s)
        PROVE  s \in L /\ [start |-> s, end |-> t] \in Blocks(NativeGraph, s)
    <3>1. BlockAt(NativeEdges, s, s, t) BY <2>3 DEF BlockAt, Block
    <3>2. Blocks(NativeGraph, s) = {[start |-> s, end |-> t]}
      BY <3>1, BlocksOfGraph, NativeNumbered DEF NativeGraph
    <3> QED BY <2>1, <2>3, <3>2
  <2>4. NativeBlocks(NativeGraph, Reil) = UNION {Blocks(NativeGraph, b) : b \in L}
    BY DEF NativeBlocks
  <2>5. NativeBlocks(NativeGraph, Reil) = R
    <3> HIDE DEF L
    <3>1. UNION {Blocks(NativeGraph, b) : b \in L} \subseteq R
      <4> HIDE DEF R
      <4> QED BY <2>2
    <3>2. R \subseteq UNION {Blocks(NativeGraph, b) : b \in L} BY <2>3
    <3> QED BY <2>4, <3>1, <3>2
  <2> QED BY <2>5
<1>3. nodes = MadeNodes
  <2> DEFINE B == {u \in Nat \X Nat : Block(NativeEdges, u[1], u[2]) /\ InFunction(u[1])}
  <2>1. nodes = UNION {NodesIn([start |-> w[1], end |-> w[2]], Reil) : w \in B}
    BY <1>2
  <2>2. DOMAIN Reil = Code /\ \A a \in Code : Len(Reil[a]) = Length(a) BY DEF Reil, Length
  <2>3. ASSUME NEW w \in B, NEW n \in NodesIn([start |-> w[1], end |-> w[2]], Reil)
        PROVE  n \in MadeNodes
    <3>1. w[2] \in Code /\ \E a \in w[1] .. w[2] : \E o \in 0 .. Len(Reil[a]) - 1 : n = Node(a, o)
      BY <2>2 DEF NodesIn
    <3>2. PICK a \in w[1] .. w[2] : \E o \in 0 .. Len(Reil[a]) - 1 : n = Node(a, o) BY <3>1
    <3>3. w[1] \in Nat /\ w[1] # 0 BY NativeBlockRuns
    <3>4. a \in Code BY <3>1, <3>2, <3>3, Numbers
    <3>5. a \in Created BY <3>1, <3>2, <3>4 DEF Created, NativeBlock
    <3> QED BY <2>2, <3>2, <3>4, <3>5 DEF MadeNodes
  <2>4. ASSUME NEW a \in Created, NEW o \in 0 .. Length(a) - 1
        PROVE  \E w \in B : Node(a, o) \in NodesIn([start |-> w[1], end |-> w[2]], Reil)
    <3>1. PICK s, t : NativeBlock(s, t) /\ a \in s .. t BY DEF Created
    <3>2. s \in Nat /\ t \in Nat /\ t \in Code /\ a \in Code
      BY <3>1, NativeBlockRuns DEF NativeBlock, Created
    <3>3. <<s, t>> \in B BY <3>1, <3>2 DEF NativeBlock
    <3>4. Node(a, o) \in NodesIn([start |-> s, end |-> t], Reil)
      BY <2>2, <3>1, <3>2 DEF NodesIn
    <3>5. <<s, t>>[1] = s /\ <<s, t>>[2] = t OBVIOUS
    <3> QED BY <3>3, <3>4, <3>5
  <2> HIDE DEF B, nodes
  <2>5. nodes \subseteq MadeNodes BY <2>1, <2>3
  <2>6. MadeNodes \subseteq nodes
    <3>1. \A n \in MadeNodes : \E a \in Created : \E o \in 0 .. Length(a) - 1 : n = Node(a, o)
      BY DEF MadeNodes
    <3> QED BY <2>1, <2>4, <3>1
  <2> QED BY <2>5, <2>6
<1>4. \A a \in Created : \A o \in 0 .. Length(a) - 1 : F(Node(a, o)) = Out(a, o)
  <2> TAKE a \in Created
  <2> TAKE o \in 0 .. Length(a) - 1
  <2>1. a \in Code /\ a \in Reached BY CreatedReached
  <2>2. InstructionAt(Reil, Node(a, o)) = Insn(a, o) BY <2>1, InsnIs DEF Ri
  <2> QED BY <2>1, <2>2, FlowEdgesAre, JccEdgesAre DEF Out, JumpOut
<1>5. UNION {F(n) : n \in MadeNodes}
      = UNION {UNION {Out(a, o) : o \in 0 .. Length(a) - 1} : a \in Created}
  <2> DEFINE R == UNION {UNION {Out(a, o) : o \in 0 .. Length(a) - 1} : a \in Created}
  <2> HIDE DEF F
  <2>1. ASSUME NEW n \in MadeNodes, NEW e \in F(n) PROVE e \in R
    <3>1. PICK a \in Created : \E o \in 0 .. Length(a) - 1 : n = Node(a, o) BY DEF MadeNodes
    <3>2. PICK o \in 0 .. Length(a) - 1 : n = Node(a, o) BY <3>1
    <3>3. e \in Out(a, o) BY <1>4, <2>1, <3>2
    <3> QED BY <3>3
  <2>2. ASSUME NEW a \in Created, NEW o \in 0 .. Length(a) - 1, NEW e \in Out(a, o)
        PROVE  \E n \in MadeNodes : e \in F(n)
    <3>1. Node(a, o) \in MadeNodes BY DEF MadeNodes
    <3> QED BY <1>4, <2>2, <3>1
  <2>3. UNION {F(n) : n \in MadeNodes} \subseteq R
    <3> HIDE DEF R
    <3> QED BY <2>1
  <2>4. R \subseteq UNION {F(n) : n \in MadeNodes} BY <2>2
  <2> QED BY <2>3, <2>4
<1>6. Create(NativeGraph, Reil) = GraphOf(entry \cup UNION {F(n) : n \in nodes}) BY DEF Create
<1> HIDE DEF entry, nodes, F
<1> QED BY <1>1, <1>3, <1>5, <1>6 DEF Made

\* The edges out of an instruction: within the native instruction they go forward.
OutOf(a, o, e) ==
  /\ e.source = Node(a, o)
  /\ \/ /\ e.kind \in NativeKinds /\ o + 1 = Length(a)
        /\ \/ e.kind = "kNativeFlow" /\ e.target = Node(a + 1, 0)
           \/ /\ e.kind # "kNativeFlow" /\ e.target = Node(Whither(a), 0)
              /\ Insn(a, o).opcode = "Jcc" /\ ~Within(Insn(a, o))
              /\ Class(a) \in DOMAIN Hint
              /\ e.kind = NativeKind[Hinted[Class(a)]]
     \/ /\ e.kind \in {"kFlow", "kJump"} /\ Insn(a, o).opcode = "Jcc" /\ o + 1 < Length(a)
        /\ \/ e.kind = "kFlow" /\ e.target = Node(a, o + 1) /\ Flows(Insn(a, o))
           \/ /\ e.kind = "kJump" /\ Within(Insn(a, o))
              /\ e.target = Node(a, Insn(a, o).output[2])

LEMMA OutIs ==
  ASSUME Coded, NEW a \in Code, NEW o \in 0 .. Length(a) - 1, NEW e \in Out(a, o)
  PROVE  OutOf(a, o, e)
<1>1. Length(a) \in Nat BY InsnIs
<1>2. CASE e \in FlowOut(a, o)
  <2>1. CASE o + 1 = Length(a)
    <3>1. e = Edge(Node(a, o), Node(a + 1, 0), "kNativeFlow") BY <1>2, <2>1 DEF FlowOut
    <3> QED BY <2>1, <3>1, Fields DEF OutOf, NativeKinds
  <2>2. CASE o + 1 # Length(a)
    <3>1. Insn(a, o).opcode = "Jcc" /\ Flows(Insn(a, o))
          /\ e = Edge(Node(a, o), Node(a, o + 1), "kFlow")
      BY <1>2, <2>2 DEF FlowOut
    <3>2. o + 1 < Length(a) BY <1>1, <2>2
    <3> QED BY <3>1, <3>2, Fields DEF OutOf
  <2> QED BY <2>1, <2>2
<1>3. CASE e \in JumpOut(a, o)
  <2>1. Insn(a, o).opcode = "Jcc" BY <1>3 DEF JumpOut
  <2>2. CASE Within(Insn(a, o))
    <3>1. e = Edge(Node(a, o), Node(a, Insn(a, o).output[2]), "kJump")
      BY <1>3, <2>1, <2>2 DEF JumpOut
    <3>2. o + 1 < Length(a)
      <4>1. Insn(a, o).output[2] \in o + 1 .. Length(a) - 1 BY <2>2, InsnIs
      <4> QED BY <1>1, <4>1
    <3> QED BY <2>1, <2>2, <3>1, <3>2, Fields DEF OutOf
  <2>3. CASE ~Within(Insn(a, o))
    <3>1. e = Edge(Node(a, o), Node(Whither(a), 0), NativeKind[Hinted[Class(a)]])
      BY <1>3, <2>1, <2>3 DEF JumpOut
    <3>2. o + 1 = Length(a) /\ Class(a) \in DOMAIN Hint BY <2>1, <2>3, InsnIs
    <3>3. NativeKind[Hinted[Class(a)]] \in {"kNativeJump", "kNativeCall", "kNativeReturn"}
      BY <3>2, HintIs
    <3> QED BY <2>1, <2>3, <3>1, <3>2, <3>3, Fields DEF OutOf, NativeKinds
  <2> QED BY <2>2, <2>3
<1> QED BY <1>2, <1>3 DEF Out

LEMMA MadeEdge ==
  ASSUME Coded, NEW e \in Made
  PROVE  \/ e = Edge(0, Node(1, 0), "kNativeCall")
         \/ \E a \in Created : \E o \in 0 .. Length(a) - 1 : e \in Out(a, o) /\ OutOf(a, o, e)
<1> SUFFICES ASSUME e # Edge(0, Node(1, 0), "kNativeCall")
    PROVE  \E a \in Created : \E o \in 0 .. Length(a) - 1 : e \in Out(a, o) /\ OutOf(a, o, e)
  OBVIOUS
<1>1. PICK a \in Created : \E o \in 0 .. Length(a) - 1 : e \in Out(a, o) BY DEF Made
<1>2. PICK o \in 0 .. Length(a) - 1 : e \in Out(a, o) BY <1>1
<1>3. OutOf(a, o, e) BY <1>2, OutIs, CreatedReached
<1> QED BY <1>2, <1>3

LEMMA WhitherIs ==
  ASSUME Coded, NEW a \in Code
  PROVE  Whither(a) \in Address /\ Whither(a) \in Nat /\ a + 1 \in Address /\ a + 1 \in Nat
BY Decoded, Numbers DEF Whither, Coded

\* An edge's source is made, and its target lies in a made instruction or at the
\* start of any.
LEMMA MadeEnds ==
  ASSUME Coded, NEW e \in Made
  PROVE  /\ e.source \in Nat /\ e.target \in Nat
         /\ e.source = 0 \/ e.source \in MadeNodes
         /\ \/ \E b \in Address : e.target = Node(b, 0)
            \/ e.target \in MadeNodes
<1>1. CASE e = Edge(0, Node(1, 0), "kNativeCall")
  <2>1. 1 \in Address /\ 1 \in Nat /\ 0 \in 0 .. Width - 1 BY Numbers
  <2>2. Node(1, 0) \in Nat BY <2>1, NodeOrder
  <2> QED BY <1>1, <2>1, <2>2, Fields
<1>2. CASE \E a \in Created : \E o \in 0 .. Length(a) - 1 : OutOf(a, o, e)
  <2>1. PICK a \in Created : \E o \in 0 .. Length(a) - 1 : OutOf(a, o, e) BY <1>2
  <2>2. PICK o \in 0 .. Length(a) - 1 : OutOf(a, o, e) BY <2>1
  <2>3. a \in Code /\ Length(a) \in Nat BY CreatedReached, InsnIs
  <2>4. e.source \in MadeNodes /\ e.source \in Nat BY <2>2, <2>3, InsnIs DEF OutOf, MadeNodes
  <2>5. \A b \in Address : Node(b, 0) \in Nat
    <3>1. 0 \in 0 .. Width - 1 BY Numbers
    <3> QED BY <3>1, NodeOrder, Numbers
  <2>6. \A q \in 0 .. Length(a) - 1 : Node(a, q) \in MadeNodes /\ Node(a, q) \in Nat
    BY <2>3, InsnIs DEF MadeNodes
  <2>7. CASE e.kind \in NativeKinds
    <3>1. e.target \in {Node(a + 1, 0), Node(Whither(a), 0)}
      BY <2>2, <2>7 DEF OutOf, NativeKinds
    <3> QED BY <2>3, <2>4, <2>5, <3>1, WhitherIs
  <2>8. CASE e.kind \notin NativeKinds
    <3>1. \E q \in 0 .. Length(a) - 1 : e.target = Node(a, q)
      <4>1. CASE e.target = Node(a, o + 1) /\ o + 1 < Length(a)
        <5>1. o + 1 \in 0 .. Length(a) - 1 BY <2>3, <4>1
        <5> QED BY <4>1, <5>1
      <4>2. CASE Within(Insn(a, o)) /\ e.target = Node(a, Insn(a, o).output[2])
        <5>1. Insn(a, o).output[2] \in 0 .. Length(a) - 1 BY <2>3, <4>2, InsnIs
        <5> QED BY <4>2, <5>1
      <4> QED BY <2>2, <2>8, <4>1, <4>2 DEF OutOf
    <3> QED BY <2>4, <2>6, <3>1
  <2> QED BY <2>7, <2>8
<1> QED BY <1>1, <1>2, MadeEdge

LEMMA MadeNumbered ==
  ASSUME Coded
  PROVE  Numbered(Made) /\ 0 \in Sources(Made) /\ Node(1, 0) \in Targets(Made)
<1>1. \A e \in Made : e.source \in Nat /\ e.target \in Nat BY MadeEnds
<1>2. Edge(0, Node(1, 0), "kNativeCall") \in Made BY DEF Made
<1> QED BY <1>1, <1>2, Fields DEF Numbered, Sources, Targets

LEMMA MadeNode ==
  ASSUME Coded, NEW n \in MadeNodes
  PROVE  \E a \in Created : \E o \in 0 .. Length(a) - 1 :
           /\ n = Node(a, o) /\ AddressOf(n) = a /\ OffsetOf(n) = o
           /\ n \in Nat /\ n # 0 /\ a \in Code /\ a \in Nat /\ o \in 0 .. Width - 1
           /\ Ri(n) = Insn(a, o)
<1>1. PICK a \in Created : \E o \in 0 .. Length(a) - 1 : n = Node(a, o) BY DEF MadeNodes
<1>2. PICK o \in 0 .. Length(a) - 1 : n = Node(a, o) BY <1>1
<1>3. a \in Code /\ a \in Nat BY CreatedReached
<1>4. o \in 0 .. Width - 1 /\ n \in Nat /\ n # 0 /\ Ri(n) = Insn(a, o) BY <1>2, <1>3, InsnIs
<1>5. AddressOf(n) = a /\ OffsetOf(n) = o BY <1>2, <1>3, <1>4, NodeParts
<1> QED BY <1>2, <1>3, <1>4, <1>5

\* The edges out of a made node.
LEMMA MadeFrom ==
  ASSUME Coded, NEW a \in Created, NEW o \in 0 .. Length(a) - 1
  PROVE  /\ \A e : e \in Made /\ e.source = Node(a, o) <=> e \in Out(a, o)
         /\ Node(a, o) \in Sources(Made) <=> Out(a, o) # {}
<1>1. a \in Code /\ a \in Nat /\ o \in 0 .. Width - 1 /\ Node(a, o) # 0
  BY CreatedReached, InsnIs
<1>2. ASSUME NEW e \in Made, e.source = Node(a, o) PROVE e \in Out(a, o)
  <2>1. e # Edge(0, Node(1, 0), "kNativeCall") BY <1>1, <1>2, Fields
  <2>2. PICK b \in Created : \E q \in 0 .. Length(b) - 1 : e \in Out(b, q) /\ OutOf(b, q, e)
    BY <2>1, MadeEdge
  <2>3. PICK q \in 0 .. Length(b) - 1 : e \in Out(b, q) /\ OutOf(b, q, e) BY <2>2
  <2>4. b \in Code /\ b \in Nat /\ q \in 0 .. Width - 1 BY CreatedReached, InsnIs
  <2>5. Node(b, q) = Node(a, o) BY <1>2, <2>3 DEF OutOf
  <2>6. b = a /\ q = o BY <1>1, <2>4, <2>5, NodeOrder
  <2> QED BY <2>3, <2>6
<1>3. ASSUME NEW e \in Out(a, o) PROVE e \in Made /\ e.source = Node(a, o)
  BY <1>1, <1>3, OutIs DEF Made, OutOf
<1> QED BY <1>2, <1>3 DEF Sources

\* The last instruction of a made native one has an edge out.
LEMMA LastIsSource ==
  ASSUME Coded, NEW a \in Created
  PROVE  Node(a, Length(a) - 1) \in Sources(Made)
<1> DEFINE o == Length(a) - 1
<1>1. a \in Code /\ Length(a) \in 1 .. Width BY CreatedReached, InsnIs
<1>2. o \in 0 .. Length(a) - 1 /\ o + 1 = Length(a) BY <1>1, Numbers
<1>3. Out(a, o) # {}
  <2>1. CASE Insn(a, o).opcode = "Jcc"
    <3>1. JumpOut(a, o) # {} BY <2>1 DEF JumpOut
    <3> QED BY <3>1 DEF Out
  <2>2. CASE Insn(a, o).opcode # "Jcc"
    <3>1. FlowOut(a, o) # {} BY <1>2, <2>2 DEF FlowOut
    <3> QED BY <3>1 DEF Out
  <2> QED BY <2>1, <2>2
<1> QED BY <1>2, <1>3, MadeFrom

-----------------------------------------------------------------------------
(* The blocks of the flow graph.                                           *)

LEMMA Consecutive ==
  ASSUME NEW a \in Nat, NEW o \in 0 .. Width - 1, NEW q \in 0 .. Width - 1
  PROVE  /\ Node(a, o) .. Node(a, q) = {Node(a, k) : k \in o .. q}
         /\ o < q => Node(a, o + 1) = Node(a, o) + 1
<1>1. Width \in Nat /\ a * Width \in Nat BY Numbers
<1> DEFINE A == a * Width
<1>2. A \in Nat BY <1>1
<1>3. \A k : Node(a, k) = A + k BY DEF Node
<1> HIDE DEF A
<1>4. ASSUME NEW n \in A + o .. A + q PROVE \E k \in o .. q : n = A + k
  <2>1. n - A \in o .. q /\ n = A + (n - A) BY <1>1, <1>2
  <2> QED BY <2>1
<1>5. ASSUME NEW k \in o .. q PROVE A + k \in A + o .. A + q BY <1>1, <1>2
<1>6. A + o .. A + q = {A + k : k \in o .. q} BY <1>4, <1>5
<1>7. A + (o + 1) = (A + o) + 1 BY <1>1, <1>2
<1> QED BY <1>3, <1>6, <1>7

\* Behind an instruction that is not made, and in front of the next that is, lies a
\* node that a block does not run over.
LEMMA NoBlockFromOutside ==
  ASSUME Coded, NEW a \in Nat, a # 0, a \notin Created, NEW y, Block(Made, Node(a, 0), y)
  PROVE  FALSE
<1> DEFINE x == Node(a, 0)
<1>1. x \in Nat /\ x # 0 /\ y \in Nat /\ x <= y /\ y \in Sources(Made)
  <2>1. 0 \in 0 .. Width - 1 BY Numbers
  <2> QED BY <2>1, NodeOrder, MadeNumbered DEF Block, Numbered
<1>2. \A r \in Sources(Made) : r \in Nat /\ ~(x <= r /\ r < y) BY MadeNumbered DEF Block, Numbered
<1>3. \A l \in Targets(Made) : l \in Nat /\ ~(x < l /\ l <= y) BY MadeNumbered DEF Block, Numbered
<1>4. y \in MadeNodes BY <1>1, MadeEnds DEF Sources
<1>5. PICK c \in Created : \E q \in 0 .. Length(c) - 1 : y = Node(c, q) /\ q \in 0 .. Width - 1
  BY <1>4, MadeNode
<1>6. PICK q \in 0 .. Length(c) - 1 : y = Node(c, q) /\ q \in 0 .. Width - 1 BY <1>5
<1>7. c \in Nat /\ c \in Code /\ 0 \in 0 .. Width - 1 BY CreatedReached, Numbers
<1>8. a < c
  <2>1. a < c \/ a = c
    <3>1. Node(a, 0) <= Node(c, q) BY <1>1, <1>6
    <3> QED BY <1>6, <1>7, <3>1, NodeOrder
  <2> QED BY <2>1
<1>9. PICK b, t : NativeBlock(b, t) /\ c \in b .. t BY DEF Created
<1>10. b \in Nat /\ t \in Nat /\ t \in Code /\ b # 0 /\ b <= c /\ c <= t
  BY <1>9, <1>7, NativeBlockRuns DEF NativeBlock
<1>11. a < b
  <2>1. b <= a => a \in b .. t /\ a \in Code BY <1>7, <1>8, <1>10, Numbers
  <2>2. b <= a => a \in Created BY <1>9, <2>1 DEF Created
  <2> QED BY <1>10, <2>2
<1>12. x < Node(b, 0) /\ Node(b, 0) <= y
  <2>1. Node(a, 0) <= Node(b, 0) /\ Node(a, 0) # Node(b, 0) /\ Node(b, 0) \in Nat
    BY <1>7, <1>10, <1>11, NodeOrder
  <2>2. Node(b, 0) <= Node(c, q) BY <1>6, <1>7, <1>10, NodeOrder
  <2> QED BY <1>1, <1>6, <2>1, <2>2
<1>13. PICK e \in NativeEdges : e.target = b /\ (e.kind # "kCall" \/ e.source = 0)
  BY <1>9 DEF NativeBlock, InFunction
<1>14. CASE e.source = 0
  <2>1. e = Edge(0, 1, "kCall") BY <1>13, <1>14, NativeEdgesFrom DEF Coded
  <2>2. b = 1 BY <1>13, <2>1, Fields
  <2> QED BY <1>10, <1>11, <2>2
<1>15. CASE e.source # 0
  <2> DEFINE d == e.source
  <2>1. /\ e.kind \in {"kFlow", "kJump"} /\ d \in Reached /\ d \in Nat
        /\ Class(d) \in {"maybe_branch", "branch", "call", "other"}
    <3>1. d \in Reached BY <1>15, NativeEdgesFrom DEF Coded
    <3> QED BY <1>10, <1>13, <1>15, <3>1, NativeEdgesFrom, ReachedIs, Numbers DEF Coded
  <2>2. d \in Created
    <3>1. d \in Code BY <2>1, Decoded DEF Coded
    <3>2. d \in Sources(NativeEdges) BY DEF Sources
    <3> QED BY <1>15, <3>1, <3>2, SourcesCreated
  <2> DEFINE last == Length(d) - 1
  <2>3. /\ last \in 0 .. Width - 1 /\ last \in 0 .. Length(d) - 1 /\ last + 1 = Length(d)
        /\ d \in Code
    <3>1. d \in Code BY <2>2, CreatedReached
    <3>2. Length(d) \in 1 .. Width BY <3>1, InsnIs
    <3> QED BY <3>1, <3>2, Numbers
  <2>4. CASE e.kind = "kFlow"
    <3>1. b = d + 1 BY <1>13, <1>15, <2>4, NativeEdgesFrom DEF Coded
    <3>2. Node(d, last) \in Sources(Made) BY <2>2, LastIsSource
    <3>3. Node(a, 0) <= Node(d, last) BY <1>7, <1>11, <2>1, <2>3, <3>1, NodeOrder
    <3>4. Node(d, last) <= Node(b, 0) /\ Node(d, last) # Node(b, 0)
      <4>1. d \in Nat /\ last \in 0 .. Width - 1 /\ b \in Nat /\ 0 \in 0 .. Width - 1 /\ d < b
        BY <1>7, <1>10, <2>1, <2>3, <3>1
      <4> HIDE DEF d, last
      <4> QED BY <4>1, NodeOrder
    <3>5. Node(d, last) \in Nat /\ Node(b, 0) \in Nat BY <1>2, <3>2, <1>7, <1>10, NodeOrder
    <3> QED BY <1>1, <1>2, <1>12, <3>2, <3>3, <3>4, <3>5
  <2>5. CASE e.kind = "kJump"
    <3>1. b = Target(d) /\ Class(d) \in {"maybe_branch", "branch"}
      BY <1>13, <1>15, <2>5, NativeEdgesFrom DEF Coded
    <3>2. Insn(d, last).opcode = "Jcc" /\ ~Within(Insn(d, last)) BY <2>3, <3>1, InsnIs
    <3> DEFINE f == Edge(Node(d, last), Node(b, 0), NativeKind[Hinted[Class(d)]])
    <3>3. f \in JumpOut(d, last) BY <3>1, <3>2 DEF JumpOut, Whither
    <3>4. f \in Made BY <2>2, <2>3, <3>3, MadeFrom DEF Out
    <3>5. Node(b, 0) \in Targets(Made) BY <3>4, Fields DEF Targets
    <3> QED BY <1>3, <1>12, <3>5
  <2> QED BY <2>1, <2>4, <2>5
<1> QED BY <1>14, <1>15

\* A block of the flow graph lies in one native instruction, and only its last
\* instruction is a Jcc.
InBlock(x, y, a, o, q) ==
  /\ a \in Created /\ o \in 0 .. Length(a) - 1 /\ q \in 0 .. Length(a) - 1 /\ o <= q
  /\ x = Node(a, o) /\ y = Node(a, q)
  /\ \A k \in o .. q - 1 : Insn(a, k).opcode # "Jcc"

LEMMA BlockWithin ==
  ASSUME Coded, NEW x, NEW y, Block(Made, x, y), x # 0
  PROVE  \E a \in Created : \E o, q \in 0 .. Length(a) - 1 : InBlock(x, y, a, o, q)
<1>1. x \in Nat /\ y \in Nat /\ x <= y /\ x \in Targets(Made) /\ y \in Sources(Made) /\ y # 0
  BY MadeNumbered DEF Block, Numbered
<1>2. x \in MadeNodes
  <2> SUFFICES ASSUME x \notin MadeNodes PROVE FALSE OBVIOUS
  <2>1. PICK b \in Address : x = Node(b, 0) BY <1>1, MadeEnds DEF Targets
  <2>2. b \in Nat /\ b # 0
    <3>1. b \in Nat /\ 0 \in 0 .. Width - 1 BY Numbers
    <3> QED BY <1>1, <2>1, <3>1, NodeOrder
  <2>3. b \notin Created
    <3> SUFFICES ASSUME b \in Created PROVE FALSE OBVIOUS
    <3>1. b \in Code BY CreatedReached
    <3>2. 0 \in 0 .. Length(b) - 1 BY <3>1, InsnIs, Numbers
    <3> QED BY <2>1, <3>2 DEF MadeNodes
  <2> QED BY <2>1, <2>2, <2>3, NoBlockFromOutside
<1>3. PICK a \in Created : \E o \in 0 .. Length(a) - 1 : x = Node(a, o) /\ o \in 0 .. Width - 1
  BY <1>2, MadeNode
<1>4. PICK o \in 0 .. Length(a) - 1 : x = Node(a, o) /\ o \in 0 .. Width - 1 BY <1>3
<1>5. y \in MadeNodes BY <1>1, MadeEnds DEF Sources
<1>6. PICK c \in Created : \E q \in 0 .. Length(c) - 1 : y = Node(c, q) /\ q \in 0 .. Width - 1
  BY <1>5, MadeNode
<1>7. PICK q \in 0 .. Length(c) - 1 : y = Node(c, q) /\ q \in 0 .. Width - 1 BY <1>6
<1>8. /\ a \in Nat /\ c \in Nat /\ a \in Code /\ c \in Code /\ Length(a) \in Nat
      /\ Length(a) - 1 \in 0 .. Width - 1 /\ Length(a) - 1 \in 0 .. Length(a) - 1
  BY CreatedReached, InsnIs
<1>9. y <= Node(a, Length(a) - 1)
  <2>1. Node(a, Length(a) - 1) \in Sources(Made) BY LastIsSource
  <2>2. Node(a, o) <= Node(a, Length(a) - 1) BY <1>4, <1>8, NodeOrder
  <2>3. Node(a, Length(a) - 1) \in Nat BY <1>8, NodeOrder
  <2> QED BY <1>1, <1>4, <2>1, <2>2, <2>3 DEF Block
<1>10. a = c
  <2>1. Node(c, q) <= Node(a, Length(a) - 1) /\ Node(a, o) <= Node(c, q) BY <1>1, <1>4, <1>7, <1>9
  <2>2. c <= a BY <1>7, <1>8, <2>1, NodeOrder
  <2>3. a <= c BY <1>4, <1>7, <1>8, <2>1, NodeOrder
  <2> QED BY <1>8, <2>2, <2>3
<1>11. o <= q
  <2>1. Node(a, o) <= Node(a, q) BY <1>1, <1>4, <1>7, <1>10
  <2> QED BY <1>4, <1>7, <1>8, <2>1, NodeOrder
<1>12. ASSUME NEW k \in o .. q - 1 PROVE Insn(a, k).opcode # "Jcc"
  <2> SUFFICES ASSUME Insn(a, k).opcode = "Jcc" PROVE FALSE OBVIOUS
  <2>1. k \in 0 .. Length(a) - 1 /\ k \in 0 .. Width - 1 /\ o <= k /\ k < q
    BY <1>4, <1>7, <1>8, <1>10, Numbers
  <2>2. JumpOut(a, k) # {} BY DEF JumpOut
  <2>3. Node(a, k) \in Sources(Made) BY <2>1, <2>2, MadeFrom DEF Out
  <2>4. Node(a, o) <= Node(a, k) /\ Node(a, k) <= Node(a, q) /\ Node(a, k) # Node(a, q)
        /\ Node(a, k) \in Nat
    BY <1>4, <1>7, <1>8, <2>1, NodeOrder
  <2> QED BY <1>1, <1>4, <1>7, <1>10, <2>3, <2>4 DEF Block
<1> QED BY <1>4, <1>7, <1>10, <1>11, <1>12 DEF InBlock

\* All this is made from the code alone.
LEMMA Unmoved ==
  ASSUME code' = code
  PROVE  /\ Coded' = Coded /\ NativeEdges' = NativeEdges /\ Made' = Made
         /\ NativeGraph' = NativeGraph /\ Reil' = Reil
<1>1. \A a : Disassembled!DecodeInstruction(a)' = Disassembled!DecodeInstruction(a)
  BY DEF Disassembled!DecodeInstruction
<1>2. \A a : Disassembled!Successors(a)' = Disassembled!Successors(a)
  BY <1>1 DEF Disassembled!Successors
<1>3. Disassembled!Reached' = Disassembled!Reached BY <1>2 DEF Disassembled!Reached
<1>4. \A s, c : Disassembled!Among(s, c)' = Disassembled!Among(s, c)
  BY <1>1 DEF Disassembled!Among
<1>5. Disassembled!TransferEdges' = Disassembled!TransferEdges
  BY <1>1, <1>3, <1>4 DEF Disassembled!TransferEdges
<1>6. \A c : Disassembled!OfClass(c)' = Disassembled!OfClass(c)
  BY <1>3, <1>4 DEF Disassembled!OfClass
<1>7. Disassembled!RunOnEdges' = Disassembled!RunOnEdges
  BY <1>5, <1>6 DEF Disassembled!RunOnEdges
<1>8. \A t : Disassembled!LoopsBackTo(t)' = Disassembled!LoopsBackTo(t)
  BY <1>1, <1>6 DEF Disassembled!LoopsBackTo
<1>9. Disassembled!Unsplit' = Disassembled!Unsplit
  BY <1>7, <1>8 DEF Disassembled!Unsplit
<1>10. NativeEdges' = NativeEdges BY <1>5, <1>7, <1>9 DEF NativeEdges
<1>11. Created' = Created
  BY <1>10 DEF Created, NativeBlock, InFunction
<1>12. \A a, o : Length(a)' = Length(a) /\ Insn(a, o)' = Insn(a, o) BY DEF Length, Insn
<1>13. \A a : Class(a)' = Class(a) /\ Target(a)' = Target(a) BY DEF Class, Target
<1>14. \A a, o : FlowOut(a, o)' = FlowOut(a, o) BY <1>12 DEF FlowOut
<1>15. \A a, o : JumpOut(a, o)' = JumpOut(a, o) BY <1>12, <1>13 DEF JumpOut, Whither
<1>16. \A a, o : Out(a, o)' = Out(a, o) BY <1>14, <1>15 DEF Out
<1>17. Made' = Made BY <1>11, <1>12, <1>16 DEF Made
<1>18. NativeGraph' = NativeGraph BY <1>10 DEF NativeGraph
<1>19. Reil' = Reil BY DEF Reil
<1> QED BY <1>10, <1>17, <1>18, <1>19 DEF Coded

-----------------------------------------------------------------------------
(* States.                                                                 *)

IsState(s) ==
  /\ s = [p \in DOMAIN s |-> s[p]] /\ DOMAIN s \subseteq Places
  /\ \A p \in DOMAIN s : s[p] \in Pointers

LEMMA PlacesAre ==
  /\ \A p \in Places : p[1] \in {"reg", "tmp"} /\ p \in Operands
  /\ \A p \in Operands : p \in Places \/ (p[1] = "imm" /\ p[2] \in Values)
BY DEF Places, Operands

LEMMA PointersAre ==
  \A v : v \in Pointers <=> v = {} \/ \E c \in Values : v = {c}
BY DEF Pointers

LEMMA GetOperandIs ==
  ASSUME NEW s, IsState(s), NEW operand \in Operands
  PROVE  /\ GetOperand(s, operand) \in Pointers
         /\ operand \in DOMAIN s => GetOperand(s, operand) = s[operand]
         /\ operand \notin DOMAIN s /\ operand[1] # "imm" => GetOperand(s, operand) = {}
         /\ operand[1] = "imm" => GetOperand(s, operand) = {operand[2]} /\ operand[2] \in Values
<1>1. CASE operand \in Places
  <2>1. operand[1] \in {"reg", "tmp"} BY <1>1, PlacesAre
  <2>2. operand \in DOMAIN s => s[operand] \in Pointers BY DEF IsState
  <2>3. operand \in DOMAIN s => GetOperand(s, operand) = s[operand] BY <2>1 DEF GetOperand
  <2>4. operand \notin DOMAIN s => GetOperand(s, operand) = {} BY <2>1 DEF GetOperand
  <2> QED BY <2>1, <2>2, <2>3, <2>4, PointersAre
<1>2. CASE operand[1] = "imm" /\ operand[2] \in Values
  <2>1. GetOperand(s, operand) = {operand[2]} BY <1>2 DEF GetOperand
  <2>2. operand \notin DOMAIN s BY <1>2, PlacesAre DEF IsState
  <2> QED BY <1>2, <2>1, <2>2, PointersAre
<1> QED BY <1>1, <1>2, PlacesAre

LEMMA SetOperandIs ==
  ASSUME NEW s, IsState(s), NEW operand \in Places, NEW v \in Pointers
  PROVE  /\ IsState(SetOperand(s, operand, v))
         /\ DOMAIN SetOperand(s, operand, v) = DOMAIN s \cup {operand}
BY DEF IsState, SetOperand

LEMMA MergeIs ==
  ASSUME NEW S, \A s \in S : IsState(s)
  PROVE  /\ IsState(Merge(S))
         /\ DOMAIN Merge(S) = UNION {DOMAIN s : s \in S}
         /\ \A s \in S : \A p \in DOMAIN s : Merge(S)[p] \in {{}, s[p]}
         /\ \A s : S = {s} => Merge(S) = s
<1> DEFINE D == UNION {DOMAIN s : s \in S}
           Of(p) == {s[p] : s \in {t \in S : p \in DOMAIN t}}
           M(p) == IF \A v, w \in Of(p) : v = w THEN UNION Of(p) ELSE {}
<1>1. Merge(S) = [p \in D |-> M(p)] BY DEF Merge
<1>2. ASSUME NEW s \in S, NEW p \in DOMAIN s
      PROVE  p \in D /\ M(p) \in {{}, s[p]} /\ M(p) \in Pointers
  <2>1. s[p] \in Of(p) OBVIOUS
  <2>2. s[p] \in Pointers BY DEF IsState
  <2> HIDE DEF Of
  <2>3. (\A v, w \in Of(p) : v = w) => Of(p) = {s[p]} BY <2>1
  <2>4. (\A v, w \in Of(p) : v = w) => UNION Of(p) = s[p] BY <2>3
  <2> QED BY <2>2, <2>4, PointersAre
<1>3. \A p \in D : p \in Places /\ M(p) \in Pointers
  <2> HIDE DEF M
  <2> QED BY <1>2 DEF IsState
<1>4. ASSUME NEW s, S = {s} PROVE Merge(S) = s
  <2>1. D = DOMAIN s BY <1>4
  <2>2. \A p \in DOMAIN s : M(p) = s[p]
    <3> TAKE p \in DOMAIN s
    <3>1. Of(p) = {s[p]} BY <1>4
    <3> HIDE DEF Of
    <3>2. UNION Of(p) = s[p] BY <3>1
    <3> QED BY <3>1, <3>2
  <2>3. s = [p \in DOMAIN s |-> s[p]] BY <1>4 DEF IsState
  <2> HIDE DEF M, D
  <2> QED BY <1>1, <2>1, <2>2, <2>3
<1> HIDE DEF M, D
<1>5. IsState(Merge(S)) BY <1>1, <1>3 DEF IsState
<1>6. \A s \in S : \A p \in DOMAIN s : Merge(S)[p] \in {{}, s[p]} BY <1>1, <1>2
<1> QED BY <1>1, <1>4, <1>5, <1>6 DEF D

LEMMA ComputeIs ==
  ASSUME NEW opcode \in BinaryOpcodes, NEW a \in Values, NEW b \in Values
  PROVE  Compute(opcode, a, b) \in Values
<1>1. 0 \in Values /\ 1 \in Values /\ Modulus \in Nat /\ Modulus > 1 /\ a \in Int /\ b \in Int
  BY Numbers
<1>2. \A c \in Int : (c % Modulus) \in Values
  <2>1. \A c \in Int : (c % Modulus) \in 0 .. Modulus - 1 BY <1>1
  <2> QED BY <2>1, Numbers
<1>3. a + b \in Int /\ a - b \in Int BY <1>1
<1>4. CASE opcode = "Add" BY <1>2, <1>3, <1>4 DEF Compute
<1>5. CASE opcode = "Sub" BY <1>2, <1>3, <1>5 DEF Compute
<1>6. CASE opcode = "Equ" BY <1>1, <1>6 DEF Compute
<1> QED BY <1>4, <1>5, <1>6 DEF BinaryOpcodes

\* What a state says of an operand, combined.
LEMMA BinaryIs ==
  ASSUME NEW opcode \in BinaryOpcodes, NEW v \in Pointers, NEW w \in Pointers
  PROVE  /\ {Compute(opcode, a, b) : a \in v, b \in w} \in Pointers
         /\ \A c, d : v = {c} /\ w = {d} =>
              {Compute(opcode, a, b) : a \in v, b \in w} = {Compute(opcode, c, d)}
<1>1. \A c, d : v = {c} /\ w = {d} =>
              {Compute(opcode, a, b) : a \in v, b \in w} = {Compute(opcode, c, d)}
  OBVIOUS
<1>2. CASE v = {} \/ w = {}
  <2>1. {Compute(opcode, a, b) : a \in v, b \in w} = {} BY <1>2
  <2> QED BY <1>1, <2>1, PointersAre
<1>3. CASE \E c, d \in Values : v = {c} /\ w = {d}
  <2>1. PICK c, d \in Values : v = {c} /\ w = {d} BY <1>3
  <2>2. Compute(opcode, c, d) \in Values BY ComputeIs
  <2> QED BY <1>1, <2>1, <2>2, PointersAre
<1> QED BY <1>2, <1>3, PointersAre

LEMMA ImageValueIs ==
  ASSUME NEW a
  PROVE  /\ ImageValue(a) \in Pointers
         /\ ImageValue(a) # {} => a \in DOMAIN Image /\ ImageValue(a) = {Image[a].value}
<1>1. CASE a \in DOMAIN Image /\ Image[a].writable
  <2>1. ImageValue(a) = {Image[a].value} BY <1>1 DEF ImageValue
  <2> QED BY <1>1, <2>1, ImageAssumption, PointersAre
<1>2. CASE ~(a \in DOMAIN Image /\ Image[a].writable)
  <2>1. ImageValue(a) = {} BY <1>2 DEF ImageValue
  <2> QED BY <2>1, PointersAre
<1> QED BY <1>1, <1>2

\* Where a jump's operand may be written.
Assigns(ri, e) ==
  ri.opcode = "Jcc" /\ e.kind = "kNativeJump" /\ ri.input0[1] # "imm"
Fits(ri, e) ==
  Operates(ri) /\ (Assigns(ri, e) => ri.output \in Places /\ AddressOf(e.target) \in Values)

LEMMA TransformStateIs ==
  ASSUME NEW s, IsState(s), NEW ri, NEW e, Fits(ri, e)
  PROVE  /\ IsState(TransformState(s, ri, e))
         /\ DOMAIN TransformState(s, ri, e)
              \subseteq DOMAIN s \cup Writes(ri) \cup (IF Assigns(ri, e) THEN {ri.output} ELSE {})
<1> DEFINE T == TransformState(s, ri, e)
<1>1. /\ ri.opcode \in Writing \cup {"Stm", "Jcc", "Nop", "Unkn", "Sys"}
      /\ Reads(ri) \subseteq Operands /\ Writes(ri) \subseteq Places
  BY DEF Fits, Operates
<1>2. ri.opcode \in Writing => ri.output \in Places /\ Writes(ri) = {ri.output}
  BY <1>1 DEF Writes
<1>3. ASSUME NEW v \in Pointers, ri.opcode \in Writing, T = SetOperand(s, ri.output, v)
      PROVE  IsState(T) /\ DOMAIN T \subseteq DOMAIN s \cup Writes(ri)
  <2>1. ri.output \in Places /\ Writes(ri) = {ri.output} BY <1>2, <1>3
  <2>2. /\ IsState(SetOperand(s, ri.output, v))
        /\ DOMAIN SetOperand(s, ri.output, v) = DOMAIN s \cup {ri.output}
    BY <2>1, SetOperandIs
  <2> HIDE DEF T
  <2> QED BY <1>3, <2>1, <2>2
<1>4. CASE ri.opcode \in BinaryOpcodes
  <2>1. ri.input0 \in Operands /\ ri.input1 \in Operands BY <1>1, <1>4 DEF Reads, BinaryOpcodes
  <2> DEFINE v == {Compute(ri.opcode, a, b) :
                     a \in GetOperand(s, ri.input0), b \in GetOperand(s, ri.input1)}
  <2>2. v \in Pointers
    <3>1. GetOperand(s, ri.input0) \in Pointers /\ GetOperand(s, ri.input1) \in Pointers
      BY <2>1, GetOperandIs
    <3> QED BY <1>4, <3>1, BinaryIs
  <2>3. T = SetOperand(s, ri.output, v) BY <1>4 DEF TransformState, TransformBinary, BinaryOpcodes
  <2> QED BY <1>3, <1>4, <2>2, <2>3 DEF Writing
<1>5. CASE ri.opcode \in {"Str", "Sex"}
  <2>1. ri.input0 \in Operands BY <1>1, <1>5 DEF Reads, BinaryOpcodes
  <2>2. T = SetOperand(s, ri.output, GetOperand(s, ri.input0))
    BY <1>5 DEF TransformState, TransformStr, BinaryOpcodes
  <2> QED BY <1>3, <1>5, <2>1, <2>2, GetOperandIs DEF Writing
<1>6. CASE ri.opcode = "Ite"
  <2>1. ri.input0 \in Operands /\ ri.input1 \in Operands /\ ri.input2 \in Operands
    BY <1>1, <1>6 DEF Reads, BinaryOpcodes
  <2>2. /\ GetOperand(s, ri.input0) \in Pointers /\ GetOperand(s, ri.input1) \in Pointers
        /\ GetOperand(s, ri.input2) \in Pointers
    BY <2>1, GetOperandIs
  <2> DEFINE v == CASE GetOperand(s, ri.input0) = {}  ->
                         GetOperand(s, ri.input1) \cap GetOperand(s, ri.input2)
                    [] GetOperand(s, ri.input0) = {0} -> GetOperand(s, ri.input2)
                    [] OTHER                          -> GetOperand(s, ri.input1)
  <2>3. \A u, w \in Pointers : u \cap w \in Pointers
    <3>1. \A u, w \in Pointers : u \cap w = {} \/ u \cap w = u BY PointersAre
    <3> QED BY <3>1, PointersAre
  <2>4. v \in Pointers BY <2>2, <2>3
  <2>5. T = SetOperand(s, ri.output, v) BY <1>6 DEF TransformState, TransformIte, BinaryOpcodes
  <2> QED BY <1>3, <1>6, <2>4, <2>5 DEF Writing
<1>7. CASE ri.opcode = "Ldm"
  <2> DEFINE v == UNION {ImageValue(a) : a \in GetOperand(s, ri.input0)}
  <2>1. ri.input0 \in Operands BY <1>1, <1>7 DEF Reads, BinaryOpcodes
  <2>2. GetOperand(s, ri.input0) \in Pointers BY <2>1, GetOperandIs
  <2>3. v \in Pointers
    <3>1. CASE GetOperand(s, ri.input0) = {}
      <4>1. v = {} BY <3>1
      <4> QED BY <4>1, PointersAre
    <3>2. CASE \E c \in Values : GetOperand(s, ri.input0) = {c}
      <4>1. PICK c \in Values : GetOperand(s, ri.input0) = {c} BY <3>2
      <4>2. v = ImageValue(c) BY <4>1
      <4> QED BY <4>2, ImageValueIs
    <3> QED BY <2>2, <3>1, <3>2, PointersAre
  <2>4. T = s \/ T = SetOperand(s, ri.output, v)
    BY <1>7 DEF TransformState, TransformLdm, BinaryOpcodes
  <2> QED BY <1>3, <1>7, <2>3, <2>4 DEF Writing
<1>8. CASE ri.opcode = "Jcc"
  <2>1. T = TransformJcc(s, ri, e) BY <1>8 DEF TransformState, BinaryOpcodes
  <2>2. ri.input0 \in Operands BY <1>1, <1>8 DEF Reads, BinaryOpcodes
  <2>3. CASE GetOperand(s, ri.input0) = {} /\ e.kind = "kNativeJump"
    <3>1. ri.input0[1] # "imm" BY <2>2, <2>3, GetOperandIs
    <3>2. Assigns(ri, e) BY <1>8, <2>3, <3>1 DEF Assigns
    <3>3. ri.output \in Places /\ {AddressOf(e.target)} \in Pointers
      BY <3>2, PointersAre DEF Fits
    <3> DEFINE w == {AddressOf(e.target)}
    <3>4. T = SetOperand(s, ri.output, w) BY <2>1, <2>3 DEF TransformJcc
    <3>5. /\ IsState(SetOperand(s, ri.output, w))
          /\ DOMAIN SetOperand(s, ri.output, w) = DOMAIN s \cup {ri.output}
      BY <3>3, SetOperandIs
    <3> HIDE DEF w
    <3> QED BY <3>2, <3>4, <3>5
  <2>4. CASE ~(GetOperand(s, ri.input0) = {} /\ e.kind = "kNativeJump")
    BY <2>1, <2>4 DEF TransformJcc
  <2> QED BY <2>3, <2>4
<1>9. CASE ri.opcode \in {"Nop", "Stm"}
  BY <1>9 DEF TransformState, BinaryOpcodes
<1>10. CASE ri.opcode = "Unkn"
  <2>1. T = Clear BY <1>10 DEF TransformState, BinaryOpcodes
  <2> QED BY <2>1 DEF Clear, IsState
<1>11. CASE ri.opcode = "Sys"
  <2>1. T = ClearOperand(s, Reg(X0)) BY <1>11 DEF TransformState, BinaryOpcodes
  <2> QED BY <2>1 DEF ClearOperand, IsState
<1> QED BY <1>1, <1>4, <1>5, <1>6, <1>7, <1>8, <1>9, <1>10, <1>11 DEF Writing

LEMMA ClearTemporariesIs ==
  ASSUME NEW s, IsState(s)
  PROVE  /\ IsState(ClearTemporaries(s))
         /\ DOMAIN ClearTemporaries(s) = {p \in DOMAIN s : ~Temporary(p)}
         /\ \A p \in DOMAIN ClearTemporaries(s) : ClearTemporaries(s)[p] = s[p]
BY DEF IsState, ClearTemporaries, Temporary

-----------------------------------------------------------------------------
(* The states along a block.                                               *)

Move(reil, s, n) == Transform(s, InstructionAt(reil, n), Edge(n, n + 1, "kFlow"))
Walk(reil, S, start, node, g) ==
  [n \in start .. node |-> IF n = start THEN Merge(S) ELSE Move(reil, g[n - 1], n - 1)]
Fill(reil, S, start, node) ==
  LET state == CHOOSE g : g = Walk(reil, S, start, node, g) IN state[node]

LEMMA AtIs ==
  ASSUME NEW node \in Nat, NEW start \in Nat, BasicBlockStart(flow_graph, node) = start
  PROVE  At(node) = Fill(Reil, StatesInto(start), start, node)
<1> DEFINE f == CHOOSE g : g = [n \in start .. node |->
                   IF n = start THEN Merge(StatesInto(start))
                   ELSE Transform(g[n - 1], Ri(n - 1), Edge(n - 1, n, "kFlow"))]
<1>1. At(node) = f[node] BY DEF At
<1>2. \A g : [n \in start .. node |->
                IF n = start THEN Merge(StatesInto(start))
                ELSE Transform(g[n - 1], Ri(n - 1), Edge(n - 1, n, "kFlow"))]
             = Walk(Reil, StatesInto(start), start, node, g)
  <2> TAKE g
  <2>1. \A n \in start .. node : (n - 1) + 1 = n OBVIOUS
  <2> QED BY <2>1 DEF Walk, Move, Ri
<1>3. f = CHOOSE g : g = Walk(Reil, StatesInto(start), start, node, g)
  BY <1>2
<1> QED BY <1>1, <1>3 DEF Fill

LEMMA WalkExists ==
  ASSUME NEW reil, NEW S, NEW start \in Nat, NEW node \in Nat, start <= node
  PROVE  \E g : g = Walk(reil, S, start, node, g)
<1> DEFINE Fails(n) == start <= n /\ ~\E g : g = Walk(reil, S, start, n, g)
           B == {n \in Nat : Fails(n)}
<1> SUFFICES ASSUME B # {} PROVE FALSE OBVIOUS
<1>1. PICK m \in B : \A k \in B : m <= k
  <2>1. B \in SUBSET Nat OBVIOUS
  <2> QED BY <2>1, Least
<1>2. CASE m = start
  <2> DEFINE g == [n \in start .. m |-> Merge(S)]
  <2>1. \A n \in start .. m : n = start BY <1>2
  <2>2. g = Walk(reil, S, start, m, g) BY <2>1 DEF Walk
  <2> QED BY <1>1, <2>2
<1>3. CASE m # start
  <2>1. m - 1 \in Nat /\ start <= m - 1 /\ m - 1 \notin B BY <1>1, <1>3
  <2>2. PICK h : h = Walk(reil, S, start, m - 1, h) BY <2>1
  <2> DEFINE g == [n \in start .. m |-> IF n = m THEN Move(reil, h[m - 1], m - 1) ELSE h[n]]
  <2>3. \A n \in start .. m - 1 :
          h[n] = IF n = start THEN Merge(S) ELSE Move(reil, h[n - 1], n - 1)
    BY <2>2 DEF Walk
  <2>4. \A n \in start .. m :
          g[n] = IF n = start THEN Merge(S) ELSE Move(reil, g[n - 1], n - 1)
    <3> TAKE n \in start .. m
    <3>1. CASE n = m
      <4>1. m - 1 \in start .. m /\ m - 1 # m BY <2>1
      <4>2. g[m - 1] = h[m - 1] /\ g[m] = Move(reil, h[m - 1], m - 1) BY <3>1, <4>1
      <4> QED BY <1>3, <3>1, <4>2
    <3>2. CASE n # m
      <4>1. n \in start .. m - 1 BY <2>1, <3>2
      <4>2. n # start => n - 1 \in start .. m /\ n - 1 # m BY <4>1
      <4>3. n # start => g[n - 1] = h[n - 1] BY <4>2
      <4>4. g[n] = h[n] BY <3>2
      <4> HIDE DEF g
      <4> QED BY <2>3, <4>1, <4>3, <4>4
    <3> QED BY <3>1, <3>2
  <2>5. g = [n \in start .. m |-> g[n]] OBVIOUS
  <2> HIDE DEF g
  <2>6. g = Walk(reil, S, start, m, g) BY <2>4, <2>5 DEF Walk
  <2> QED BY <1>1, <2>6
<1> QED BY <1>2, <1>3

LEMMA WalkUnique ==
  ASSUME NEW reil, NEW S, NEW start \in Nat, NEW n \in Nat, NEW m \in Nat, n <= m,
         NEW g, g = Walk(reil, S, start, n, g), NEW h, h = Walk(reil, S, start, m, h)
  PROVE  \A k \in start .. n : g[k] = h[k]
<1> DEFINE B == {k \in start .. n : g[k] # h[k]}
<1> SUFFICES ASSUME B # {} PROVE FALSE OBVIOUS
<1>1. PICK k \in B : \A j \in B : k <= j
  <2>1. B \in SUBSET Nat OBVIOUS
  <2> QED BY <2>1, Least
<1>2. \A j \in start .. n :
        g[j] = IF j = start THEN Merge(S) ELSE Move(reil, g[j - 1], j - 1)
  BY DEF Walk
<1>3. \A j \in start .. m :
        h[j] = IF j = start THEN Merge(S) ELSE Move(reil, h[j - 1], j - 1)
  BY DEF Walk
<1>4. k \in start .. n /\ k \in start .. m OBVIOUS
<1>5. k # start => k - 1 \in start .. n /\ k - 1 \notin B
  BY <1>1, <1>4
<1>6. k # start => g[k - 1] = h[k - 1] BY <1>5
<1>7. g[k] = h[k] BY <1>2, <1>3, <1>4, <1>6
<1> QED BY <1>7

\* The equations of AtImpl.
LEMMA FillIs ==
  ASSUME NEW reil, NEW S, NEW start \in Nat
  PROVE  /\ Fill(reil, S, start, start) = Merge(S)
         /\ \A n \in Nat : start <= n =>
              Fill(reil, S, start, n + 1) = Move(reil, Fill(reil, S, start, n), n)
<1> DEFINE f(n) == CHOOSE g : g = Walk(reil, S, start, n, g)
<1>1. \A n \in Nat : start <= n => f(n) = Walk(reil, S, start, n, f(n))
  BY WalkExists, Zenon
<1>2. \A n : Fill(reil, S, start, n) = f(n)[n] BY DEF Fill
<1> HIDE DEF f
<1>3. f(start)[start] = Merge(S)
  <2>1. start \in start .. start OBVIOUS
  <2>2. f(start) = Walk(reil, S, start, start, f(start)) BY <1>1
  <2> QED BY <2>1, <2>2 DEF Walk
<1>4. ASSUME NEW n \in Nat, start <= n
      PROVE  f(n + 1)[n + 1] = Move(reil, f(n)[n], n)
  <2>1. n + 1 \in Nat /\ n + 1 \in start .. n + 1 /\ n \in start .. n /\ n <= n + 1
        /\ start <= n + 1 /\ n + 1 # start /\ (n + 1) - 1 = n
    BY <1>4
  <2>2. f(n + 1) = Walk(reil, S, start, n + 1, f(n + 1)) BY <1>1, <2>1
  <2>3. f(n) = Walk(reil, S, start, n, f(n)) BY <1>1, <1>4
  <2>4. f(n)[n] = f(n + 1)[n] BY <2>1, <2>2, <2>3, WalkUnique
  <2>5. f(n + 1)[n + 1] = Move(reil, f(n + 1)[n], n) BY <2>1, <2>2 DEF Walk
  <2> QED BY <2>4, <2>5
<1> QED BY <1>2, <1>3, <1>4

\* Temporaries in a state have been written in front, in the same native instruction.
Written(reil, a, o) == UNION {Writes(reil[a][j]) : j \in 1 .. o}
Before(reil, s, n) ==
  /\ IsState(s)
  /\ \A p \in DOMAIN s : Temporary(p) => p \in Written(reil, AddressOf(n), OffsetOf(n))
OnEdge(reil, s, e) ==
  /\ IsState(s)
  /\ \A p \in DOMAIN s : Temporary(p) =>
       /\ e.kind \notin NativeKinds
       /\ p \in Written(reil, AddressOf(e.source), OffsetOf(e.source) + 1)

LEMMA WrittenIs ==
  ASSUME NEW reil, NEW a, NEW o \in Nat, NEW q \in Nat, o <= q
  PROVE  /\ Written(reil, a, o) \subseteq Written(reil, a, q)
         /\ Written(reil, a, o + 1) = Written(reil, a, o) \cup Writes(reil[a][o + 1])
<1>1. 1 .. o \subseteq 1 .. q /\ 1 .. o + 1 = 1 .. o \cup {o + 1} OBVIOUS
<1>2. Written(reil, a, o) \subseteq Written(reil, a, q)
  <2> SUFFICES ASSUME NEW p \in Written(reil, a, o) PROVE p \in Written(reil, a, q) OBVIOUS
  <2>1. PICK j \in 1 .. o : p \in Writes(reil[a][j]) BY DEF Written
  <2> QED BY <1>1, <2>1 DEF Written
<1>3. \A p : p \in Written(reil, a, o + 1) <=> \E j \in 1 .. o + 1 : p \in Writes(reil[a][j])
  BY DEF Written
<1>4. \A p : p \in Written(reil, a, o) <=> \E j \in 1 .. o : p \in Writes(reil[a][j])
  BY DEF Written
<1> QED BY <1>1, <1>2, <1>3, <1>4

\* What an instruction makes of a state, on an edge out of it.
LEMMA TransformOn ==
  ASSUME Coded, NEW a \in Code, NEW o \in 0 .. Length(a) - 1, NEW e, OutOf(a, o, e),
         NEW s, Before(Reil, s, Node(a, o))
  PROVE  /\ Fits(Insn(a, o), e)
         /\ IsState(TransformState(s, Insn(a, o), e))
         /\ OnEdge(Reil, Transform(s, Insn(a, o), e), e)
<1> DEFINE ri == Insn(a, o)
           T == TransformState(s, ri, e)
<1>1. /\ o \in 0 .. Width - 1 /\ a \in Nat /\ Operates(ri) /\ o \in Nat
      /\ AddressOf(Node(a, o)) = a /\ OffsetOf(Node(a, o)) = o
  <2>1. o \in 0 .. Width - 1 /\ a \in Nat /\ Operates(ri) /\ o \in Nat BY InsnIs, Numbers
  <2> QED BY <2>1, NodeParts
<1>2. Fits(ri, e)
  <2> SUFFICES ASSUME Assigns(ri, e)
      PROVE  ri.output \in Places /\ AddressOf(e.target) \in Values
    BY <1>1 DEF Fits
  <2>1. ~Within(ri) /\ e.target = Node(Whither(a), 0) BY DEF OutOf, Assigns, NativeKinds
  <2>2. Whither(a) \in Address /\ Whither(a) \in Nat BY WhitherIs
  <2>3. AddressOf(e.target) = Whither(a)
    <3>1. 0 \in 0 .. Width - 1 BY Numbers
    <3> QED BY <2>1, <2>2, <3>1, NodeParts
  <2>4. ri.output \in Places BY <2>1, InsnIs DEF Assigns
  <2> QED BY <2>2, <2>3, <2>4, Numbers
<1>3. IsState(s) BY DEF Before
<1>4. /\ IsState(T)
      /\ DOMAIN T \subseteq DOMAIN s \cup Writes(ri) \cup (IF Assigns(ri, e) THEN {ri.output} ELSE {})
  BY <1>2, <1>3, TransformStateIs
<1>5. CASE e.kind \in NativeKinds
  <2>1. Transform(s, ri, e) = ClearTemporaries(T) BY <1>5 DEF Transform
  <2>2. IsState(ClearTemporaries(T)) /\ \A p \in DOMAIN ClearTemporaries(T) : ~Temporary(p)
    BY <1>4, ClearTemporariesIs
  <2> HIDE DEF T, ri
  <2>3. OnEdge(Reil, Transform(s, ri, e), e) BY <2>1, <2>2 DEF OnEdge
  <2> QED BY <1>2, <1>4, <2>3 DEF ri, T
<1>6. CASE e.kind \notin NativeKinds
  <2>1. Transform(s, ri, e) = T BY <1>6 DEF Transform
  <2>2. ~Assigns(ri, e) BY <1>6 DEF Assigns, NativeKinds
  <2>3. e.source = Node(a, o) BY DEF OutOf
  <2>4. Written(Reil, a, o + 1) = Written(Reil, a, o) \cup Writes(ri)
    <3>1. Reil[a][o + 1] = ri BY DEF Reil, Insn
    <3> QED BY <1>1, <3>1, WrittenIs
  <2>5. \A p \in DOMAIN s : Temporary(p) => p \in Written(Reil, a, o) BY <1>1 DEF Before
  <2> HIDE DEF T, ri
  <2>6. \A p \in DOMAIN T : Temporary(p) => p \in Written(Reil, a, o + 1)
    BY <1>4, <2>2, <2>4, <2>5
  <2>7. OnEdge(Reil, Transform(s, ri, e), e) BY <1>1, <1>4, <1>6, <2>1, <2>3, <2>6 DEF OnEdge
  <2> QED BY <1>2, <1>4, <2>7 DEF ri, T
<1> QED BY <1>5, <1>6

\* What comes over an edge to its target.
LEMMA OnTo ==
  ASSUME Coded, NEW e \in Made, NEW s, OnEdge(Reil, s, e)
  PROVE  Before(Reil, s, e.target)
<1> SUFFICES ASSUME NEW p \in DOMAIN s, Temporary(p)
    PROVE  p \in Written(Reil, AddressOf(e.target), OffsetOf(e.target))
  BY DEF OnEdge, Before
<1>1. /\ e.kind \notin NativeKinds
      /\ p \in Written(Reil, AddressOf(e.source), OffsetOf(e.source) + 1)
  BY DEF OnEdge
<1>2. e # Edge(0, Node(1, 0), "kNativeCall") BY <1>1, Fields DEF NativeKinds
<1>3. PICK a \in Created : \E o \in 0 .. Length(a) - 1 : OutOf(a, o, e) BY <1>2, MadeEdge
<1>4. PICK o \in 0 .. Length(a) - 1 : OutOf(a, o, e) BY <1>3
<1>5. a \in Code /\ a \in Nat /\ Length(a) \in Nat /\ o \in Nat /\ o \in 0 .. Width - 1
  BY CreatedReached, InsnIs
<1>6. PICK q \in 0 .. Length(a) - 1 : o + 1 <= q /\ e.target = Node(a, q)
  <2>1. CASE e.target = Node(a, o + 1) /\ o + 1 < Length(a)
    <3>1. o + 1 \in 0 .. Length(a) - 1 /\ o + 1 <= o + 1 BY <1>5, <2>1
    <3> QED BY <2>1, <3>1
  <2>2. CASE Within(Insn(a, o)) /\ e.target = Node(a, Insn(a, o).output[2])
    <3>1. Insn(a, o).output[2] \in o + 1 .. Length(a) - 1 BY <1>5, <2>2, InsnIs
    <3> QED BY <1>5, <2>2, <3>1
  <2> QED BY <1>1, <1>4, <2>1, <2>2 DEF OutOf
<1>7. q \in 0 .. Width - 1 /\ q \in Nat /\ o + 1 \in Nat BY <1>5, InsnIs
<1>8. AddressOf(e.target) = a /\ OffsetOf(e.target) = q BY <1>5, <1>6, <1>7, NodeParts
<1>9. AddressOf(e.source) = a /\ OffsetOf(e.source) = o BY <1>4, <1>5, NodeParts DEF OutOf
<1>10. Written(Reil, a, o + 1) \subseteq Written(Reil, a, q) BY <1>6, <1>7, WrittenIs
<1> QED BY <1>1, <1>8, <1>9, <1>10

LEMMA InBlockIs ==
  ASSUME Coded, NEW x, NEW y, NEW a, NEW o, NEW q, InBlock(x, y, a, o, q)
  PROVE  /\ a \in Code /\ a \in Nat /\ o \in Nat /\ q \in Nat /\ Length(a) \in Nat
         /\ x \in Nat /\ y \in Nat /\ x # 0 /\ y # 0 /\ x <= y
         /\ \A k \in o .. q : /\ k \in 0 .. Length(a) - 1 /\ k \in 0 .. Width - 1 /\ k \in Nat
                              /\ Node(a, k) \in Nat /\ x <= Node(a, k)
                              /\ AddressOf(Node(a, k)) = a /\ OffsetOf(Node(a, k)) = k
                              /\ Ri(Node(a, k)) = Insn(a, k)
         /\ \A k \in o .. q - 1 : /\ Node(a, k + 1) = Node(a, k) + 1
                                  /\ k \in o .. q /\ k + 1 \in o .. q
         /\ o \in o .. q /\ q \in o .. q
<1>1. a \in Code /\ a \in Nat /\ Length(a) \in Nat BY CreatedReached, InsnIs DEF InBlock
<1>2. o \in Nat /\ q \in Nat /\ o <= q /\ x = Node(a, o) /\ y = Node(a, q)
      /\ o \in 0 .. Length(a) - 1 /\ q \in 0 .. Length(a) - 1
  BY <1>1 DEF InBlock
<1>3. ASSUME NEW k \in o .. q
      PROVE  /\ k \in 0 .. Length(a) - 1 /\ k \in 0 .. Width - 1 /\ k \in Nat
             /\ Node(a, k) \in Nat /\ Node(a, k) # 0 /\ x <= Node(a, k)
             /\ AddressOf(Node(a, k)) = a /\ OffsetOf(Node(a, k)) = k
             /\ Ri(Node(a, k)) = Insn(a, k)
  <2>1. k \in 0 .. Length(a) - 1 /\ k \in Nat /\ o <= k BY <1>1, <1>2
  <2>2. k \in 0 .. Width - 1 /\ o \in 0 .. Width - 1 BY <1>1, <1>2, <2>1, InsnIs
  <2> QED BY <1>1, <1>2, <2>1, <2>2, InsnIs, NodeParts, NodeOrder
<1>4. ASSUME NEW k \in o .. q - 1
      PROVE  /\ Node(a, k + 1) = Node(a, k) + 1
             /\ k \in o .. q /\ k + 1 \in o .. q
  <2>1. k \in o .. q /\ k + 1 \in o .. q /\ k < k + 1 BY <1>2
  <2>2. k \in 0 .. Width - 1 /\ k + 1 \in 0 .. Width - 1 BY <1>3, <2>1
  <2> QED BY <1>1, <2>1, <2>2, Consecutive
<1>5. o \in o .. q /\ q \in o .. q BY <1>2
<1>6. x <= y /\ x # 0 /\ y # 0 /\ x \in Nat /\ y \in Nat BY <1>2, <1>3, <1>5
<1> QED BY <1>1, <1>2, <1>3, <1>4, <1>5, <1>6

\* The states along a block, one instruction after the other.
Along(S, a, o, k) == Fill(Reil, S, Node(a, o), Node(a, k))

LEMMA AlongIs ==
  ASSUME Coded, NEW x, NEW y, NEW a, NEW o, NEW q, InBlock(x, y, a, o, q), NEW S
  PROVE  /\ Along(S, a, o, o) = Merge(S)
         /\ \A k \in o .. q - 1 :
              /\ Insn(a, k).opcode # "Jcc"
              /\ Along(S, a, o, k + 1)
                 = TransformState(Along(S, a, o, k), Insn(a, k),
                                  Edge(Node(a, k), Node(a, k) + 1, "kFlow"))
<1>1. Along(S, a, o, o) = Merge(S) BY InBlockIs, FillIs DEF Along, InBlock
<1>2. ASSUME NEW k \in o .. q - 1
      PROVE  Along(S, a, o, k + 1)
             = TransformState(Along(S, a, o, k), Insn(a, k),
                              Edge(Node(a, k), Node(a, k) + 1, "kFlow"))
  <2>1. /\ Node(a, k) \in Nat /\ x <= Node(a, k) /\ Node(a, k + 1) = Node(a, k) + 1
        /\ Ri(Node(a, k)) = Insn(a, k) /\ x \in Nat /\ x = Node(a, o)
    <3>1. k \in o .. q BY InBlockIs
    <3> QED BY <3>1, InBlockIs DEF InBlock
  <2>2. Along(S, a, o, k + 1) = Move(Reil, Along(S, a, o, k), Node(a, k))
    <3> DEFINE n == Node(a, k)
    <3>1. Fill(Reil, S, x, n + 1) = Move(Reil, Fill(Reil, S, x, n), n)
      <4> HIDE DEF n
      <4>1. n \in Nat /\ x <= n /\ x \in Nat BY <2>1 DEF n
      <4> QED BY <4>1, FillIs
    <3> QED BY <2>1, <3>1 DEF Along
  <2>3. "kFlow" \notin NativeKinds BY DEF NativeKinds
  <2> QED BY <2>1, <2>2, <2>3, Fields DEF Move, Transform, Ri
<1> QED BY <1>1, <1>2 DEF InBlock

LEMMA AlongBefore ==
  ASSUME Coded, NEW x, NEW y, NEW a, NEW o, NEW q, InBlock(x, y, a, o, q),
         NEW S, \A s \in S : Before(Reil, s, x)
  PROVE  \A k \in o .. q : Before(Reil, Along(S, a, o, k), Node(a, k))
<1> DEFINE B == {k \in o .. q : ~Before(Reil, Along(S, a, o, k), Node(a, k))}
<1> SUFFICES ASSUME B # {} PROVE FALSE OBVIOUS
<1>1. o \in Nat /\ q \in Nat BY InBlockIs
<1>2. PICK k \in B : \A j \in B : k <= j
  <2>1. B \in SUBSET Nat BY <1>1
  <2> QED BY <2>1, Least
<1>3. CASE k = o
  <2>1. \A s \in S : IsState(s) BY DEF Before
  <2>2. /\ IsState(Merge(S)) /\ DOMAIN Merge(S) = UNION {DOMAIN s : s \in S}
    BY <2>1, MergeIs
  <2>3. Before(Reil, Merge(S), x) BY <2>2 DEF Before
  <2>4. x = Node(a, o) BY DEF InBlock
  <2> QED BY <1>2, <1>3, <2>3, <2>4, AlongIs
<1>4. CASE k # o
  <2> DEFINE j == k - 1
             s == Along(S, a, o, j)
             e == Edge(Node(a, j), Node(a, j) + 1, "kFlow")
             T == TransformState(s, Insn(a, j), e)
  <2>1. j \in o .. q /\ j \in o .. q - 1 /\ j + 1 = k /\ j \notin B BY <1>1, <1>2, <1>4
  <2>2. Before(Reil, s, Node(a, j)) BY <2>1
  <2>3. Along(S, a, o, k) = T /\ Insn(a, j).opcode # "Jcc" BY <2>1, AlongIs
  <2>4. /\ a \in Code /\ j \in 0 .. Length(a) - 1 /\ j \in Nat
        /\ AddressOf(Node(a, j)) = a /\ OffsetOf(Node(a, j)) = j
        /\ AddressOf(Node(a, k)) = a /\ OffsetOf(Node(a, k)) = k
    BY <2>1, InBlockIs
  <2>5. Fits(Insn(a, j), e) /\ ~Assigns(Insn(a, j), e) BY <2>3, <2>4, InsnIs DEF Fits, Assigns
  <2>6. IsState(s) BY <2>2 DEF Before
  <2>7. IsState(T) /\ DOMAIN T \subseteq DOMAIN s \cup Writes(Insn(a, j))
    BY <2>5, <2>6, TransformStateIs
  <2>8. Written(Reil, a, k) = Written(Reil, a, j) \cup Writes(Insn(a, j))
    <3>1. Reil[a][j + 1] = Insn(a, j) BY <2>4 DEF Reil, Insn
    <3>2. Written(Reil, a, j + 1) = Written(Reil, a, j) \cup Writes(Reil[a][j + 1])
      BY <2>4, WrittenIs
    <3> QED BY <2>1, <3>1, <3>2
  <2>9. \A p \in DOMAIN s : Temporary(p) => p \in Written(Reil, a, j) BY <2>2, <2>4 DEF Before
  <2>10. Before(Reil, T, Node(a, k))
    <3> HIDE DEF T, s
    <3> QED BY <2>4, <2>7, <2>8, <2>9 DEF Before
  <2> QED BY <1>2, <2>3, <2>10
<1> QED BY <1>3, <1>4

-----------------------------------------------------------------------------
(* What the analysis keeps.                                                *)

\* The states on the edges into a node, and those on edges that are followed.
Into(es, node) == {es[e] : e \in {f \in DOMAIN es : f.target = node}}
Arriving(es, node) ==
  {es[e] : e \in {f \in DOMAIN es : f.target = node /\ f.kind \notin LeavingKinds}}
Called(es, node) == \E e \in DOMAIN es : e.target = node /\ e.kind \in LeavingKinds

\* The states on the edges out of a block are made from S, in which are the states that
\* arrive: all that lead to it, when no call does.
SolvedWith(reil, E, es, start, end, S) ==
  /\ Arriving(es, start) \subseteq S
  /\ \A s \in S : Before(reil, s, start)
  /\ ~Called(es, start) => S = Into(es, start)
  /\ \A e \in E : e.source = end
                  /\ Valid(Fill(reil, S, start, end), InstructionAt(reil, end), e) =>
       /\ e \in DOMAIN es
       /\ es[e] = Transform(Fill(reil, S, start, end), InstructionAt(reil, end), e)
Solved(reil, E, es, start) ==
  \A end : Block(E, start, end) /\ start # 0 => \E S : SolvedWith(reil, E, es, start, end, S)
Seen(es) ==
  {Node(1, 0)} \cup {e.target : e \in {f \in DOMAIN es : f.kind \notin LeavingKinds}}

Analysed(reil, E, es, q) ==
  /\ q \subseteq Targets(E) /\ DOMAIN es \subseteq E
  /\ \A e \in DOMAIN es : OnEdge(reil, es[e], e)
  /\ \A start \in Seen(es) : start \in q \/ Solved(reil, E, es, start)

AnalysisInv ==
  /\ Coded
  /\ \/ flow_graph = EmptyGraph /\ queue = {} /\ DOMAIN edge_states = {}
     \/ flow_graph = GraphOf(Made) /\ Analysed(Reil, Made, edge_states, queue)

LEMMA NotEmpty ==
  ASSUME Coded PROVE GraphOf(Made) # EmptyGraph
<1>1. DOMAIN GraphOf(Made).outgoing = Sources(Made) BY GraphOfMaps
<1>2. DOMAIN EmptyGraph.outgoing = {} BY DEF EmptyGraph
<1> QED BY <1>1, <1>2, MadeNumbered

\* The block that UpdateNode looks at, and the states it makes.
LEMMA BlockLookedAt ==
  ASSUME Coded, flow_graph = GraphOf(Made), NEW node \in Targets(Made),
         NEW end, end = BasicBlockEnd(flow_graph, node)
  PROVE  /\ end # 0 /\ node # 0 => Block(Made, node, end)
         /\ node # 0 => \A y : Block(Made, node, y) => y = end /\ end # 0
<1>1. node \in Nat /\ Numbered(Made) BY MadeNumbered DEF Numbered
<1>2. ASSUME end # 0 PROVE Block(Made, node, end)
  <2> DEFINE st == BasicBlockStart(flow_graph, node)
  <2>1. BlockAt(Made, node, st, end) BY <1>1, <1>2, BlockStartEnd
  <2>2. st = node BY <1>1, <2>1 DEF BlockAt, Block, Numbered
  <2> QED BY <2>1, <2>2 DEF BlockAt
<1>3. ASSUME node # 0, NEW y, Block(Made, node, y) PROVE y = end /\ end # 0
  <2>1. BlockAt(Made, node, node, y) BY <1>1, <1>3 DEF BlockAt, Block, Numbered
  <2>2. y = end BY <1>1, <2>1, BlockStartEnd
  <2>3. y # 0 BY <1>1, <1>3 DEF Block, Numbered
  <2> QED BY <2>2, <2>3
<1> QED BY <1>2, <1>3

\* What UpdateNode makes of the states and the queue.
In(reil, es, node, end) == Fill(reil, Into(es, node), node, end)
Produced(reil, es, node, end, e) == Transform(In(reil, es, node, end), InstructionAt(reil, end), e)
ValidOut(reil, E, es, node, end) ==
  {e \in E : e.source = end /\ Valid(In(reil, es, node, end), InstructionAt(reil, end), e)}
Changed(reil, E, es, node, end) ==
  {e \in ValidOut(reil, E, es, node, end) :
     e \in DOMAIN es => es[e] # Produced(reil, es, node, end, e)}
NewStates(reil, E, es, node, end) ==
  [e \in DOMAIN es \cup Changed(reil, E, es, node, end) |->
     IF e \in Changed(reil, E, es, node, end) THEN Produced(reil, es, node, end, e) ELSE es[e]]
NewQueue(reil, E, es, Q, node, end) ==
  (Q \ {node})
  \cup {e.target : e \in {f \in Changed(reil, E, es, node, end) : f.kind \notin LeavingKinds}}

LEMMA OutStatesAre ==
  ASSUME Coded, flow_graph = GraphOf(Made), NEW node, NEW end, Block(Made, node, end), node # 0,
         DOMAIN edge_states \subseteq Made
  PROVE  /\ DOMAIN OutStates(end) = ValidOut(Reil, Made, edge_states, node, end)
         /\ \A e \in DOMAIN OutStates(end) :
              OutStates(end)[e] = Produced(Reil, edge_states, node, end, e)
         /\ BasicBlockStart(flow_graph, end) = node
         /\ StatesInto(node) = Into(edge_states, node)
<1>1. node \in Nat /\ end \in Nat /\ Numbered(Made) BY MadeNumbered DEF Numbered, Block
<1>2. BlockAt(Made, end, node, end) BY <1>1 DEF BlockAt, Block
<1>3. BasicBlockStart(flow_graph, end) = node BY <1>1, <1>2, BlockStartEnd
<1>4. StatesInto(node) = Into(edge_states, node)
  <2>1. EdgesAt(flow_graph.incoming, node) = {e \in Made : e.target = node} BY GraphOfMaps
  <2>2. {e \in Made : e.target = node} \cap DOMAIN edge_states
        = {f \in DOMAIN edge_states : f.target = node}
    OBVIOUS
  <2> QED BY <2>1, <2>2 DEF StatesInto, Into
<1>5. At(end) = In(Reil, edge_states, node, end) BY <1>1, <1>3, <1>4, AtIs DEF In
<1>6. EdgesAt(flow_graph.outgoing, end) = {e \in Made : e.source = end} BY GraphOfMaps
<1>7. {e \in EdgesAt(flow_graph.outgoing, end) : Valid(At(end), Ri(end), e)}
      = ValidOut(Reil, Made, edge_states, node, end)
  BY <1>5, <1>6 DEF ValidOut, Ri
<1>8. OutStates(end) = [e \in {f \in EdgesAt(flow_graph.outgoing, end) :
                                  Valid(At(end), Ri(end), f)}
                          |-> Transform(At(end), Ri(end), e)]
  BY DEF OutStates
<1> QED BY <1>3, <1>4, <1>5, <1>7, <1>8 DEF Produced, Ri

\* A block that is looked at is solved, and what others were solved with still holds.
LEMMA UpdateKeeps ==
  ASSUME Coded, NEW es, NEW Q, Analysed(Reil, Made, es, Q),
         NEW node \in Q, node # 0, NEW end, Block(Made, node, end)
  PROVE  Analysed(Reil, Made, NewStates(Reil, Made, es, node, end),
                  NewQueue(Reil, Made, es, Q, node, end))
<1> DEFINE in == In(Reil, es, node, end)
           ri == InstructionAt(Reil, end)
           valid == ValidOut(Reil, Made, es, node, end)
           changed == Changed(Reil, Made, es, node, end)
           es2 == NewStates(Reil, Made, es, node, end)
           Q2 == NewQueue(Reil, Made, es, Q, node, end)
<1>0. /\ in = Fill(Reil, Into(es, node), node, end)
      /\ ri = InstructionAt(Reil, end)
      /\ valid = {e \in Made : e.source = end /\ Valid(in, ri, e)}
      /\ changed = {e \in valid : e \in DOMAIN es => es[e] # Transform(in, ri, e)}
      /\ es2 = [e \in DOMAIN es \cup changed |->
                  IF e \in changed THEN Transform(in, ri, e) ELSE es[e]]
      /\ Q2 = (Q \ {node}) \cup {e.target : e \in {f \in changed : f.kind \notin LeavingKinds}}
  BY DEF In, ValidOut, Changed, NewStates, NewQueue, Produced
<1> SUFFICES Analysed(Reil, Made, es2, Q2) OBVIOUS
<1> HIDE DEF in, ri, valid, changed, es2, Q2
<1>1. /\ Q \subseteq Targets(Made) /\ DOMAIN es \subseteq Made
      /\ \A e \in DOMAIN es : OnEdge(Reil, es[e], e)
      /\ \A start \in Seen(es) : start \in Q \/ Solved(Reil, Made, es, start)
  BY DEF Analysed
<1>2. /\ DOMAIN es2 = DOMAIN es \cup changed
      /\ \A e \in changed : es2[e] = Transform(in, ri, e) /\ e \in Made /\ e.source = end
                            /\ e \in DOMAIN es2
      /\ \A e \in DOMAIN es \ changed : es2[e] = es[e] /\ e \in DOMAIN es2
  BY <1>0
<1>3. \A s \in Into(es, node) : Before(Reil, s, node) BY <1>1, OnTo DEF Into
<1>4. PICK a \in Created : \E o, q \in 0 .. Length(a) - 1 : InBlock(node, end, a, o, q)
  BY BlockWithin
<1>5. PICK o, q \in 0 .. Length(a) - 1 : InBlock(node, end, a, o, q) BY <1>4
<1>6. /\ a \in Code /\ q \in 0 .. Length(a) - 1 /\ end = Node(a, q) /\ ri = Insn(a, q)
      /\ node = Node(a, o) /\ q \in o .. q
  BY <1>0, <1>5, InBlockIs DEF InBlock, Ri
<1>7. Before(Reil, in, end)
  <2>1. in = Along(Into(es, node), a, o, q) BY <1>0, <1>6 DEF Along
  <2> QED BY <1>3, <1>5, <1>6, <2>1, AlongBefore
<1>8. \A e \in DOMAIN es2 : e \in Made /\ OnEdge(Reil, es2[e], e)
  <2>1. ASSUME NEW e \in changed PROVE OnEdge(Reil, Transform(in, ri, e), e)
    <3>1. e \in Out(a, q) BY <1>2, <1>4, <1>6, MadeFrom
    <3>2. OutOf(a, q, e) BY <1>6, <3>1, OutIs
    <3> QED BY <1>6, <1>7, <3>2, TransformOn
  <2> QED BY <1>1, <1>2, <2>1
<1>9. Q2 \subseteq Targets(Made) BY <1>0, <1>1, <1>2 DEF Targets
<1>10. ASSUME NEW start \in Seen(es2), start \notin Q2
       PROVE  Solved(Reil, Made, es2, start)
  <2>1. \A e \in changed : e.target = start => e.kind \in LeavingKinds BY <1>0, <1>10
  <2>2. start \in Seen(es) BY <1>2, <2>1 DEF Seen
  <2>3. Arriving(es2, start) = Arriving(es, start)
    <3>1. {f \in DOMAIN es2 : f.target = start /\ f.kind \notin LeavingKinds}
          = {f \in DOMAIN es : f.target = start /\ f.kind \notin LeavingKinds}
      BY <1>2, <2>1
    <3>2. \A f \in DOMAIN es2 : f.target = start /\ f.kind \notin LeavingKinds => es2[f] = es[f]
      BY <1>2, <2>1
    <3> QED BY <3>1, <3>2 DEF Arriving
  <2>4. ~Called(es2, start) => ~Called(es, start) /\ Into(es2, start) = Into(es, start)
    <3> SUFFICES ASSUME ~Called(es2, start)
        PROVE  ~Called(es, start) /\ Into(es2, start) = Into(es, start)
      OBVIOUS
    <3>1. ~Called(es, start) BY <1>2 DEF Called
    <3>2. Into(es2, start) = Arriving(es2, start) BY DEF Into, Arriving, Called
    <3>3. Into(es, start) = Arriving(es, start) BY <3>1 DEF Into, Arriving, Called
    <3> QED BY <2>3, <3>1, <3>2, <3>3
  <2>5. CASE start = node
    <3>1. \A y : Block(Made, start, y) => y = end
      <4> TAKE y
      <4> HAVE Block(Made, start, y)
      <4>1. Numbered(Made) /\ start \in Nat
        BY <1>1, <2>5, MadeNumbered DEF Numbered
      <4>2. BlockAt(Made, start, start, y) /\ BlockAt(Made, start, start, end)
        BY <2>5, <4>1 DEF BlockAt, Block, Numbered
      <4> QED BY <4>1, <4>2, OneBlock
    <3>2. SolvedWith(Reil, Made, es2, start, end, Into(es, start))
      <4>1. Arriving(es2, start) \subseteq Into(es, start) BY <2>3 DEF Arriving, Into
      <4>2. ~Called(es2, start) => Into(es, start) = Into(es2, start) BY <2>4
      <4>3. \A e \in valid : e \in DOMAIN es2 /\ es2[e] = Transform(in, ri, e) BY <1>0, <1>2
      <4> QED BY <1>0, <1>3, <2>5, <4>1, <4>2, <4>3 DEF SolvedWith
    <3> QED BY <3>1, <3>2 DEF Solved
  <2>6. CASE start # node
    <3>1. Solved(Reil, Made, es, start) BY <1>0, <1>1, <1>10, <2>2, <2>6
    <3> SUFFICES ASSUME NEW y, Block(Made, start, y), start # 0
        PROVE  \E S : SolvedWith(Reil, Made, es2, start, y, S)
      BY DEF Solved
    <3>2. PICK S : SolvedWith(Reil, Made, es, start, y, S) BY <3>1 DEF Solved
    <3>3. y # end
      <4> SUFFICES ASSUME y = end PROVE FALSE OBVIOUS
      <4>1. Numbered(Made) /\ y \in Nat BY MadeNumbered DEF Numbered, Block
      <4>2. BlockAt(Made, y, start, y) /\ BlockAt(Made, y, node, end)
        BY <4>1 DEF BlockAt, Block, Numbered
      <4> QED BY <2>6, <4>1, <4>2, OneBlock
    <3>4. \A e \in Made : e.source = y => e \notin changed BY <1>2, <3>3
    <3>5. \A e \in Made : e.source = y /\ e \in DOMAIN es => e \in DOMAIN es2 /\ es2[e] = es[e]
      BY <1>2, <3>4
    <3>6. SolvedWith(Reil, Made, es2, start, y, S)
      BY <2>3, <2>4, <3>2, <3>5 DEF SolvedWith
    <3> QED BY <3>6
  <2> QED BY <2>5, <2>6
<1> QED BY <1>8, <1>9, <1>10 DEF Analysed

LEMMA InitAnalysed == Init => AnalysisInv
BY DEF Init, AnalysisInv, Coded

LEMMA NextAnalysed ==
  ASSUME AnalysisInv, AddFlowGraph \/ Update
  PROVE  AnalysisInv'
<1>1. code' = code BY DEF AddFlowGraph, Update, Bail, UpdateNode
<1>2. Coded /\ Coded' /\ Made' = Made /\ Reil' = Reil BY <1>1, Unmoved DEF AnalysisInv
<1>3. CASE AddFlowGraph
  <2>1. flow_graph = EmptyGraph /\ queue = {} /\ DOMAIN edge_states = {}
    BY <1>2, <1>3, NotEmpty DEF AnalysisInv, AddFlowGraph
  <2>2. flow_graph' = GraphOf(Made) /\ queue' = {Node(1, 0)} /\ edge_states' = edge_states
    BY <1>2, <1>3, CreateIs DEF AddFlowGraph
  <2>3. Seen(edge_states) = {Node(1, 0)} BY <2>1 DEF Seen
  <2>4. Analysed(Reil, Made, edge_states, {Node(1, 0)})
    BY <1>2, <2>1, <2>3, MadeNumbered DEF Analysed
  <2> QED BY <1>2, <2>2, <2>4 DEF AnalysisInv
<1>4. CASE Update
  <2>1. PICK node \in queue : Bail(node) \/ UpdateNode(node) BY <1>4 DEF Update
  <2>2. flow_graph = GraphOf(Made) /\ Analysed(Reil, Made, edge_states, queue)
    BY <2>1 DEF AnalysisInv
  <2>3. node \in Targets(Made) BY <2>1, <2>2 DEF Analysed
  <2>4. CASE Bail(node)
    <3>1. flow_graph' = flow_graph /\ edge_states' = edge_states /\ queue' = queue \ {node}
      BY <2>4 DEF Bail
    <3>2. \A y : ~(Block(Made, node, y) /\ node # 0)
      BY <1>2, <2>2, <2>3, <2>4, BlockLookedAt DEF Bail
    <3>3. Solved(Reil, Made, edge_states, node) BY <3>2 DEF Solved
    <3>4. Analysed(Reil, Made, edge_states, queue \ {node}) BY <2>2, <3>3 DEF Analysed
    <3> QED BY <1>2, <2>2, <3>1, <3>4 DEF AnalysisInv
  <2>5. CASE UpdateNode(node)
    <3> DEFINE end == BasicBlockEnd(flow_graph, node)
               out == OutStates(end)
               changed == Changed(Reil, Made, edge_states, node, end)
    <3>1. node # 0 /\ end # 0 /\ flow_graph' = flow_graph BY <2>5 DEF UpdateNode
    <3>2. Block(Made, node, end) BY <1>2, <2>2, <2>3, <3>1, BlockLookedAt
    <3>3. DOMAIN edge_states \subseteq Made BY <2>2 DEF Analysed
    <3>4. /\ DOMAIN out = ValidOut(Reil, Made, edge_states, node, end)
          /\ \A e \in DOMAIN out : out[e] = Produced(Reil, edge_states, node, end, e)
      BY <1>2, <2>2, <3>1, <3>2, <3>3, OutStatesAre
    <3>5. {e \in DOMAIN out : e \in DOMAIN edge_states => edge_states[e] # out[e]} = changed
      <4> HIDE DEF out, end
      <4> QED BY <3>4 DEF Changed
    <3>6. /\ edge_states' = [e \in DOMAIN edge_states \cup changed |->
                               IF e \in changed THEN out[e] ELSE edge_states[e]]
          /\ queue' = (queue \ {node})
                      \cup {e.target : e \in {f \in changed : f.kind \notin LeavingKinds}}
      <4> HIDE DEF changed
      <4> QED BY <2>5, <3>5 DEF UpdateNode, SetStates, Requeue
    <3>7. edge_states' = NewStates(Reil, Made, edge_states, node, end)
      <4>1. changed \subseteq DOMAIN out BY <3>4 DEF Changed
      <4>2. \A e \in changed : out[e] = Produced(Reil, edge_states, node, end, e)
        BY <3>4, <4>1
      <4> HIDE DEF out, end
      <4> QED BY <3>6, <4>2 DEF NewStates
    <3>8. queue' = NewQueue(Reil, Made, edge_states, queue, node, end)
      BY <3>6 DEF NewQueue
    <3>9. Analysed(Reil, Made, edge_states', queue')
      BY <1>2, <2>1, <2>2, <3>1, <3>2, <3>7, <3>8, UpdateKeeps
    <3> QED BY <1>2, <2>2, <3>1, <3>9 DEF AnalysisInv
  <2> QED BY <2>1, <2>4, <2>5
<1> QED BY <1>3, <1>4

LEMMA SameAnalysed ==
  ASSUME AnalysisInv, UNCHANGED vars
  PROVE  AnalysisInv'
<1>1. Coded /\ Coded' /\ Made' = Made /\ Reil' = Reil BY Unmoved DEF AnalysisInv, vars
<1>2. flow_graph' = flow_graph /\ edge_states' = edge_states /\ queue' = queue BY DEF vars
<1> QED BY <1>1, <1>2 DEF AnalysisInv

LEMMA AnalysisStep ==
  ASSUME AnalysisInv, [NextAnalysis]_allvars
  PROVE  AnalysisInv'
<1>1. CASE AddFlowGraph \/ Update BY <1>1, NextAnalysed
<1>2. CASE UNCHANGED vars BY <1>2, SameAnalysed
<1> QED BY <1>1, <1>2 DEF NextAnalysis, Analyse, Start, Run, Left, allvars

LEMMA AlwaysAnalysed == SpecAnalysis => []AnalysisInv
<1>1. InitAnalysis => AnalysisInv BY InitAnalysed DEF InitAnalysis
<1> QED BY <1>1, AnalysisStep, PTL DEF SpecAnalysis

\* The nodes in the queue are nodes of the code, and the states map registers, and on
\* edges within a native instruction temporaries, to pointers to constants, whatever
\* Transform makes of operands it knows nothing of.
THEOREM TypeCorrect == SpecAnalysis => []TypeOK
<1>1. AnalysisInv => TypeOK
  <2> SUFFICES ASSUME AnalysisInv PROVE TypeOK OBVIOUS
  <2>1. Coded /\ queue \subseteq Targets(Made)
        /\ \A e \in DOMAIN edge_states : OnEdge(Reil, edge_states[e], e)
    BY DEF AnalysisInv, Analysed
  <2>2. queue \subseteq Nodes
    <3> SUFFICES ASSUME NEW n \in queue PROVE n \in Nodes OBVIOUS
    <3>1. PICK e \in Made : n = e.target BY <2>1 DEF Targets
    <3>2. CASE \E b \in Address : n = Node(b, 0)
      <4>1. 0 \in 0 .. Width - 1 BY Numbers
      <4> QED BY <3>2, <4>1 DEF Nodes
    <3>3. CASE n \in MadeNodes
      <4>1. PICK a \in Created : \E o \in 0 .. Length(a) - 1 :
                n = Node(a, o) /\ a \in Code /\ o \in 0 .. Width - 1
        BY <2>1, <3>3, MadeNode
      <4>2. a \in Address BY <4>1, Numbers
      <4> QED BY <4>1, <4>2 DEF Nodes
    <3> QED BY <2>1, <3>1, <3>2, <3>3, MadeEnds
  <2>3. ASSUME NEW e \in DOMAIN edge_states, NEW p \in DOMAIN edge_states[e]
        PROVE  /\ edge_states[e][p] \in Pointers
               /\ p[1] # "reg" => p[1] = "tmp" /\ e.kind \notin NativeKinds
    <3>1. OnEdge(Reil, edge_states[e], e) BY <2>1
    <3>2. p \in Places /\ edge_states[e][p] \in Pointers BY <3>1 DEF OnEdge, IsState
    <3>3. p[1] = "tmp" => e.kind \notin NativeKinds BY <3>1 DEF OnEdge, Temporary
    <3> QED BY <3>2, <3>3, PlacesAre
  <2> QED BY <2>1, <2>2, <2>3 DEF TypeOK, Coded
<1> QED BY <1>1, AlwaysAnalysed, PTL

\* No block of a flow graph runs from one native instruction into another, although a
\* block ends only where there is an edge, and the native graph may lack one
\* (disassemble.cpp:58): so what AtImpl returns is never null where Update dereferences
\* it (constants_analysis.cpp:888).
THEOREM BlocksStayWithin == SpecAnalysis => []BlocksWithinInstruction
<1>1. AnalysisInv => BlocksWithinInstruction
  <2> SUFFICES ASSUME AnalysisInv, NEW node \in queue
      PROVE  AddressOf(BasicBlockStart(flow_graph, node)) = AddressOf(BasicBlockEnd(flow_graph, node))
    BY DEF BlocksWithinInstruction
  <2> DEFINE start == BasicBlockStart(flow_graph, node)
             end == BasicBlockEnd(flow_graph, node)
  <2>1. Coded /\ flow_graph = GraphOf(Made) /\ node \in Targets(Made)
    BY DEF AnalysisInv, Analysed
  <2>2. node \in Nat /\ Numbered(Made) BY <2>1, MadeNumbered DEF Numbered
  <2>3. CASE start = 0 /\ end = 0 BY <2>3
  <2>4. CASE start = 0 /\ end # 0
    <3>1. BlockAt(Made, node, 0, end) BY <2>1, <2>2, <2>4, BlockStartEnd
    <3>2. 0 \in Sources(Made) BY <2>1, MadeNumbered
    <3> QED BY <2>2, <2>4, <3>1, <3>2 DEF BlockAt, Block, Numbered
  <2>5. CASE start # 0
    <3>1. Block(Made, start, end) BY <2>1, <2>2, <2>5, BlockStartEnd DEF BlockAt
    <3>2. PICK a \in Created : \E o, q \in 0 .. Length(a) - 1 : InBlock(start, end, a, o, q)
      BY <2>1, <2>5, <3>1, BlockWithin
    <3>3. PICK o, q \in 0 .. Length(a) - 1 : InBlock(start, end, a, o, q) BY <3>2
    <3>4. o \in o .. q /\ q \in o .. q /\ start = Node(a, o) /\ end = Node(a, q)
      BY <2>1, <3>3, InBlockIs DEF InBlock
    <3>5. AddressOf(Node(a, o)) = a /\ AddressOf(Node(a, q)) = a BY <2>1, <3>3, <3>4, InBlockIs
    <3> QED BY <3>4, <3>5
  <2> QED BY <2>3, <2>4, <2>5
<1> QED BY <1>1, AlwaysAnalysed, PTL

\* When Update returns, its states solve the equations, in whatever order the blocks
\* were looked at and however often their states changed (constants_analysis.cpp:902).
THEOREM StatesSettle == SpecAnalysis => []Settled
<1>1. AnalysisInv => Settled
  <2> SUFFICES ASSUME AnalysisInv, queue = {},
                      NEW start \in {Node(1, 0)} \cup {e.target : e \in {f \in DOMAIN edge_states :
                                                         f.kind \notin LeavingKinds}},
                      start # 0, BasicBlockEnd(flow_graph, start) # 0,
                      ~\E e \in EdgesAt(flow_graph.incoming, start) \cap DOMAIN edge_states :
                          e.kind \in LeavingKinds
      PROVE  \A e \in DOMAIN OutStates(BasicBlockEnd(flow_graph, start)) :
               /\ e \in DOMAIN edge_states
               /\ edge_states[e] = OutStates(BasicBlockEnd(flow_graph, start))[e]
    BY Zenon DEF Settled, Stable
  <2> DEFINE end == BasicBlockEnd(flow_graph, start)
             in == In(Reil, edge_states, start, end)
  <2>1. flow_graph # EmptyGraph
    <3>1. BasicBlockEnd(EmptyGraph, start) = 0
      BY DEF EmptyGraph, BasicBlockEnd, Blocks
    <3> QED BY <3>1
  <2>2. Coded /\ flow_graph = GraphOf(Made) /\ DOMAIN edge_states \subseteq Made
        /\ Solved(Reil, Made, edge_states, start)
    BY <2>1 DEF AnalysisInv, Analysed, Seen
  <2>3. start \in Targets(Made) BY <2>2, MadeNumbered DEF Targets
  <2>4. Block(Made, start, end) BY <2>2, <2>3, BlockLookedAt
  <2>5. ~Called(edge_states, start)
    <3>1. EdgesAt(flow_graph.incoming, start) = {e \in Made : e.target = start}
      BY <2>2, GraphOfMaps
    <3> QED BY <2>2, <3>1 DEF Called
  <2>6. SolvedWith(Reil, Made, edge_states, start, end, Into(edge_states, start))
    BY <2>2, <2>4, <2>5 DEF Solved, SolvedWith
  <2>7. /\ DOMAIN OutStates(end) = ValidOut(Reil, Made, edge_states, start, end)
        /\ \A e \in DOMAIN OutStates(end) :
             OutStates(end)[e] = Produced(Reil, edge_states, start, end, e)
    BY <2>2, <2>4, OutStatesAre
  <2> HIDE DEF end
  <2>8. \A e \in DOMAIN OutStates(end) :
           e \in DOMAIN edge_states /\ edge_states[e] = OutStates(end)[e]
    BY <2>6, <2>7 DEF SolvedWith, ValidOut, Produced, In
  <2> QED BY <2>8 DEF end
<1> QED BY <1>1, AlwaysAnalysed, PTL

-----------------------------------------------------------------------------
(* The run.                                                                *)

Origins == {"code", "input", "foreign"}
Typed(vals, orig, mem, st) ==
  /\ DOMAIN orig = DOMAIN vals /\ {Reg(r) : r \in Registers} \subseteq DOMAIN vals
  /\ \A p \in DOMAIN vals : vals[p] \in Values /\ orig[p] \in Origins
  /\ mem \in [Values -> Values]
  /\ \A a \in DOMAIN Image \ st : mem[a] = Image[a].value

\* The temporaries that are written on every way to an instruction.
FirstsOf(reil, w) ==
  /\ w[1] = {}
  /\ \A k \in DOMAIN reil :
       /\ {p \in Reads(reil[k]) : Temporary(p)} \subseteq w[k]
       /\ \A j \in After(reil, k) : w[j] \subseteq w[k] \cup Writes(reil[k])
Firsts(reil) == CHOOSE w : FirstsOf(reil, w)

\* What the loads behind the first o instructions write.
LoadedFrom(reil, o) ==
  {reil[k].output : k \in {j \in DOMAIN reil : j > o /\ reil[j].opcode = "Ldm"}}

\* A state agrees with the values of a run: it has every place that the code has written,
\* but for what loads write, and no other constant for it.  In a tree it has all
\* constants.
Agrees(s, vals, orig, tree, skip, late) ==
  \A p \in DOMAIN vals :
    /\ orig[p] # "foreign" /\ p \notin skip => p \in DOMAIN s
    /\ orig[p] # "foreign" /\ p \in DOMAIN s /\ (p \notin skip \/ p \in late) =>
         s[p] \subseteq {vals[p]}
    /\ tree /\ orig[p] = "code" => p \in DOMAIN s /\ s[p] = {vals[p]}

LEMMA FirstsAre ==
  ASSUME Coded, NEW a \in Code PROVE FirstsOf(code[a].reil, Firsts(code[a].reil))
<1>1. WrittenFirst(code[a].reil) BY NativesAssumption DEF Coded
<1>2. \E w : FirstsOf(code[a].reil, w) BY <1>1 DEF WrittenFirst, FirstsOf
<1> QED BY <1>2 DEF Firsts

LEMMA LoadsAre ==
  ASSUME Coded, NEW a \in Code
  PROVE  LET reil == code[a].reil IN
         /\ Loaded(a) = LoadedFrom(reil, 0) /\ Loaded(a) = LoadedFrom(Reil[a], 0)
         /\ \A o \in Nat : LoadedFrom(reil, o) \subseteq Loaded(a)
         /\ \A p \in Loaded(a) : Temporary(p)
         /\ \A k \in DOMAIN reil : reil[k].opcode # "Ldm" => Writes(reil[k]) \cap Loaded(a) = {}
         /\ \A o \in Nat : \A p \in LoadedFrom(reil, o) : p \notin Written(Reil, a, o)
<1> DEFINE reil == code[a].reil
<1>1. LoadsApart(reil) /\ DOMAIN reil = 1 .. Length(a) /\ Length(a) \in Nat
  BY NativesAssumption, InsnIs DEF Coded
<1>2. \A k \in DOMAIN reil : k > 0 BY <1>1
<1>3. Reil[a] = reil BY DEF Reil
<1>4. Loaded(a) = LoadedFrom(reil, 0)
  BY <1>2 DEF Loaded, LoadedFrom
<1>5. ASSUME NEW o \in Nat, NEW p \in LoadedFrom(reil, o)
      PROVE  p \in Loaded(a) /\ p \notin Written(Reil, a, o)
  <2>1. PICK k \in DOMAIN reil : k > o /\ reil[k].opcode = "Ldm" /\ p = reil[k].output
    BY DEF LoadedFrom
  <2>2. p \in Loaded(a) BY <2>1 DEF Loaded
  <2>3. ASSUME NEW j \in 1 .. o PROVE p \notin Writes(Reil[a][j])
    <3>1. j \in DOMAIN reil \ {k} BY <1>1, <2>1
    <3> QED BY <1>1, <1>3, <2>1, <3>1 DEF LoadsApart
  <2> QED BY <2>2, <2>3 DEF Written
<1>6. ASSUME NEW p \in Loaded(a) PROVE Temporary(p)
  BY <1>1 DEF Loaded, LoadsApart
<1>7. ASSUME NEW k \in DOMAIN reil, reil[k].opcode # "Ldm", NEW p \in Writes(reil[k])
      PROVE  p \notin Loaded(a)
  BY <1>1, <1>7 DEF Loaded, LoadsApart
<1> QED BY <1>3, <1>4, <1>5, <1>6, <1>7

\* What a load writes is read in the same block.
LEMMA LoadedLate ==
  ASSUME Coded, NEW x, NEW y, NEW a, NEW o, NEW q, InBlock(x, y, a, o, q), x \in Targets(Made),
         NEW k \in o .. q, NEW p \in Reads(Insn(a, k)), p \in Loaded(a)
  PROVE  p \in LoadedFrom(code[a].reil, o)
<1> DEFINE reil == code[a].reil
           j == k + 1
<1>1. /\ a \in Code /\ a \in Nat /\ o \in Nat /\ k \in Nat /\ o <= k /\ j \in DOMAIN reil
      /\ DOMAIN reil = 1 .. Length(a) /\ Length(a) \in Nat /\ o \in 0 .. Width - 1
      /\ x = Node(a, o)
  BY InBlockIs, InsnIs DEF InBlock
<1>2. LoadsApart(reil) BY <1>1, NativesAssumption DEF Coded
<1>3. PICK i \in DOMAIN reil : reil[i].opcode = "Ldm" /\ p = reil[i].output BY DEF Loaded
<1>4. p \in Reads(reil[j]) BY DEF Insn
<1>5. /\ i < j /\ \A u \in i .. j - 1 : reil[u].opcode # "Jcc"
      /\ \A u \in DOMAIN reil : Within(reil[u]) => reil[u].output[2] + 1 \notin i + 1 .. j
  BY <1>1, <1>2, <1>3, <1>4 DEF LoadsApart
<1>6. i > o
  <2> SUFFICES ASSUME i <= o PROVE FALSE BY <1>1
  <2>1. i \in Nat /\ o \in i .. j - 1 /\ o + 1 \in i + 1 .. j /\ o # 0 BY <1>1
  <2>2. PICK e \in Made : e.target = x BY DEF Targets
  <2>3. \A b \in Nat : x # Node(b, 0)
    <3>1. 0 \in 0 .. Width - 1 BY Numbers
    <3> QED BY <1>1, <2>1, <3>1, NodeOrder
  <2>4. e # Edge(0, Node(1, 0), "kNativeCall") BY <2>2, <2>3, Fields
  <2>5. PICK b \in Created : \E u \in 0 .. Length(b) - 1 : OutOf(b, u, e) BY <2>4, MadeEdge
  <2>6. PICK u \in 0 .. Length(b) - 1 : OutOf(b, u, e) BY <2>5
  <2>7. b \in Code /\ b \in Nat /\ u \in Nat /\ Length(b) \in Nat BY CreatedReached, InsnIs
  <2>8. e.kind \notin NativeKinds BY <2>2, <2>3, <2>6, <2>7, WhitherIs DEF OutOf, NativeKinds
  <2>9. CASE e.kind = "kFlow"
    <3>1. e.target = Node(b, u + 1) /\ u + 1 < Length(b) /\ Insn(b, u).opcode = "Jcc"
      BY <2>6, <2>8, <2>9 DEF OutOf
    <3>2. u + 1 \in 0 .. Length(b) - 1 BY <2>7, <3>1
    <3>3. u + 1 \in 0 .. Width - 1 BY <2>7, <3>2, InsnIs
    <3> DEFINE v == u + 1
    <3>4. b = a /\ v = o
      <4>1. v \in 0 .. Width - 1 /\ Node(b, v) = Node(a, o) BY <1>1, <2>2, <3>1, <3>3
      <4> HIDE DEF v
      <4> QED BY <1>1, <2>7, <4>1, NodeOrder
    <3> QED BY <1>5, <2>1, <3>1, <3>4 DEF Insn
  <2>10. CASE e.kind = "kJump"
    <3> DEFINE v == Insn(b, u).output[2]
    <3>1. e.target = Node(b, v) /\ Within(Insn(b, u)) BY <2>6, <2>8, <2>10 DEF OutOf
    <3>2. v \in u + 1 .. Length(b) - 1 BY <2>7, <3>1, InsnIs
    <3>3. v \in 0 .. Length(b) - 1 BY <2>7, <3>2
    <3>4. v \in 0 .. Width - 1 BY <2>7, <3>3, InsnIs
    <3>5. b = a /\ v = o
      <4>1. Node(b, v) = Node(a, o) BY <1>1, <2>2, <3>1
      <4> HIDE DEF v
      <4> QED BY <1>1, <2>7, <3>4, <4>1, NodeOrder
    <3>6. u + 1 \in DOMAIN reil /\ Within(reil[u + 1]) /\ reil[u + 1].output[2] = o
      BY <2>7, <3>1, <3>5, InsnIs DEF Insn
    <3> QED BY <1>5, <2>1, <3>6
  <2> QED BY <2>6, <2>8, <2>9, <2>10 DEF OutOf
<1> QED BY <1>3, <1>6 DEF LoadedFrom

\* What the state and the run say of an operand.
Understood(s, operand, tree) ==
  /\ Value(operand) \in Values /\ Origin(operand) \in Origins
  /\ Origin(operand) # "foreign" => GetOperand(s, operand) \subseteq {Value(operand)}
  /\ tree /\ Origin(operand) = "code" => GetOperand(s, operand) = {Value(operand)}

LEMMA Reading ==
  ASSUME Coded, NEW x, NEW y, NEW a, NEW o, NEW q, InBlock(x, y, a, o, q), x \in Targets(Made),
         NEW k \in o .. q, NEW s, Before(Reil, s, Node(a, k)), NEW tree,
         Typed(values, origin, memory, stored),
         Firsts(code[a].reil)[k + 1] \subseteq DOMAIN values,
         Agrees(s, values, origin, tree, Loaded(a), LoadedFrom(code[a].reil, o)),
         NEW operand \in Reads(Insn(a, k))
  PROVE  Understood(s, operand, tree)
<1>1. a \in Code /\ k \in 0 .. Length(a) - 1 BY InBlockIs
<1>2. IsState(s) BY DEF Before
<1>3. operand \in Operands BY <1>1, InsnIs DEF Operates
<1>4. CASE operand[1] = "imm"
  <2>1. Value(operand) = operand[2] /\ Origin(operand) = "code" BY <1>4 DEF Value, Origin
  <2>2. GetOperand(s, operand) = {operand[2]} /\ operand[2] \in Values
    BY <1>2, <1>3, <1>4, GetOperandIs
  <2> QED BY <2>1, <2>2 DEF Understood, Origins
<1>5. CASE operand[1] # "imm"
  <2>1. Value(operand) = values[operand] /\ Origin(operand) = origin[operand]
    BY <1>5 DEF Value, Origin
  <2>2. operand \in Places /\ operand[1] \in {"reg", "tmp"} BY <1>3, <1>5, PlacesAre
  <2>3. k + 1 \in DOMAIN code[a].reil /\ Insn(a, k) = code[a].reil[k + 1]
    BY <1>1, InsnIs DEF Insn
  <2>4. operand \in DOMAIN values
    <3>1. CASE Temporary(operand)
      <4>1. operand \in Firsts(code[a].reil)[k + 1]
        BY <1>1, <2>3, <3>1, FirstsAre DEF FirstsOf
      <4> QED BY <4>1
    <3>2. CASE operand[1] = "reg"
      <4>1. code[a] \in Natives BY <1>1 DEF Coded
      <4>2. operand \in {Reg(r) : r \in Registers} BY <2>3, <3>2, <4>1, RegistersAssumption
      <4> QED BY <4>2 DEF Typed
    <3> QED BY <2>2, <3>1, <3>2 DEF Temporary
  <2>5. /\ operand \in DOMAIN s => GetOperand(s, operand) = s[operand]
        /\ operand \notin DOMAIN s => GetOperand(s, operand) = {}
    BY <1>2, <1>3, <1>5, GetOperandIs
  <2>6. operand \in Loaded(a) => operand \in LoadedFrom(code[a].reil, o) BY LoadedLate
  <2> QED BY <2>1, <2>4, <2>5, <2>6 DEF Understood, Agrees, Typed
<1> QED BY <1>4, <1>5

\* The values and their origins when an instruction has been executed.
Vals(ri) == IF ri.opcode \in Writing THEN Assign(ri.output, Result(ri)) ELSE values
Org(ri, p) ==
  CASE ri.opcode \in Writing -> IF p = ri.output THEN OriginOf(ri) ELSE origin[p]
    [] ri.opcode = "Unkn"    -> "foreign"
    [] ri.opcode = "Sys"     -> IF p = Reg(X0) THEN "foreign" ELSE origin[p]
    [] OTHER                 -> origin[p]
Orgs(ri) == [p \in DOMAIN Vals(ri) |-> Org(ri, p)]

LEMMA WorstIs ==
  ASSUME NEW O, O \subseteq Origins
  PROVE  /\ Worst(O) \in Origins
         /\ Worst(O) # "foreign" => "foreign" \notin O
         /\ Worst(O) = "code" => O \subseteq {"code"}
BY DEF Worst, Origins

LEMMA WriteAgrees ==
  ASSUME NEW s, IsState(s), NEW tree, NEW skip, NEW late,
         Agrees(s, values, origin, tree, skip, late),
         Typed(values, origin, memory, stored),
         NEW ri, ri.opcode \in Writing, ri.output \in Places,
         NEW v \in Pointers, Result(ri) \in Values, OriginOf(ri) \in Origins,
         OriginOf(ri) # "foreign" => v \subseteq {Result(ri)},
         tree /\ OriginOf(ri) = "code" => v = {Result(ri)},
         NEW T, T = SetOperand(s, ri.output, v)
  PROVE  Agrees(T, Vals(ri), Orgs(ri), tree, skip, late)
<1>1. DOMAIN T = DOMAIN s \cup {ri.output}
      /\ \A p \in DOMAIN T : T[p] = IF p = ri.output THEN v ELSE s[p]
  BY DEF SetOperand
<1>2. /\ DOMAIN Vals(ri) = DOMAIN values \cup {ri.output}
      /\ \A p \in DOMAIN Vals(ri) : Vals(ri)[p] = IF p = ri.output THEN Result(ri) ELSE values[p]
  BY DEF Vals, Assign
<1>3. \A p \in DOMAIN Vals(ri) :
        Orgs(ri)[p] = IF p = ri.output THEN OriginOf(ri) ELSE origin[p]
  BY DEF Orgs, Org, Writing, BinaryOpcodes
<1>4. ASSUME NEW p \in DOMAIN Vals(ri)
      PROVE  /\ Orgs(ri)[p] # "foreign" /\ p \notin skip => p \in DOMAIN T
             /\ Orgs(ri)[p] # "foreign" /\ p \in DOMAIN T /\ (p \notin skip \/ p \in late) =>
                  T[p] \subseteq {Vals(ri)[p]}
             /\ tree /\ Orgs(ri)[p] = "code" => p \in DOMAIN T /\ T[p] = {Vals(ri)[p]}
  <2>1. CASE p = ri.output BY <1>1, <1>2, <1>3, <2>1
  <2>2. CASE p # ri.output
    <3>1. p \in DOMAIN values /\ Vals(ri)[p] = values[p] /\ Orgs(ri)[p] = origin[p]
          /\ (p \in DOMAIN T <=> p \in DOMAIN s) /\ (p \in DOMAIN T => T[p] = s[p])
      BY <1>1, <1>2, <1>3, <1>4, <2>2
    <3> QED BY <3>1 DEF Agrees
  <2> QED BY <2>1, <2>2
<1> QED BY <1>4 DEF Agrees

LEMMA Executes ==
  ASSUME NEW s, IsState(s), NEW tree, NEW skip, NEW late,
         Agrees(s, values, origin, tree, skip, late),
         Typed(values, origin, memory, stored),
         NEW ri, Operates(ri), ri.opcode # "Jcc",
         \A operand \in Reads(ri) : Understood(s, operand, tree),
         ri.opcode = "Ldm" => ri.output \in skip /\ ri.output \notin DOMAIN s,
         NEW e
  PROVE  /\ Agrees(TransformState(s, ri, e), Vals(ri), Orgs(ri), tree, skip, late)
         /\ DOMAIN Vals(ri) = DOMAIN values \cup Writes(ri)
         /\ \A p \in DOMAIN Vals(ri) : Vals(ri)[p] \in Values /\ Orgs(ri)[p] \in Origins
<1> DEFINE T == TransformState(s, ri, e)
<1>1. /\ ri.opcode \in Writing \cup {"Stm", "Nop", "Unkn", "Sys"}
      /\ ri.opcode \in Writing => ri.output \in Places /\ Writes(ri) = {ri.output}
      /\ ri.opcode \notin Writing => Writes(ri) = {}
      /\ Reads(ri) \subseteq Operands
  BY DEF Operates, Writes
<1>2. ASSUME ri.opcode \in Writing
      PROVE  /\ Result(ri) \in Values /\ OriginOf(ri) \in Origins
             /\ \/ Agrees(T, Vals(ri), Orgs(ri), tree, skip, late)
                \/ \E v \in Pointers : /\ T = SetOperand(s, ri.output, v)
                                       /\ OriginOf(ri) # "foreign" => v \subseteq {Result(ri)}
                                       /\ tree /\ OriginOf(ri) = "code" => v = {Result(ri)}
  <2>1. CASE ri.opcode \in BinaryOpcodes
    <3> DEFINE l == GetOperand(s, ri.input0)
               r == GetOperand(s, ri.input1)
               v == {Compute(ri.opcode, b, c) : b \in l, c \in r}
               O == {Origin(ri.input0), Origin(ri.input1)}
    <3>1. ri.input0 \in Reads(ri) /\ ri.input1 \in Reads(ri) BY <2>1 DEF Reads, BinaryOpcodes
    <3>2. T = SetOperand(s, ri.output, v)
      BY <2>1 DEF TransformState, TransformBinary, BinaryOpcodes
    <3>3. l \in Pointers /\ r \in Pointers BY <1>1, <3>1, GetOperandIs
    <3>4. Result(ri) = Compute(ri.opcode, Value(ri.input0), Value(ri.input1))
      BY <2>1 DEF Result, BinaryOpcodes
    <3>5. OriginOf(ri) = Worst(O) BY <2>1 DEF OriginOf, BinaryOpcodes
    <3>6. Understood(s, ri.input0, tree) /\ Understood(s, ri.input1, tree) BY <3>1
    <3>7. O \subseteq Origins BY <3>6 DEF Understood
    <3>8. v \in Pointers BY <2>1, <3>3, BinaryIs
    <3>9. Result(ri) \in Values BY <2>1, <3>4, <3>6, ComputeIs DEF Understood
    <3>10. ASSUME OriginOf(ri) # "foreign" PROVE v \subseteq {Result(ri)}
      <4>1. l \subseteq {Value(ri.input0)} /\ r \subseteq {Value(ri.input1)}
        BY <3>5, <3>6, <3>7, <3>10, WorstIs DEF Understood
      <4> HIDE DEF l, r
      <4> QED BY <3>4, <4>1
    <3>11. ASSUME tree, OriginOf(ri) = "code" PROVE v = {Result(ri)}
      <4>0. O \subseteq {"code"}
        <5> HIDE DEF O
        <5> QED BY <3>5, <3>7, <3>11, WorstIs
      <4>1. Origin(ri.input0) = "code" /\ Origin(ri.input1) = "code" BY <4>0
      <4>2. l = {Value(ri.input0)} /\ r = {Value(ri.input1)} BY <3>6, <3>11, <4>1 DEF Understood
      <4> HIDE DEF l, r
      <4> QED BY <3>4, <4>2
    <3>12. OriginOf(ri) \in Origins BY <3>5, <3>7, WorstIs
    <3> HIDE DEF v
    <3> QED BY <3>2, <3>8, <3>9, <3>10, <3>11, <3>12
  <2>2. CASE ri.opcode \in {"Str", "Sex"}
    <3> DEFINE v == GetOperand(s, ri.input0)
               O == {Origin(ri.input0)}
    <3>1. ri.input0 \in Reads(ri) BY <2>2 DEF Reads, BinaryOpcodes
    <3>2. T = SetOperand(s, ri.output, v)
      BY <2>2 DEF TransformState, TransformStr, BinaryOpcodes
    <3>3. v \in Pointers BY <1>1, <3>1, GetOperandIs
    <3>4. Result(ri) = Value(ri.input0) BY <2>2 DEF Result, BinaryOpcodes
    <3>5. OriginOf(ri) = Worst(O) BY <2>2 DEF OriginOf, BinaryOpcodes
    <3>6. Understood(s, ri.input0, tree) BY <3>1
    <3>7. O \subseteq Origins BY <3>6 DEF Understood
    <3>8. OriginOf(ri) # "foreign" => v \subseteq {Result(ri)}
      BY <3>4, <3>5, <3>6, <3>7, WorstIs DEF Understood
    <3>9. tree /\ OriginOf(ri) = "code" => v = {Result(ri)}
      BY <3>4, <3>5, <3>6, <3>7, WorstIs DEF Understood
    <3>10. OriginOf(ri) \in Origins /\ Result(ri) \in Values
      BY <3>4, <3>5, <3>6, <3>7, WorstIs DEF Understood
    <3> HIDE DEF v
    <3> QED BY <3>2, <3>3, <3>8, <3>9, <3>10
  <2>3. CASE ri.opcode = "Ite"
    <3> DEFINE c == GetOperand(s, ri.input0)
               l == GetOperand(s, ri.input1)
               r == GetOperand(s, ri.input2)
               v == CASE c = {} -> l \cap r [] c = {0} -> r [] OTHER -> l
               O == {Origin(ri.input0), Origin(ri.input1), Origin(ri.input2)}
    <3>1. ri.input0 \in Reads(ri) /\ ri.input1 \in Reads(ri) /\ ri.input2 \in Reads(ri)
      BY <2>3 DEF Reads, BinaryOpcodes
    <3>2. T = SetOperand(s, ri.output, v)
      BY <2>3 DEF TransformState, TransformIte, BinaryOpcodes
    <3>3. c \in Pointers /\ l \in Pointers /\ r \in Pointers BY <1>1, <3>1, GetOperandIs
    <3>4. Result(ri) = IF Value(ri.input0) # 0 THEN Value(ri.input1) ELSE Value(ri.input2)
      BY <2>3 DEF Result, BinaryOpcodes
    <3>5. OriginOf(ri) = Worst(O) BY <2>3 DEF OriginOf, BinaryOpcodes
    <3>6. /\ Understood(s, ri.input0, tree) /\ Understood(s, ri.input1, tree)
          /\ Understood(s, ri.input2, tree)
      BY <3>1
    <3>7. O \subseteq Origins BY <3>6 DEF Understood
    <3>8. v \in Pointers
      <4>1. \A u, w \in Pointers : u \cap w \in Pointers
        <5>1. \A u, w \in Pointers : u \cap w = {} \/ u \cap w = u BY PointersAre
        <5> QED BY <5>1, PointersAre
      <4> HIDE DEF c, l, r
      <4> QED BY <3>3, <4>1
    <3>9. Result(ri) \in Values /\ OriginOf(ri) \in Origins
      BY <3>4, <3>5, <3>6, <3>7, WorstIs DEF Understood
    <3>10. ASSUME OriginOf(ri) # "foreign" PROVE v \subseteq {Result(ri)}
      <4>1. /\ c \subseteq {Value(ri.input0)} /\ l \subseteq {Value(ri.input1)}
            /\ r \subseteq {Value(ri.input2)}
        BY <3>5, <3>6, <3>7, <3>10, WorstIs DEF Understood
      <4> HIDE DEF c, l, r
      <4> QED BY <3>4, <4>1
    <3>11. ASSUME tree, OriginOf(ri) = "code" PROVE v = {Result(ri)}
      <4>0. O \subseteq {"code"}
        <5> HIDE DEF O
        <5> QED BY <3>5, <3>7, <3>11, WorstIs
      <4>1. /\ Origin(ri.input0) = "code" /\ Origin(ri.input1) = "code"
            /\ Origin(ri.input2) = "code" BY <4>0
      <4>2. c = {Value(ri.input0)} /\ l = {Value(ri.input1)} /\ r = {Value(ri.input2)}
        BY <3>6, <3>11, <4>1 DEF Understood
      <4> HIDE DEF c, l, r
      <4> QED BY <3>4, <4>2
    <3> HIDE DEF v
    <3> QED BY <3>2, <3>8, <3>9, <3>10, <3>11
  <2>4. CASE ri.opcode = "Ldm"
    <3> DEFINE c == GetOperand(s, ri.input0)
               z == Value(ri.input0)
               v == UNION {ImageValue(b) : b \in c}
               O == {Origin(ri.input0), Read(z)}
    <3>1. ri.input0 \in Reads(ri) BY <2>4 DEF Reads, BinaryOpcodes
    <3>2. T = IF c # {} /\ v = {} THEN s ELSE SetOperand(s, ri.output, v)
      BY <2>4 DEF TransformState, TransformLdm, BinaryOpcodes
    <3>3. c \in Pointers BY <1>1, <3>1, GetOperandIs
    <3>4. Result(ri) = memory[z] BY <2>4 DEF Result, BinaryOpcodes
    <3>5. OriginOf(ri) = Worst(O) BY <2>4 DEF OriginOf, BinaryOpcodes
    <3>6. Understood(s, ri.input0, tree) /\ z \in Values BY <3>1 DEF Understood
    <3>7. O \subseteq Origins BY <3>6 DEF Understood, Read, Origins
    <3>8. Result(ri) \in Values BY <3>4, <3>6 DEF Typed
    <3>9. OriginOf(ri) \in Origins BY <3>5, <3>7, WorstIs
    <3>10. \A b : c = {b} => v = ImageValue(b) OBVIOUS
    <3>11. c = {} => v = {} OBVIOUS
    <3>12. v \in Pointers
      <4> HIDE DEF c, v
      <4> QED BY <3>3, <3>10, <3>11, ImageValueIs, PointersAre
    <3>13. OriginOf(ri) # "foreign" => c \subseteq {z} /\ z \notin stored
      BY <3>5, <3>6, <3>7, WorstIs DEF Understood, Read
    <3>14. ASSUME tree, OriginOf(ri) = "code"
           PROVE  c = {z} /\ ImageValue(z) # {} /\ z \notin stored
      <4>0. O \subseteq {"code"}
        <5> HIDE DEF O
        <5> QED BY <3>5, <3>7, <3>14, WorstIs
      <4>1. Origin(ri.input0) = "code" /\ Read(z) = "code" BY <4>0
      <4>2. c = {z} BY <3>6, <3>14, <4>1 DEF Understood
      <4> QED BY <4>1, <4>2 DEF Read
    <3>15. z \notin stored => ImageValue(z) \subseteq {Result(ri)}
      BY <3>4, ImageValueIs DEF Typed
    <3>16. ASSUME OriginOf(ri) # "foreign" PROVE v \subseteq {Result(ri)}
      <4>1. c = {} \/ c = {z} BY <3>13, <3>16
      <4> HIDE DEF c, v, z
      <4> QED BY <3>10, <3>11, <3>13, <3>15, <3>16, <4>1
    <3>17. ASSUME tree, OriginOf(ri) = "code" PROVE v = {Result(ri)}
      <4> HIDE DEF c, v, z
      <4> QED BY <3>10, <3>14, <3>15, <3>17
    <3>18. CASE ~(c # {} /\ v = {})
      <4> HIDE DEF c, v, z
      <4> QED BY <3>2, <3>8, <3>9, <3>12, <3>16, <3>17, <3>18
    <3>19. CASE c # {} /\ v = {}
      <4>1. T = s BY <3>2, <3>19
      <4>2. ~(tree /\ OriginOf(ri) = "code")
        <5> HIDE DEF v
        <5> QED BY <3>17, <3>19
      <4>3. ri.output \in skip /\ ri.output \notin DOMAIN s BY <2>4
      <4>4. /\ DOMAIN Vals(ri) = DOMAIN values \cup {ri.output}
            /\ \A p \in DOMAIN Vals(ri) \ {ri.output} : Vals(ri)[p] = values[p]
        BY <1>2 DEF Vals, Assign
      <4>5. \A p \in DOMAIN Vals(ri) :
              Orgs(ri)[p] = IF p = ri.output THEN OriginOf(ri) ELSE origin[p]
        BY <2>4 DEF Orgs, Org, Writing, BinaryOpcodes
      <4>6. ASSUME NEW p \in DOMAIN Vals(ri)
            PROVE  /\ Orgs(ri)[p] # "foreign" /\ p \notin skip => p \in DOMAIN s
                   /\ Orgs(ri)[p] # "foreign" /\ p \in DOMAIN s /\ (p \notin skip \/ p \in late) =>
                        s[p] \subseteq {Vals(ri)[p]}
                   /\ tree /\ Orgs(ri)[p] = "code" => p \in DOMAIN s /\ s[p] = {Vals(ri)[p]}
        <5>1. CASE p = ri.output BY <4>2, <4>3, <4>5, <4>6, <5>1
        <5>2. CASE p # ri.output
          <6>1. p \in DOMAIN values /\ Vals(ri)[p] = values[p] /\ Orgs(ri)[p] = origin[p]
            BY <4>4, <4>5, <4>6, <5>2
          <6> QED BY <6>1 DEF Agrees
        <5> QED BY <5>1, <5>2
      <4>7. Agrees(s, Vals(ri), Orgs(ri), tree, skip, late) BY <4>6 DEF Agrees
      <4> QED BY <3>8, <3>9, <4>1, <4>7
    <3> QED BY <3>18, <3>19
  <2> QED BY <1>2, <2>1, <2>2, <2>3, <2>4 DEF Writing
<1>3. CASE ri.opcode \in Writing
  <2>1. Agrees(T, Vals(ri), Orgs(ri), tree, skip, late)
    <3>1. CASE \E v \in Pointers : /\ T = SetOperand(s, ri.output, v)
                                   /\ OriginOf(ri) # "foreign" => v \subseteq {Result(ri)}
                                   /\ tree /\ OriginOf(ri) = "code" => v = {Result(ri)}
      <4>1. PICK v \in Pointers : /\ T = SetOperand(s, ri.output, v)
                                  /\ OriginOf(ri) # "foreign" => v \subseteq {Result(ri)}
                                  /\ tree /\ OriginOf(ri) = "code" => v = {Result(ri)}
        BY <3>1
      <4>2. Result(ri) \in Values /\ OriginOf(ri) \in Origins /\ ri.output \in Places
        BY <1>1, <1>2, <1>3
      <4> HIDE DEF T
      <4> QED BY <1>3, <4>1, <4>2, WriteAgrees
    <3> QED BY <1>2, <1>3, <3>1
  <2>2. /\ DOMAIN Vals(ri) = DOMAIN values \cup {ri.output}
        /\ \A p \in DOMAIN Vals(ri) : Vals(ri)[p] = IF p = ri.output THEN Result(ri) ELSE values[p]
    BY <1>3 DEF Vals, Assign
  <2>3. \A p \in DOMAIN Vals(ri) :
          Orgs(ri)[p] = IF p = ri.output THEN OriginOf(ri) ELSE origin[p]
    BY <1>3 DEF Orgs, Org, Writing, BinaryOpcodes
  <2> QED BY <1>1, <1>2, <1>3, <2>1, <2>2, <2>3 DEF Typed
<1>4. CASE ri.opcode \notin Writing
  <2>1. Vals(ri) = values BY <1>4 DEF Vals
  <2>2. \A p \in DOMAIN values :
          Orgs(ri)[p] = CASE ri.opcode = "Unkn" -> "foreign"
                          [] ri.opcode = "Sys"  -> IF p = Reg(X0) THEN "foreign" ELSE origin[p]
                          [] OTHER              -> origin[p]
    BY <1>4, <2>1 DEF Orgs, Org
  <2>3. Agrees(T, values, Orgs(ri), tree, skip, late)
    <3>1. CASE ri.opcode = "Unkn"
      <4>1. \A p \in DOMAIN values : Orgs(ri)[p] = "foreign" BY <2>2, <3>1
      <4> QED BY <4>1 DEF Agrees
    <3>2. CASE ri.opcode = "Sys"
      <4>1. T = ClearOperand(s, Reg(X0)) BY <3>2 DEF TransformState, BinaryOpcodes
      <4>2. DOMAIN T = DOMAIN s \ {Reg(X0)} /\ \A p \in DOMAIN T : T[p] = s[p]
        BY <4>1 DEF ClearOperand
      <4>3. \A p \in DOMAIN values : Orgs(ri)[p] = IF p = Reg(X0) THEN "foreign" ELSE origin[p]
        BY <2>2, <3>2
      <4> HIDE DEF T
      <4> QED BY <4>2, <4>3 DEF Agrees
    <3>3. CASE ri.opcode \in {"Nop", "Stm"}
      <4>1. T = s BY <3>3 DEF TransformState, BinaryOpcodes
      <4>2. \A p \in DOMAIN values : Orgs(ri)[p] = origin[p] BY <2>2, <3>3
      <4> HIDE DEF T
      <4> QED BY <4>1, <4>2 DEF Agrees
    <3> QED BY <1>1, <1>4, <3>1, <3>2, <3>3
  <2>4. \A p \in DOMAIN values : Orgs(ri)[p] \in Origins /\ values[p] \in Values
    BY <2>2 DEF Typed, Origins
  <2> QED BY <1>1, <1>4, <2>1, <2>3, <2>4
<1> QED BY <1>3, <1>4

-----------------------------------------------------------------------------
(* A step of the run.                                                      *)

\* What the machine does at the k-th REIL instruction of a.
LEMMA StepIs ==
  ASSUME Coded, NEW a \in Code, NEW k \in 0 .. Length(a) - 1, pc = a, offset = k,
         SingleStep(Reil)
  PROVE  LET ri == Insn(a, k) IN
         /\ ri.opcode = "Jcc" /\ Value(ri.input0) # 0 /\ ~Within(ri) =>
              /\ pc' = Value(ri.output) /\ offset' = 0
              /\ values' = WithoutTemporaries(Vals(ri))
         /\ ri.opcode = "Jcc" /\ Value(ri.input0) # 0 /\ Within(ri) =>
              pc' = a /\ offset' = ri.output[2] /\ values' = Vals(ri)
         /\ ~(ri.opcode = "Jcc" /\ Value(ri.input0) # 0) =>
              /\ k + 1 < Length(a) => pc' = a /\ offset' = k + 1 /\ values' = Vals(ri)
              /\ k + 1 = Length(a) =>
                   pc' = a + 1 /\ offset' = 0 /\ values' = WithoutTemporaries(Vals(ri))
         /\ ri.opcode = "Stm" =>
              memory' = [memory EXCEPT ![Value(ri.output)] = Value(ri.input0)]
         /\ ri.opcode # "Stm" => memory' = memory
<1> DEFINE ri == Insn(a, k)
<1>1. Reil[pc][offset + 1] = ri /\ Len(Reil[pc]) = Length(a) BY DEF Reil, Insn, Length
<1>2. Length(a) \in Nat /\ k \in Nat BY InsnIs
<1>3. Within(ri) => ri.output[2] < Length(a) BY <1>2, InsnIs
<1>4. /\ ri.opcode # "Jcc" \/ Value(ri.input0) = 0 => Advance(Reil, Vals(ri))
      /\ ri.opcode = "Stm" =>
           memory' = [memory EXCEPT ![Value(ri.output)] = Value(ri.input0)]
      /\ ri.opcode # "Stm" => memory' = memory
      /\ ri.opcode = "Jcc" /\ Value(ri.input0) # 0 =>
           IF ri.output[1] = "off" THEN Proceed(Reil, ri.output[2], values)
           ELSE pc' = Value(ri.output) /\ offset' = 0 /\ values' = WithoutTemporaries(values)
  <2> HIDE DEF ri
  <2>1. \/ Write(Reil, ri) \/ Stm(Reil, ri) \/ Nothing(Reil, ri)
        \/ Fall(Reil, ri) \/ Jump(Reil, ri) \/ Leave(Reil, ri)
    BY <1>1 DEF SingleStep
  <2> QED BY <2>1 DEF Write, Stm, Nothing, Fall, Jump, Leave, Vals, Writing, BinaryOpcodes
<1>5. ri.opcode = "Jcc" => Vals(ri) = values BY DEF Vals, Writing, BinaryOpcodes
<1>6. CASE ri.opcode = "Jcc" /\ Value(ri.input0) # 0 /\ ~Within(ri)
  <2> HIDE DEF ri
  <2>1. ri.output[1] # "off" BY <1>6 DEF Within
  <2>2. ri.opcode # "Stm" BY <1>6
  <2>3. SUFFICES pc' = Value(ri.output) /\ offset' = 0
                 /\ values' = WithoutTemporaries(Vals(ri)) /\ memory' = memory
    BY <1>6, <2>2 DEF ri
  <2> QED BY <1>4, <1>5, <1>6, <2>1
<1>7. CASE ri.opcode = "Jcc" /\ Value(ri.input0) # 0 /\ Within(ri)
  <2> HIDE DEF ri
  <2>1. ri.output[1] = "off" /\ ri.output[2] < Length(a) BY <1>3, <1>7 DEF Within
  <2>2. Proceed(Reil, ri.output[2], values) /\ memory' = memory BY <1>4, <1>7, <2>1
  <2>3. pc' = a /\ offset' = ri.output[2] /\ values' = values BY <1>1, <2>1, <2>2 DEF Proceed
  <2> QED BY <1>4, <1>5, <1>7, <2>3 DEF ri
<1>8. CASE ~(ri.opcode = "Jcc" /\ Value(ri.input0) # 0)
  <2> HIDE DEF ri
  <2>1. Proceed(Reil, k + 1, Vals(ri)) BY <1>4, <1>8 DEF Advance
  <2>2. k + 1 < Length(a) => pc' = a /\ offset' = k + 1 /\ values' = Vals(ri)
    BY <1>1, <2>1 DEF Proceed
  <2>3. k + 1 = Length(a) =>
          pc' = a + 1 /\ offset' = 0 /\ values' = WithoutTemporaries(Vals(ri))
    BY <1>1, <1>2, <2>1 DEF Proceed
  <2> QED BY <1>4, <1>8, <2>2, <2>3 DEF ri
<1> QED BY <1>6, <1>7, <1>8

LEMMA NextOriginIs ==
  ASSUME NEW ri, NEW p \in DOMAIN values'
  PROVE  NextOrigin(ri)[p] = Org(ri, p) /\ DOMAIN NextOrigin(ri) = DOMAIN values'
BY DEF NextOrigin, Org, Writing, BinaryOpcodes

\* What comes after an instruction, for any state that understands what it reads.
LEMMA Executed ==
  ASSUME NEW s, IsState(s), NEW tree, NEW skip, NEW late,
         Agrees(s, values, origin, tree, skip, late),
         Typed(values, origin, memory, stored),
         NEW ri, Operates(ri),
         \A operand \in Reads(ri) : Understood(s, operand, tree),
         ri.opcode = "Ldm" => ri.output \in skip /\ ri.output \notin DOMAIN s
  PROVE  /\ DOMAIN Vals(ri) = DOMAIN values \cup Writes(ri)
         /\ \A p \in DOMAIN Vals(ri) : Vals(ri)[p] \in Values /\ Org(ri, p) \in Origins
         /\ ri.opcode = "Jcc" => Vals(ri) = values /\ \A p : Org(ri, p) = origin[p]
<1>1. \A p \in DOMAIN Vals(ri) : Orgs(ri)[p] = Org(ri, p) BY DEF Orgs
<1>2. CASE ri.opcode = "Jcc"
  <2>1. ri.opcode \notin Writing BY <1>2 DEF Writing, BinaryOpcodes
  <2>2. Vals(ri) = values /\ \A p : Org(ri, p) = origin[p]
    BY <1>2, <2>1 DEF Vals, Org
  <2>3. Writes(ri) = {} BY <2>1 DEF Writes
  <2> QED BY <2>2, <2>3 DEF Typed
<1>3. CASE ri.opcode # "Jcc"
  BY <1>1, <1>3, Executes
<1> QED BY <1>2, <1>3

LEMMA WithoutTemporariesIs ==
  ASSUME NEW vals
  PROVE  /\ DOMAIN WithoutTemporaries(vals) = {p \in DOMAIN vals : ~Temporary(p)}
         /\ \A p \in DOMAIN WithoutTemporaries(vals) : WithoutTemporaries(vals)[p] = vals[p]
BY DEF WithoutTemporaries, Temporary

LEMMA TypedNext ==
  ASSUME Typed(values, origin, memory, stored),
         NEW ri, DOMAIN Vals(ri) = DOMAIN values \cup Writes(ri),
         \A p \in DOMAIN Vals(ri) : Vals(ri)[p] \in Values /\ Org(ri, p) \in Origins,
         values' \in {Vals(ri), WithoutTemporaries(Vals(ri))},
         origin' = NextOrigin(ri),
         stored' = IF ri.opcode = "Stm" THEN stored \cup {Value(ri.output)} ELSE stored,
         ri.opcode = "Stm" => /\ Value(ri.output) \in Values /\ Value(ri.input0) \in Values
                              /\ memory' = [memory EXCEPT ![Value(ri.output)] = Value(ri.input0)],
         ri.opcode # "Stm" => memory' = memory
  PROVE  Typed(values', origin', memory', stored')
<1>1. DOMAIN origin' = DOMAIN values' BY DEF NextOrigin
<1>2. /\ DOMAIN values' \subseteq DOMAIN Vals(ri)
      /\ \A p \in DOMAIN values' : values'[p] = Vals(ri)[p]
      /\ \A p \in DOMAIN Vals(ri) : ~Temporary(p) => p \in DOMAIN values'
  BY WithoutTemporariesIs
<1>3. {Reg(r) : r \in Registers} \subseteq DOMAIN values'
  <2>1. \A r \in Registers : Reg(r) \in DOMAIN values /\ ~Temporary(Reg(r))
    BY DEF Typed, Temporary, Reg
  <2> QED BY <1>2, <2>1
<1>4. \A p \in DOMAIN values' : values'[p] \in Values /\ origin'[p] \in Origins
  BY <1>2, NextOriginIs
<1>5. memory' \in [Values -> Values]
  <2>1. memory \in [Values -> Values] BY DEF Typed
  <2> QED BY <2>1
<1>6. \A b \in DOMAIN Image \ stored' : memory'[b] = Image[b].value
  <2> TAKE b \in DOMAIN Image \ stored'
  <2>1. memory \in [Values -> Values] /\ b \in Values BY ImageAssumption DEF Typed
  <2>2. b \notin stored /\ (ri.opcode = "Stm" => b # Value(ri.output)) OBVIOUS
  <2>3. memory'[b] = memory[b] BY <2>1, <2>2
  <2> QED BY <2>2, <2>3 DEF Typed
<1> QED BY <1>1, <1>3, <1>4, <1>5, <1>6 DEF Typed

LEMMA MadeFinite ==
  ASSUME Coded PROVE IsFiniteSet(Made)
<1> DEFINE F(a) == UNION {Out(a, o) : o \in 0 .. Length(a) - 1}
<1>1. IsFiniteSet(Created)
  <2>1. IsFiniteSet(Code)
    <3>1. 1 \in Int /\ Size \in Int BY Numbers
    <3> QED BY <3>1, FS_Interval DEF Code
  <2>2. Created \in SUBSET Code BY CreatedReached
  <2> QED BY <2>1, <2>2, FS_Subset
<1>2. ASSUME NEW a \in Created PROVE IsFiniteSet(F(a))
  <2> DEFINE I == 0 .. Length(a) - 1
             T == {Out(a, o) : o \in I}
             f == [o \in I |-> Out(a, o)]
  <2>1. IsFiniteSet(I)
    <3>1. 0 \in Int /\ Length(a) - 1 \in Int BY CreatedReached, InsnIs
    <3> QED BY <3>1, FS_Interval
  <2>2. \A o : IsFiniteSet(Out(a, o))
    <3> TAKE o
    <3>1. IsFiniteSet(FlowOut(a, o)) BY FS_Singleton, FS_EmptySet, Zenon DEF FlowOut
    <3>2. IsFiniteSet(JumpOut(a, o)) BY FS_Singleton, FS_EmptySet, Zenon DEF JumpOut
    <3> QED BY <3>1, <3>2, FS_Union DEF Out
  <2>3. f \in Surjection(I, T) BY DEF Surjection
  <2>4. IsFiniteSet(T) BY <2>1, <2>3, FS_Surjection
  <2>5. \A X \in T : IsFiniteSet(X) BY <2>2
  <2> QED BY <2>4, <2>5, FS_UNION
<1>3. IsFiniteSet({F(a) : a \in Created})
  <2> DEFINE T == {F(a) : a \in Created}
             f == [a \in Created |-> F(a)]
  <2> HIDE DEF F
  <2>1. f \in Surjection(Created, T) BY DEF Surjection
  <2> QED BY <1>1, <2>1, FS_Surjection
<1>4. IsFiniteSet(UNION {F(a) : a \in Created})
  <2> HIDE DEF F
  <2> QED BY <1>2, <1>3, FS_UNION
<1>5. IsFiniteSet({Edge(0, Node(1, 0), "kNativeCall")}) BY FS_Singleton
<1> QED BY <1>4, <1>5, FS_Union DEF Made

\* In a tree one edge with a state leads to a node.
LEMMA OneInto ==
  ASSUME Coded, flow_graph = GraphOf(Made), DOMAIN edge_states \subseteq Made, Tree,
         NEW e \in DOMAIN edge_states, e.target # 0,
         NEW f \in DOMAIN edge_states, f.target = e.target
  PROVE  f = e
<1> DEFINE m == e.target
           K == EdgesAt(flow_graph.incoming, m) \cap DOMAIN edge_states
<1>1. e \in Made /\ f \in Made OBVIOUS
<1>2. m \in DOMAIN flow_graph.incoming \ {0} BY <1>1, GraphOfMaps DEF Targets
<1>3. EdgesAt(flow_graph.incoming, m) = {g \in Made : g.target = m} BY GraphOfMaps
<1>4. e \in K /\ f \in K /\ K \in SUBSET Made BY <1>1, <1>3
<1>5. IsFiniteSet(K) BY <1>4, MadeFinite, FS_Subset
<1>6. Cardinality(K) <= 1
  <2>1. Cardinality(K) <= (IF m = Node(1, 0) THEN 0 ELSE 1) BY <1>2 DEF Tree
  <2>2. Cardinality(K) \in Nat BY <1>5, FS_CardinalityType
  <2> QED BY <2>1, <2>2
<1> SUFFICES ASSUME f # e PROVE FALSE OBVIOUS
<1> DEFINE R == K \ {e}
<1>7. f \in R /\ IsFiniteSet(R) /\ Cardinality(R) = Cardinality(K) - 1
  <2> HIDE DEF K
  <2> QED BY <1>4, <1>5, FS_RemoveElement
<1>8. Cardinality(R) \in Nat /\ Cardinality(R) # 0
  <2> HIDE DEF R
  <2> QED BY <1>7, FS_CardinalityType, FS_EmptySet
<1> HIDE DEF K, R
<1>9. Cardinality(K) \in Nat BY <1>5, FS_CardinalityType
<1> QED BY <1>6, <1>7, <1>8, <1>9

\* What is merged at the start of a block agrees with the values when the state on the
\* edge that the run came over does.
LEMMA Merged ==
  ASSUME Coded, flow_graph = GraphOf(Made), DOMAIN edge_states \subseteq Made,
         NEW e \in DOMAIN edge_states, e.kind \notin LeavingKinds, e.target # 0,
         NEW a \in Code, NEW o \in 0 .. Width - 1, e.target = Node(a, o),
         NEW b \in Code, NEW vals, NEW orig, b = a \/ \A p \in DOMAIN vals : ~Temporary(p),
         NEW late, Agrees(edge_states[e], vals, orig, Tree, Loaded(b), late),
         NEW end, NEW S, SolvedWith(Reil, Made, edge_states, e.target, end, S)
  PROVE  Agrees(Merge(S), vals, orig, Tree, Loaded(a), LoadedFrom(code[a].reil, o))
<1> DEFINE m == e.target
           s == edge_states[e]
           M == Merge(S)
<1>1. s \in S /\ \A t \in S : Before(Reil, t, m) /\ IsState(t)
  <2>1. s \in Arriving(edge_states, m) BY DEF Arriving
  <2> QED BY <2>1 DEF SolvedWith, Before
<1>2. /\ DOMAIN M = UNION {DOMAIN t : t \in S}
      /\ \A p \in DOMAIN s : p \in DOMAIN M /\ M[p] \in {{}, s[p]}
      /\ S = {s} => M = s
  <2>1. \A t \in S : IsState(t) BY <1>1
  <2>2. /\ DOMAIN M = UNION {DOMAIN t : t \in S}
        /\ \A t \in S : \A p \in DOMAIN t : M[p] \in {{}, t[p]}
        /\ \A t : S = {t} => M = t
    BY <2>1, MergeIs
  <2> HIDE DEF M, s
  <2> QED BY <1>1, <2>2
<1>3. ASSUME Tree PROVE M = s
  <2>1. \A f \in DOMAIN edge_states : f.target = m => f = e BY <1>3, OneInto
  <2>2. ~Called(edge_states, m) BY <2>1 DEF Called
  <2>3. S = Into(edge_states, m) BY <2>2 DEF SolvedWith
  <2>4. Into(edge_states, m) = {s} BY <2>1 DEF Into
  <2> QED BY <1>2, <2>3, <2>4
<1>4. ASSUME NEW p \in LoadedFrom(code[a].reil, o) PROVE p \notin DOMAIN M
  <2> SUFFICES ASSUME p \in DOMAIN M PROVE FALSE OBVIOUS
  <2>1. PICK t \in S : p \in DOMAIN t BY <1>2
  <2>2. o \in Nat /\ a \in Nat BY Numbers
  <2>3. AddressOf(m) = a /\ OffsetOf(m) = o BY <2>2, NodeParts
  <2>4. Temporary(p) /\ p \notin Written(Reil, a, o) BY <1>4, <2>2, LoadsAre
  <2> QED BY <1>1, <2>1, <2>3, <2>4 DEF Before
<1>5. ASSUME NEW p \in DOMAIN vals, p \notin Loaded(a) PROVE p \notin Loaded(b)
  BY <1>5, LoadsAre
<1> HIDE DEF M, s
<1>6. ASSUME NEW p \in DOMAIN vals
      PROVE  /\ orig[p] # "foreign" /\ p \notin Loaded(a) => p \in DOMAIN M
             /\ orig[p] # "foreign" /\ p \in DOMAIN M
                /\ (p \notin Loaded(a) \/ p \in LoadedFrom(code[a].reil, o)) => M[p] \subseteq {vals[p]}
             /\ Tree /\ orig[p] = "code" => p \in DOMAIN M /\ M[p] = {vals[p]}
  <2>1. /\ orig[p] # "foreign" /\ p \notin Loaded(b) => p \in DOMAIN s /\ s[p] \subseteq {vals[p]}
        /\ Tree /\ orig[p] = "code" => p \in DOMAIN s /\ s[p] = {vals[p]}
    BY <1>6 DEF Agrees, s
  <2>2. ASSUME orig[p] # "foreign", p \notin Loaded(a)
        PROVE  p \in DOMAIN M /\ M[p] \subseteq {vals[p]}
    <3>1. p \notin Loaded(b) BY <1>5, <1>6, <2>2
    <3>2. p \in DOMAIN s /\ s[p] \subseteq {vals[p]} BY <2>1, <2>2, <3>1
    <3> QED BY <1>2, <3>2
  <2>3. Tree /\ orig[p] = "code" => p \in DOMAIN M /\ M[p] = {vals[p]} BY <1>3, <2>1
  <2> QED BY <1>4, <2>2, <2>3
<1> QED BY <1>6 DEF Agrees, M

\* A state and a run that have come to the k-th instruction of a, in a block that
\* starts at its o-th.
Met(a, o, k, s, tree) ==
  /\ Before(Reil, s, Node(a, k)) /\ Firsts(code[a].reil)[k + 1] \subseteq DOMAIN values
  /\ Typed(values, origin, memory, stored)
  /\ Agrees(s, values, origin, tree, Loaded(a), LoadedFrom(code[a].reil, o))

LEMMA MetIs ==
  ASSUME Coded, NEW x, NEW y, NEW a, NEW o, NEW q, InBlock(x, y, a, o, q), x \in Targets(Made),
         NEW k \in o .. q, NEW s, NEW tree, Met(a, o, k, s, tree)
  PROVE  LET ri == Insn(a, k) IN
         /\ IsState(s) /\ Operates(ri)
         /\ \A operand \in Reads(ri) : Understood(s, operand, tree)
         /\ DOMAIN Vals(ri) = DOMAIN values \cup Writes(ri)
         /\ \A p \in DOMAIN Vals(ri) : Vals(ri)[p] \in Values /\ Org(ri, p) \in Origins
         /\ ri.opcode # "Jcc" => \A e :
              Agrees(TransformState(s, ri, e), Vals(ri), Orgs(ri), tree, Loaded(a),
                     LoadedFrom(code[a].reil, o))
<1> DEFINE ri == Insn(a, k)
           late == LoadedFrom(code[a].reil, o)
<1>1. a \in Code /\ k \in 0 .. Length(a) - 1 /\ k \in Nat /\ a \in Nat
      /\ AddressOf(Node(a, k)) = a /\ OffsetOf(Node(a, k)) = k
  BY InBlockIs
<1>2. IsState(s) /\ Operates(ri) BY <1>1, InsnIs DEF Met, Before
<1>3. /\ Typed(values, origin, memory, stored)
      /\ Agrees(s, values, origin, tree, Loaded(a), late)
      /\ Before(Reil, s, Node(a, k)) /\ Firsts(code[a].reil)[k + 1] \subseteq DOMAIN values
  BY DEF Met
<1>4. \A operand \in Reads(ri) : Understood(s, operand, tree) BY <1>3, Reading
<1>5. ASSUME ri.opcode = "Ldm" PROVE ri.output \in Loaded(a) /\ ri.output \notin DOMAIN s
  <2>1. k + 1 \in DOMAIN code[a].reil /\ ri = code[a].reil[k + 1] /\ k + 1 > k
    BY <1>1, InsnIs DEF Insn
  <2>2. ri.output \in LoadedFrom(code[a].reil, k) BY <1>5, <2>1 DEF LoadedFrom
  <2>3. ri.output \in Loaded(a) BY <1>5, <2>1 DEF Loaded
  <2>4. Temporary(ri.output) /\ ri.output \notin Written(Reil, a, k)
    BY <1>1, <2>2, <2>3, LoadsAre
  <2> QED BY <1>1, <1>3, <2>3, <2>4 DEF Before
<1> HIDE DEF ri, late
<1>6. /\ DOMAIN Vals(ri) = DOMAIN values \cup Writes(ri)
      /\ \A p \in DOMAIN Vals(ri) : Vals(ri)[p] \in Values /\ Org(ri, p) \in Origins
      /\ ri.opcode = "Jcc" => Vals(ri) = values /\ \A p : Org(ri, p) = origin[p]
  BY <1>2, <1>3, <1>4, <1>5, Executed
<1>7. ASSUME ri.opcode # "Jcc", NEW e
      PROVE  Agrees(TransformState(s, ri, e), Vals(ri), Orgs(ri), tree, Loaded(a), late)
  BY <1>2, <1>3, <1>4, <1>5, <1>7, Executes
<1> QED BY <1>2, <1>4, <1>6, <1>7 DEF ri, late

\* The way over an edge, out of the native instruction or within it.
LEMMA TakenStep ==
  ASSUME Coded, NEW a \in Code, NEW q \in 0 .. Length(a) - 1, pc = a, offset = q,
         SingleStep(Reil), NEW e, OutOf(a, q, e),
         Insn(a, q).opcode = "Jcc" /\ Value(Insn(a, q).input0) # 0
           <=> e.kind \notin {"kFlow", "kNativeFlow"}
  PROVE  /\ e.kind \in NativeKinds =>
              values' = WithoutTemporaries(Vals(Insn(a, q))) /\ offset' = 0
         /\ e.kind \notin NativeKinds =>
              /\ values' = Vals(Insn(a, q)) /\ pc' = a /\ offset' \in 0 .. Length(a) - 1
              /\ offset' + 1 \in After(code[a].reil, q + 1)
<1> DEFINE ri == Insn(a, q)
           jumps == ri.opcode = "Jcc" /\ Value(ri.input0) # 0
<1>1. /\ jumps /\ ~Within(ri) => offset' = 0 /\ values' = WithoutTemporaries(Vals(ri))
      /\ jumps /\ Within(ri) => pc' = a /\ offset' = ri.output[2] /\ values' = Vals(ri)
      /\ ~jumps /\ q + 1 < Length(a) => pc' = a /\ offset' = q + 1 /\ values' = Vals(ri)
      /\ ~jumps /\ q + 1 = Length(a) => offset' = 0 /\ values' = WithoutTemporaries(Vals(ri))
  BY StepIs
<1>2. /\ Length(a) \in Nat /\ q \in Nat /\ DOMAIN code[a].reil = 1 .. Length(a)
      /\ ri = code[a].reil[q + 1]
      /\ Within(ri) => ri.output[2] \in q + 1 .. Length(a) - 1
  BY InsnIs DEF Insn
<1>3. CASE jumps /\ e.kind \in NativeKinds
  <2>1. ~Within(ri) BY <1>3 DEF OutOf, NativeKinds
  <2> QED BY <1>1, <1>3, <2>1
<1>4. CASE jumps /\ e.kind \notin NativeKinds
  <2>1. Within(ri) BY <1>4 DEF OutOf
  <2>2. ri.output[2] + 1 \in After(code[a].reil, q + 1) BY <1>2, <2>1 DEF After
  <2>3. ri.output[2] \in 0 .. Length(a) - 1 BY <1>2, <2>1
  <2> QED BY <1>1, <1>4, <2>1, <2>2, <2>3
<1>5. CASE ~jumps
  <2>1. e.kind \in {"kFlow", "kNativeFlow"} BY <1>5
  <2>2. e.kind \in NativeKinds => q + 1 = Length(a) BY <2>1 DEF OutOf, NativeKinds
  <2>3. e.kind \notin NativeKinds => q + 1 < Length(a) BY <2>1 DEF OutOf
  <2>4. q + 1 < Length(a) => (q + 1) + 1 \in After(code[a].reil, q + 1) BY <1>2 DEF After
  <2>5. q + 1 < Length(a) => q + 1 \in 0 .. Length(a) - 1 BY <1>2
  <2> QED BY <1>1, <1>5, <2>2, <2>3, <2>4, <2>5
<1> QED BY <1>3, <1>4, <1>5

\* The edge that the machine goes over is valid, and the state that Transform puts on it
\* agrees with the new values.
LEMMA TakenAgrees ==
  ASSUME Coded, NEW x, NEW y, NEW a, NEW o, NEW q, InBlock(x, y, a, o, q), x \in Targets(Made),
         NEW s, NEW tree, Met(a, o, q, s, tree),
         pc = a, offset = q, SingleStep(Reil), origin' = NextOrigin(Insn(a, q)),
         Insn(a, q).opcode = "Jcc" =>
           /\ Origin(Insn(a, q).input0) # "foreign"
           /\ Insn(a, q).output[1] # "off" => Origin(Insn(a, q).output) # "foreign",
         NEW e, OutOf(a, q, e), e.target = Node(pc', offset') \/ e.target = 0,
         Insn(a, q).opcode = "Jcc" /\ Value(Insn(a, q).input0) # 0
           <=> e.kind \notin {"kFlow", "kNativeFlow"}
  PROVE  /\ Valid(s, Insn(a, q), e)
         /\ Agrees(Transform(s, Insn(a, q), e), values', origin', tree, Loaded(a),
                   LoadedFrom(code[a].reil, o))
<1> DEFINE ri == Insn(a, q)
           late == LoadedFrom(code[a].reil, o)
           T == TransformState(s, ri, e)
           jumps == ri.opcode = "Jcc" /\ Value(ri.input0) # 0
<1>1. a \in Code /\ q \in 0 .. Length(a) - 1 /\ q \in o .. q /\ a \in Nat BY InBlockIs
<1>2. /\ IsState(s) /\ Operates(ri)
      /\ \A operand \in Reads(ri) : Understood(s, operand, tree)
      /\ ri.opcode = "Jcc" => Vals(ri) = values /\ \A p : Org(ri, p) = origin[p]
      /\ ri.opcode # "Jcc" => Agrees(T, Vals(ri), Orgs(ri), tree, Loaded(a), late)
  <2>1. IsState(s) /\ Operates(ri) BY <1>1, MetIs, Zenon
  <2>3. \A operand \in Reads(ri) : Understood(s, operand, tree) BY <1>1, MetIs, Zenon
  <2>4. ri.opcode = "Jcc" => Vals(ri) = values BY DEF Vals, Writing, BinaryOpcodes
  <2>5. ri.opcode = "Jcc" => \A p : Org(ri, p) = origin[p] BY DEF Org, Writing, BinaryOpcodes
  <2>2. ri.opcode # "Jcc" => Agrees(T, Vals(ri), Orgs(ri), tree, Loaded(a), late)
    BY <1>1, MetIs, Zenon
  <2> QED BY <2>1, <2>2, <2>3, <2>4, <2>5
<1>3. /\ jumps /\ ~Within(ri) =>
           pc' = Value(ri.output) /\ offset' = 0 /\ values' = WithoutTemporaries(Vals(ri))
      /\ jumps /\ Within(ri) => values' = Vals(ri)
      /\ ~jumps /\ q + 1 < Length(a) => values' = Vals(ri)
      /\ ~jumps /\ q + 1 = Length(a) => values' = WithoutTemporaries(Vals(ri))
  BY <1>1, StepIs
<1>4. ri.opcode = "Jcc" => ri.input0 \in Reads(ri) /\ (~Within(ri) => ri.output \in Reads(ri))
  BY DEF Reads, Within, BinaryOpcodes
<1>5. ASSUME jumps, e.kind \in NativeKinds
      PROVE  /\ ~Within(ri) /\ e.target = Node(Whither(a), 0)
             /\ e.target # 0 => AddressOf(e.target) = Value(ri.output)
  <2>1. ~Within(ri) /\ e.target = Node(Whither(a), 0) BY <1>5 DEF OutOf, NativeKinds
  <2>2. Understood(s, ri.output, tree) BY <1>2, <1>4, <1>5, <2>1
  <2>3. Value(ri.output) \in Nat /\ 0 \in 0 .. Width - 1 BY <2>2, Numbers DEF Understood
  <2>4. e.target # 0 => e.target = Node(Value(ri.output), 0) BY <1>3, <1>5, <2>1
  <2> QED BY <2>1, <2>3, <2>4, NodeParts
<1>6. Valid(s, ri, e)
  <2> DEFINE predicate == GetOperand(s, ri.input0)
             target == GetOperand(s, ri.output)
             flow == e.kind \in {"kFlow", "kNativeFlow"}
  <2> SUFFICES ASSUME ri.opcode = "Jcc", predicate # {}
      PROVE  IF predicate = {0} THEN flow
             ELSE /\ ~flow
                  /\ e.kind \in {"kNativeJump", "kNativeCall"} /\ e.target # 0 =>
                       target \in {{}, {AddressOf(e.target)}}
    BY DEF Valid
  <2>1. predicate \subseteq {Value(ri.input0)} BY <1>2, <1>4 DEF Understood
  <2>2. predicate = {Value(ri.input0)} BY <2>1
  <2>3. CASE predicate = {0}
    <3>1. Value(ri.input0) = 0 BY <2>2, <2>3
    <3> QED BY <2>3, <3>1
  <2>4. CASE predicate # {0}
    <3>1. Value(ri.input0) # 0 BY <2>2, <2>4
    <3>2. jumps /\ ~flow BY <3>1
    <3>3. ASSUME e.kind \in {"kNativeJump", "kNativeCall"}, e.target # 0
          PROVE  target \in {{}, {AddressOf(e.target)}}
      <4>1. e.kind \in NativeKinds BY <3>3 DEF NativeKinds
      <4>2. ~Within(ri) /\ AddressOf(e.target) = Value(ri.output) BY <1>5, <3>2, <3>3, <4>1
      <4>3. ri.output[1] # "off" BY <4>2 DEF Within
      <4>4. target \subseteq {Value(ri.output)} BY <1>2, <1>4, <4>2, <4>3 DEF Understood
      <4> HIDE DEF target
      <4> QED BY <4>2, <4>4
    <3> QED BY <2>4, <3>2, <3>3
  <2> QED BY <2>3, <2>4
<1>7. Agrees(T, Vals(ri), Orgs(ri), tree, Loaded(a), late)
  <2>1. CASE ri.opcode # "Jcc" BY <1>2, <2>1
  <2>2. CASE ri.opcode = "Jcc"
    <3>1. Vals(ri) = values BY <1>2, <2>2
    <3>2. \A p \in DOMAIN values : Orgs(ri)[p] = origin[p] BY <1>2, <2>2, <3>1 DEF Orgs
    <3>3. T = TransformJcc(s, ri, e) BY <2>2 DEF TransformState, BinaryOpcodes
    <3>4. Agrees(s, values, origin, tree, Loaded(a), late) BY DEF Met
    <3>5. CASE GetOperand(s, ri.input0) = {} /\ e.kind = "kNativeJump"
      <4>1. jumps /\ e.kind \in NativeKinds BY <3>5 DEF NativeKinds
      <4>2. ~Within(ri) /\ e.target = Node(Whither(a), 0) BY <1>5, <4>1
      <4>3. ri.input0[1] # "imm"
        <5>1. ri.input0 \in Operands BY <1>2, <1>4, <2>2 DEF Operates
        <5> QED BY <1>2, <3>5, <5>1, GetOperandIs
      <4>4. Class(a) = "maybe_branch" /\ Target(a) # 0 /\ ri.output \in Places
        BY <1>1, <2>2, <4>2, <4>3, InsnIs
      <4>5. e.target # 0
        <5>1. Whither(a) = Target(a) /\ Whither(a) \in Nat BY <1>1, <4>4, WhitherIs DEF Whither
        <5>2. 0 \in 0 .. Width - 1 BY Numbers
        <5> QED BY <4>2, <4>4, <5>1, <5>2, NodeOrder
      <4>6. AddressOf(e.target) = Value(ri.output) BY <1>5, <4>1, <4>5
      <4>7. Value(ri.output) = values[ri.output] BY <4>4, PlacesAre DEF Value
      <4> DEFINE w == {AddressOf(e.target)}
      <4>8. T = SetOperand(s, ri.output, w) BY <3>3, <3>5 DEF TransformJcc
      <4>9. /\ DOMAIN T = DOMAIN s \cup {ri.output}
            /\ \A p \in DOMAIN T : T[p] = IF p = ri.output THEN w ELSE s[p]
        BY <4>8 DEF SetOperand
      <4>10. w = {values[ri.output]} BY <4>6, <4>7
      <4> HIDE DEF T, w, ri, late
      <4>11. ASSUME NEW p \in DOMAIN values
             PROVE  /\ Orgs(ri)[p] # "foreign" /\ p \notin Loaded(a) => p \in DOMAIN T
                    /\ Orgs(ri)[p] # "foreign" /\ p \in DOMAIN T
                       /\ (p \notin Loaded(a) \/ p \in late) => T[p] \subseteq {values[p]}
                    /\ tree /\ Orgs(ri)[p] = "code" => p \in DOMAIN T /\ T[p] = {values[p]}
        <5>1. CASE p = ri.output
          <6>1. p \in DOMAIN T /\ T[p] = {values[p]} BY <4>9, <4>10, <5>1
          <6> QED BY <6>1
        <5>2. CASE p # ri.output
          <6>1. (p \in DOMAIN T <=> p \in DOMAIN s) /\ (p \in DOMAIN T => T[p] = s[p])
            BY <4>9, <5>2
          <6>2. Orgs(ri)[p] = origin[p] BY <3>2, <4>11
          <6> QED BY <3>4, <4>11, <6>1, <6>2 DEF Agrees
        <5> QED BY <5>1, <5>2
      <4> QED BY <3>1, <4>11 DEF Agrees
    <3>6. CASE ~(GetOperand(s, ri.input0) = {} /\ e.kind = "kNativeJump")
      <4>1. T = s BY <3>3, <3>6 DEF TransformJcc
      <4> HIDE DEF T, ri, late
      <4> QED BY <3>1, <3>2, <3>4, <4>1 DEF Agrees
    <3> QED BY <3>5, <3>6
  <2> QED BY <2>1, <2>2
<1>8. IF e.kind \in NativeKinds THEN values' = WithoutTemporaries(Vals(ri)) ELSE values' = Vals(ri)
  BY <1>1, TakenStep
<1>9. \A p \in DOMAIN values' : origin'[p] = Org(ri, p) BY NextOriginIs
<1>10. \A p \in DOMAIN Vals(ri) : Orgs(ri)[p] = Org(ri, p) BY DEF Orgs
<1>11. CASE e.kind \in NativeKinds
  <2>1. Transform(s, ri, e) = ClearTemporaries(T) BY <1>11 DEF Transform
  <2>2. /\ DOMAIN ClearTemporaries(T) = {p \in DOMAIN T : ~Temporary(p)}
        /\ \A p \in DOMAIN ClearTemporaries(T) : ClearTemporaries(T)[p] = T[p]
    BY DEF ClearTemporaries, Temporary
  <2>3. /\ \A p \in DOMAIN values' : p \in DOMAIN Vals(ri) /\ ~Temporary(p)
        /\ \A p \in DOMAIN values' : values'[p] = Vals(ri)[p] /\ origin'[p] = Orgs(ri)[p]
    BY <1>8, <1>9, <1>10, <1>11, WithoutTemporariesIs
  <2> HIDE DEF T, ri, late
  <2>4. Agrees(ClearTemporaries(T), values', origin', tree, Loaded(a), late)
    BY <1>7, <2>2, <2>3 DEF Agrees
  <2> QED BY <1>6, <2>1, <2>4 DEF T, ri, late
<1>12. CASE e.kind \notin NativeKinds
  <2>1. Transform(s, ri, e) = T BY <1>12 DEF Transform
  <2>2. values' = Vals(ri) /\ \A p \in DOMAIN values' : origin'[p] = Orgs(ri)[p]
    BY <1>8, <1>9, <1>10, <1>12
  <2> HIDE DEF T, ri, late
  <2>3. Agrees(T, values', origin', tree, Loaded(a), late)
    BY <1>7, <2>2 DEF Agrees
  <2> QED BY <1>6, <2>1, <2>3 DEF T, ri, late
<1> QED BY <1>11, <1>12

\* A step within a block.
LEMMA MidStep ==
  ASSUME Coded, NEW x, NEW y, NEW a, NEW o, NEW q, InBlock(x, y, a, o, q), x \in Targets(Made),
         NEW k \in o .. q - 1, NEW S, NEW tree, Met(a, o, k, Along(S, a, o, k), tree),
         pc = a, offset = k, SingleStep(Reil), origin' = NextOrigin(Insn(a, k))
  PROVE  /\ pc' = a /\ offset' = k + 1 /\ Firsts(code[a].reil)[k + 2] \subseteq DOMAIN values'
         /\ Agrees(Along(S, a, o, k + 1), values', origin', tree, Loaded(a),
                   LoadedFrom(code[a].reil, o))
<1> DEFINE ri == Insn(a, k)
           s == Along(S, a, o, k)
           T == Along(S, a, o, k + 1)
           late == LoadedFrom(code[a].reil, o)
<1>1. /\ a \in Code /\ k \in o .. q /\ k + 1 \in o .. q /\ k \in Nat /\ Length(a) \in Nat
      /\ k \in 0 .. Length(a) - 1 /\ k + 1 \in 0 .. Length(a) - 1
  <2>1. k \in o .. q /\ k + 1 \in o .. q BY InBlockIs
  <2> QED BY <2>1, InBlockIs
<1>2. PICK e : T = TransformState(s, ri, e) /\ ri.opcode # "Jcc" BY AlongIs
<1>3. DOMAIN Vals(ri) = DOMAIN values \cup Writes(ri) BY <1>1, MetIs
<1>4. Agrees(TransformState(s, ri, e), Vals(ri), Orgs(ri), tree, Loaded(a), late)
  BY <1>1, <1>2, MetIs, Zenon
<1>5. pc' = a /\ offset' = k + 1 /\ values' = Vals(ri)
  <2>1. k + 1 < Length(a) BY <1>1
  <2> QED BY <1>1, <1>2, <2>1, StepIs
<1>6. \A p \in DOMAIN values' : origin'[p] = Orgs(ri)[p]
  BY <1>5, NextOriginIs DEF Orgs
<1>7. Firsts(code[a].reil)[k + 2] \subseteq DOMAIN values'
  <2>1. FirstsOf(code[a].reil, Firsts(code[a].reil)) BY <1>1, FirstsAre
  <2>2. k + 1 \in DOMAIN code[a].reil /\ ri = code[a].reil[k + 1] BY <1>1, InsnIs DEF Insn
  <2>3. k + 2 \in DOMAIN code[a].reil
    <3>1. DOMAIN code[a].reil = 1 .. Length(a) BY <1>1, InsnIs
    <3> QED BY <1>1, <3>1
  <2>4. k + 2 = (k + 1) + 1 BY <1>1
  <2>5. k + 2 \in After(code[a].reil, k + 1) BY <2>3, <2>4 DEF After
  <2>6. Firsts(code[a].reil)[k + 2] \subseteq Firsts(code[a].reil)[k + 1] \cup Writes(ri)
    BY <2>1, <2>2, <2>5 DEF FirstsOf
  <2>7. Firsts(code[a].reil)[k + 1] \subseteq DOMAIN values BY DEF Met
  <2> QED BY <1>3, <1>5, <2>6, <2>7
<1>8. Agrees(T, values', origin', tree, Loaded(a), late)
  <2> HIDE DEF ri, T, s, late
  <2> QED BY <1>2, <1>4, <1>5, <1>6 DEF Agrees
<1> QED BY <1>5, <1>7, <1>8

\* A step over an edge: the edge has a state, which agrees with the new values.
LEMMA EndStep ==
  ASSUME Coded, NEW x, NEW y, NEW a, NEW o, NEW q, InBlock(x, y, a, o, q), x \in Targets(Made),
         NEW es, NEW S, SolvedWith(Reil, Made, es, x, y, S),
         NEW tree, Met(a, o, q, Along(S, a, o, q), tree),
         pc = a, offset = q, SingleStep(Reil), origin' = NextOrigin(Insn(a, q)),
         Insn(a, q).opcode = "Jcc" =>
           /\ Origin(Insn(a, q).input0) # "foreign"
           /\ Insn(a, q).output[1] # "off" => Origin(Insn(a, q).output) # "foreign",
         NEW e \in Made, e.source = y, e.target = Node(pc', offset') \/ e.target = 0,
         Insn(a, q).opcode = "Jcc" /\ Value(Insn(a, q).input0) # 0
           <=> e.kind \notin {"kFlow", "kNativeFlow"}
  PROVE  /\ e \in DOMAIN es /\ OutOf(a, q, e) /\ AddressOf(e.source) = a
         /\ Agrees(es[e], values', origin', tree, Loaded(a), LoadedFrom(code[a].reil, o))
<1> DEFINE s == Along(S, a, o, q)
           ri == Insn(a, q)
<1>1. /\ a \in Code /\ q \in 0 .. Length(a) - 1 /\ q \in o .. q
      /\ y = Node(a, q) /\ x = Node(a, o) /\ AddressOf(y) = a /\ a \in Created
      /\ Ri(Node(a, q)) = ri
  BY InBlockIs DEF InBlock
<1>2. OutOf(a, q, e)
  <2>1. e \in Out(a, q) BY <1>1, MadeFrom
  <2> QED BY <1>1, <2>1, OutIs
<1>3. /\ Valid(s, ri, e)
      /\ Agrees(Transform(s, ri, e), values', origin', tree, Loaded(a),
                LoadedFrom(code[a].reil, o))
  BY <1>2, TakenAgrees
<1>4. Fill(Reil, S, x, y) = s /\ InstructionAt(Reil, y) = ri BY <1>1 DEF Along, Ri
<1>5. e \in DOMAIN es /\ es[e] = Transform(s, ri, e)
  <2> HIDE DEF s, ri
  <2> QED BY <1>3, <1>4 DEF SolvedWith
<1> QED BY <1>1, <1>2, <1>3, <1>5

-----------------------------------------------------------------------------
(* What the run keeps.                                                     *)

\* The state on an edge that the run has gone over agrees with the values.
Went(reil, es, tree, tk, vals, orig) ==
  /\ tk \subseteq DOMAIN es
  /\ \A e \in tk :
       /\ AddressOf(e.source) \in DOMAIN reil
       /\ Agrees(es[e], vals, orig, tree, LoadedFrom(reil[AddressOf(e.source)], 0), {})

\* The run is at a node in a block that the analysis has looked at, and so do the states
\* at that node that the block can be solved with.
Stood(reil, E, es, tree, n, start, end, vals, orig) ==
  /\ Block(E, start, end) /\ start # 0 /\ start <= n /\ n <= end /\ start \in Seen(es)
  /\ Firsts(reil[AddressOf(n)])[OffsetOf(n) + 1] \subseteq DOMAIN vals
  /\ \A S : SolvedWith(reil, E, es, start, end, S) =>
       Agrees(Fill(reil, S, start, n), vals, orig, tree, LoadedFrom(reil[AddressOf(n)], 0),
              LoadedFrom(reil[AddressOf(n)], OffsetOf(start)))
Stands(reil, E, es, tree, n, vals, orig) ==
  \E start, end : Stood(reil, E, es, tree, n, start, end, vals, orig)

RunInv ==
  /\ AnalysisInv
  /\ phase = "analyse" => taken = {} /\ stored = {}
  /\ phase # "analyse" => flow_graph = GraphOf(Made) /\ queue = {}
  /\ phase # "analyse" /\ claims => Went(Reil, edge_states, Tree, taken, values, origin)
  /\ phase = "run" /\ claims =>
       /\ Typed(values, origin, memory, stored) /\ pc \in Nat /\ offset \in 0 .. Width - 1
       /\ Stands(Reil, Made, edge_states, Tree, Node(pc, offset), values, origin)

\* The block that an edge leads to.
LEMMA StandsNext ==
  ASSUME Coded, flow_graph = GraphOf(Made), DOMAIN edge_states \subseteq Made,
         NEW a \in Code, NEW q \in 0 .. Length(a) - 1, pc = a, offset = q, SingleStep(Reil),
         Firsts(code[a].reil)[q + 1] \subseteq DOMAIN values,
         DOMAIN Vals(Insn(a, q)) = DOMAIN values \cup Writes(Insn(a, q)),
         NEW e \in DOMAIN edge_states, OutOf(a, q, e),
         Insn(a, q).opcode = "Jcc" /\ Value(Insn(a, q).input0) # 0
           <=> e.kind \notin {"kFlow", "kNativeFlow"},
         e.kind \notin LeavingKinds, e.target # 0, e.target = Node(pc', offset'), pc' \in Code,
         BasicBlockStart(flow_graph, e.target) # 0,
         NEW late, Agrees(edge_states[e], values', origin', Tree, Loaded(a), late)
  PROVE  /\ pc' \in Nat /\ offset' \in 0 .. Width - 1
         /\ Stands(Reil, Made, edge_states, Tree, Node(pc', offset'), values', origin')
<1> DEFINE m == e.target
           ri == Insn(a, q)
           reil == code[a].reil
<1>1. /\ e.kind \in NativeKinds => values' = WithoutTemporaries(Vals(ri)) /\ offset' = 0
      /\ e.kind \notin NativeKinds =>
           /\ values' = Vals(ri) /\ pc' = a /\ offset' \in 0 .. Length(a) - 1
           /\ offset' + 1 \in After(reil, q + 1)
  BY TakenStep
<1>2. FirstsOf(reil, Firsts(reil)) /\ FirstsOf(code[pc'].reil, Firsts(code[pc'].reil))
  BY FirstsAre
<1>3. /\ offset' \in 0 .. Width - 1 /\ Firsts(code[pc'].reil)[offset' + 1] \subseteq DOMAIN values'
      /\ a = pc' \/ \A p \in DOMAIN values' : ~Temporary(p)
  <2>1. CASE e.kind \in NativeKinds
    <3>1. offset' \in 0 .. Width - 1 BY <1>1, <2>1, Numbers
    <3>2. Firsts(code[pc'].reil)[offset' + 1] = {} BY <1>1, <1>2, <2>1 DEF FirstsOf
    <3>3. \A p \in DOMAIN values' : ~Temporary(p) BY <1>1, <2>1, WithoutTemporariesIs
    <3> QED BY <3>1, <3>2, <3>3
  <2>2. CASE e.kind \notin NativeKinds
    <3>1. values' = Vals(ri) /\ pc' = a /\ offset' + 1 \in After(reil, q + 1) BY <1>1, <2>2
    <3>2. q + 1 \in DOMAIN reil /\ reil[q + 1] = ri BY InsnIs DEF Insn
    <3>3. Firsts(reil)[offset' + 1] \subseteq Firsts(reil)[q + 1] \cup Writes(ri)
      BY <1>2, <3>1, <3>2 DEF FirstsOf
    <3>4. offset' \in 0 .. Width - 1 BY <1>1, <2>2, InsnIs
    <3> QED BY <3>1, <3>3, <3>4
  <2> QED BY <2>1, <2>2
<1>4. pc' \in Nat /\ AddressOf(m) = pc' /\ OffsetOf(m) = offset'
  <2>1. pc' \in Nat BY Numbers
  <2> QED BY <1>3, <2>1, NodeParts
<1>5. PICK end : Block(Made, m, end)
  <2>1. m \in Targets(Made) /\ Numbered(Made) /\ m \in Nat
    BY MadeNumbered DEF Targets, Numbered
  <2>2. BlockAt(Made, m, BasicBlockStart(flow_graph, m), BasicBlockEnd(flow_graph, m))
    BY <2>1, BlockStartEnd
  <2>3. BasicBlockStart(flow_graph, m) = m BY <2>1, <2>2 DEF BlockAt, Block, Numbered
  <2> QED BY <2>2, <2>3 DEF BlockAt
<1>6. m \in Nat /\ m <= end
  BY <1>5, MadeNumbered DEF Block, Numbered
<1>7. m \in Seen(edge_states) BY DEF Seen
<1>8. Reil[pc'] = code[pc'].reil /\ Loaded(pc') = LoadedFrom(Reil[pc'], 0)
  BY LoadsAre DEF Reil
<1>9. ASSUME NEW S, SolvedWith(Reil, Made, edge_states, m, end, S)
      PROVE  Agrees(Fill(Reil, S, m, m), values', origin', Tree, LoadedFrom(Reil[pc'], 0),
                    LoadedFrom(Reil[pc'], offset'))
  <2>1. Fill(Reil, S, m, m) = Merge(S) BY <1>6, FillIs
  <2>2. Agrees(Merge(S), values', origin', Tree, Loaded(pc'), LoadedFrom(code[pc'].reil, offset'))
    BY <1>3, <1>9, Merged
  <2> QED BY <1>8, <2>1, <2>2
<1>10. Stood(Reil, Made, edge_states, Tree, m, m, end, values', origin')
  <2>1. m <= m BY <1>6
  <2> HIDE DEF m
  <2>2. m # 0 BY DEF m
  <2> QED BY <1>3, <1>4, <1>5, <1>6, <1>7, <1>8, <1>9, <2>1, <2>2 DEF Stood
<1> QED BY <1>3, <1>4, <1>10 DEF Stands

\* Where a run is that stands in a block.
Here(x, y, a, o, q, k) ==
  /\ InBlock(x, y, a, o, q) /\ Block(Made, x, y) /\ x \in Seen(edge_states)
  /\ k \in o .. q /\ pc = a /\ offset = k
  /\ \E S : SolvedWith(Reil, Made, edge_states, x, y, S)
  /\ \A S : SolvedWith(Reil, Made, edge_states, x, y, S) => Met(a, o, k, Along(S, a, o, k), Tree)

LEMMA RunHere ==
  ASSUME RunInv, phase = "run", claims
  PROVE  \E x, y : \E a \in Created : \E o, q \in 0 .. Length(a) - 1 : \E k \in o .. q :
           Here(x, y, a, o, q, k)
<1>1. /\ Coded /\ flow_graph = GraphOf(Made) /\ queue = {}
      /\ Typed(values, origin, memory, stored) /\ pc \in Nat /\ offset \in 0 .. Width - 1
      /\ Stands(Reil, Made, edge_states, Tree, Node(pc, offset), values, origin)
  BY DEF RunInv, AnalysisInv
<1>2. Analysed(Reil, Made, edge_states, {})
  <2>1. flow_graph # EmptyGraph BY <1>1, NotEmpty
  <2> QED BY <1>1, <2>1 DEF RunInv, AnalysisInv
<1> DEFINE n == Node(pc, offset)
<1>3. PICK x, y : Stood(Reil, Made, edge_states, Tree, n, x, y, values, origin)
  BY <1>1 DEF Stands
<1>4. /\ Block(Made, x, y) /\ x # 0 /\ x <= n /\ n <= y /\ x \in Seen(edge_states)
      /\ Firsts(Reil[AddressOf(n)])[OffsetOf(n) + 1] \subseteq DOMAIN values
  BY <1>3 DEF Stood
<1>5. \A S : SolvedWith(Reil, Made, edge_states, x, y, S) =>
        Agrees(Fill(Reil, S, x, n), values, origin, Tree, LoadedFrom(Reil[AddressOf(n)], 0),
               LoadedFrom(Reil[AddressOf(n)], OffsetOf(x)))
  BY <1>3 DEF Stood
<1>6. PICK a \in Created : \E o, q \in 0 .. Length(a) - 1 : InBlock(x, y, a, o, q)
  BY <1>1, <1>4, BlockWithin
<1>7. PICK o, q \in 0 .. Length(a) - 1 : InBlock(x, y, a, o, q) BY <1>6
<1>8. PICK k \in o .. q : n = Node(a, k)
  <2>1. a \in Nat /\ o \in o .. q /\ q \in o .. q BY <1>1, <1>7, InBlockIs
  <2>2. o \in 0 .. Width - 1 /\ q \in 0 .. Width - 1 BY <1>1, <1>7, <2>1, InBlockIs
  <2>3. n \in Nat /\ x \in Nat /\ y \in Nat
    BY <1>1, <1>7, NodeOrder, InBlockIs
  <2>4. n \in x .. y
    <3> HIDE DEF n
    <3> QED BY <1>4, <2>3
  <2>5. x = Node(a, o) /\ y = Node(a, q) BY <1>7 DEF InBlock
  <2> HIDE DEF n
  <2> QED BY <2>1, <2>2, <2>4, <2>5, Consecutive
<1>9. /\ a \in Code /\ a \in Nat /\ o \in Nat /\ x = Node(a, o) /\ k \in 0 .. Width - 1
      /\ AddressOf(n) = a /\ OffsetOf(n) = k /\ OffsetOf(x) = o
  BY <1>1, <1>7, <1>8, InBlockIs DEF InBlock
<1>10. pc = a /\ offset = k BY <1>1, <1>8, <1>9, NodeOrder
<1>11. Reil[a] = code[a].reil /\ Loaded(a) = LoadedFrom(Reil[a], 0)
  BY <1>1, <1>9, LoadsAre DEF Reil
<1>12. \E S : SolvedWith(Reil, Made, edge_states, x, y, S)
  BY <1>2, <1>4 DEF Analysed, Solved
<1>13. ASSUME NEW S, SolvedWith(Reil, Made, edge_states, x, y, S)
       PROVE  Met(a, o, k, Along(S, a, o, k), Tree)
  <2>1. Before(Reil, Along(S, a, o, k), Node(a, k))
    <3>1. \A s \in S : Before(Reil, s, x) BY <1>13 DEF SolvedWith
    <3> QED BY <1>1, <1>7, <3>1, AlongBefore
  <2>2. Along(S, a, o, k) = Fill(Reil, S, x, n) BY <1>8, <1>9 DEF Along
  <2>3. Agrees(Along(S, a, o, k), values, origin, Tree, Loaded(a), LoadedFrom(code[a].reil, o))
    BY <1>5, <1>9, <1>11, <1>13, <2>2
  <2>4. Firsts(code[a].reil)[k + 1] \subseteq DOMAIN values
    <3> HIDE DEF n
    <3> QED BY <1>4, <1>9, <1>11
  <2> QED BY <1>1, <2>1, <2>3, <2>4 DEF Met
<1>14. Here(x, y, a, o, q, k)
  <2> HIDE DEF n
  <2> QED BY <1>4, <1>7, <1>8, <1>10, <1>12, <1>13 DEF Here
<1> QED BY <1>7, <1>14

LEMMA TakenIs ==
  ASSUME Coded, flow_graph = GraphOf(Made), NEW a \in Code, NEW q \in 0 .. Length(a) - 1,
         NEW e \in EdgesTaken(Node(a, q))
  PROVE  /\ e \in Made /\ e.source = Node(a, q) /\ (e.target = Node(pc', offset') \/ e.target = 0)
         /\ Insn(a, q).opcode = "Jcc" /\ Value(Insn(a, q).input0) # 0
              <=> e.kind \notin {"kFlow", "kNativeFlow"}
<1>1. Ri(Node(a, q)) = Insn(a, q) BY InsnIs
<1>2. EdgesAt(flow_graph.outgoing, Node(a, q)) = {f \in Made : f.source = Node(a, q)}
  BY GraphOfMaps
<1> QED BY <1>1, <1>2 DEF EdgesTaken

LEMMA RunTyped ==
  ASSUME Coded, NEW x, NEW y, NEW a, NEW o, NEW q, InBlock(x, y, a, o, q), x \in Targets(Made),
         NEW k \in o .. q, NEW s, NEW tree, Met(a, o, k, s, tree),
         pc = a, offset = k, SingleStep(Reil), origin' = NextOrigin(Insn(a, k)),
         stored' = IF Insn(a, k).opcode = "Stm" THEN stored \cup {Value(Insn(a, k).output)}
                                                ELSE stored
  PROVE  Typed(values', origin', memory', stored')
<1> DEFINE ri == Insn(a, k)
<1>1. a \in Code /\ k \in 0 .. Length(a) - 1 /\ k \in Nat /\ Length(a) \in Nat BY InBlockIs
<1>2. Typed(values, origin, memory, stored) BY DEF Met
<1>3. DOMAIN Vals(ri) = DOMAIN values \cup Writes(ri) BY <1>1, MetIs
<1>4. \A p \in DOMAIN Vals(ri) : Vals(ri)[p] \in Values /\ Org(ri, p) \in Origins
  BY MetIs, Zenon
<1>5. \A operand \in Reads(ri) : Understood(s, operand, tree) BY MetIs, Zenon
<1>6. values' \in {Vals(ri), WithoutTemporaries(Vals(ri))}
  <2>1. k + 1 < Length(a) \/ k + 1 = Length(a) BY <1>1
  <2> QED BY <1>1, <2>1, StepIs
<1>7. /\ ri.opcode = "Stm" => memory' = [memory EXCEPT ![Value(ri.output)] = Value(ri.input0)]
      /\ ri.opcode # "Stm" => memory' = memory
  BY <1>1, StepIs
<1>8. ri.opcode = "Stm" => Value(ri.output) \in Values /\ Value(ri.input0) \in Values
  <2>1. ri.opcode = "Stm" => ri.output \in Reads(ri) /\ ri.input0 \in Reads(ri)
    BY DEF Reads, BinaryOpcodes
  <2> HIDE DEF ri
  <2> QED BY <1>5, <2>1 DEF Understood
<1> HIDE DEF ri
<1>9. stored' = IF ri.opcode = "Stm" THEN stored \cup {Value(ri.output)} ELSE stored BY DEF ri
<1>10. origin' = NextOrigin(ri) BY DEF ri
<1> QED BY <1>2, <1>3, <1>4, <1>6, <1>7, <1>8, <1>9, <1>10, TypedNext

\* The edges gone over, and the block the run is in then.
LEMMA RunOn ==
  ASSUME RunInv, Run, claims'
  PROVE  /\ Went(Reil, edge_states, Tree, taken', values', origin')
         /\ phase' = "run" =>
              /\ Typed(values', origin', memory', stored')
              /\ pc' \in Nat /\ offset' \in 0 .. Width - 1
              /\ Stands(Reil, Made, edge_states, Tree, Node(pc', offset'), values', origin')
<1>1. /\ Coded /\ flow_graph = GraphOf(Made) /\ queue = {} /\ phase = "run" /\ claims
      /\ SingleStep(Reil)
  BY DEF RunInv, AnalysisInv, Run
<1>2. DOMAIN edge_states \subseteq Made
  <2>1. flow_graph # EmptyGraph BY <1>1, NotEmpty
  <2> QED BY <2>1 DEF RunInv, AnalysisInv, Analysed
<1>3. PICK x, y : \E a \in Created : \E o, q \in 0 .. Length(a) - 1 : \E k \in o .. q :
        Here(x, y, a, o, q, k)
  BY <1>1, RunHere
<1>4. PICK a \in Created : \E o, q \in 0 .. Length(a) - 1 : \E k \in o .. q :
        Here(x, y, a, o, q, k)
  BY <1>3
<1>5. PICK o, q \in 0 .. Length(a) - 1 : \E k \in o .. q : Here(x, y, a, o, q, k) BY <1>4
<1>6. PICK k \in o .. q : Here(x, y, a, o, q, k) BY <1>5
<1>7. /\ InBlock(x, y, a, o, q) /\ Block(Made, x, y) /\ x \in Seen(edge_states)
      /\ pc = a /\ offset = k
      /\ \A S : SolvedWith(Reil, Made, edge_states, x, y, S) =>
           Met(a, o, k, Along(S, a, o, k), Tree)
  BY <1>6 DEF Here
<1>8. PICK Q : SolvedWith(Reil, Made, edge_states, x, y, Q) BY <1>6 DEF Here
<1>9. Met(a, o, k, Along(Q, a, o, k), Tree) BY <1>7, <1>8
<1>10. x \in Targets(Made) BY <1>7 DEF Block
<1> DEFINE ri == Insn(a, k)
           n == Node(a, k)
<1>11. /\ a \in Code /\ a \in Nat /\ k \in 0 .. Length(a) - 1 /\ k \in Nat /\ Ri(n) = ri
       /\ x = Node(a, o) /\ y = Node(a, q) /\ n \in Nat /\ x \in Nat /\ y \in Nat
       /\ x # 0 /\ x <= n /\ o \in Nat /\ q \in Nat /\ Length(a) \in Nat
  BY <1>1, <1>7, InBlockIs DEF InBlock
<1>12. /\ taken' = EdgesTaken(n) /\ origin' = NextOrigin(ri)
       /\ stored' = IF ri.opcode = "Stm" THEN stored \cup {Value(ri.output)} ELSE stored
       /\ ri.opcode = "Jcc" =>
            /\ Origin(ri.input0) # "foreign"
            /\ ri.output[1] # "off" => Origin(ri.output) # "foreign"
  BY <1>7, <1>11 DEF Run
<1>13. phase' = "run" =>
         /\ pc' \in Code /\ \A e \in taken' : e.kind \notin LeavingKinds /\ e.target # 0
         /\ taken' = {} => n \notin DOMAIN flow_graph.outgoing
         /\ BasicBlockStart(flow_graph, Node(pc', offset')) # 0
  BY <1>7 DEF Run
<1>14. Typed(values', origin', memory', stored') /\ DOMAIN Vals(ri) = DOMAIN values \cup Writes(ri)
  <2>1. Typed(values', origin', memory', stored')
    BY <1>1, <1>7, <1>9, <1>10, <1>12, RunTyped
  <2>2. DOMAIN Vals(ri) = DOMAIN values \cup Writes(ri)
    BY DEF Vals, Assign, Writes
  <2> QED BY <2>1, <2>2
<1>15. Reil[a] = code[a].reil /\ Loaded(a) = LoadedFrom(Reil[a], 0)
  BY <1>1, <1>11, LoadsAre DEF Reil
<1>16. \A e \in taken' :
         /\ e \in Made /\ e.source = n /\ (e.target = Node(pc', offset') \/ e.target = 0)
         /\ ri.opcode = "Jcc" /\ Value(ri.input0) # 0 <=> e.kind \notin {"kFlow", "kNativeFlow"}
  BY <1>1, <1>11, <1>12, TakenIs
<1>17. CASE k # q
  <2>1. k \in o .. q - 1 BY <1>11, <1>17
  <2>2. /\ k + 1 \in o .. q /\ Node(a, k + 1) = n + 1
        /\ AddressOf(Node(a, k + 1)) = a /\ OffsetOf(Node(a, k + 1)) = k + 1
        /\ k + 1 \in 0 .. Width - 1 /\ x <= Node(a, k + 1)
    <3>1. k + 1 \in o .. q /\ Node(a, k + 1) = n + 1 BY <1>1, <1>7, <2>1, InBlockIs
    <3> QED BY <1>1, <1>7, <3>1, InBlockIs
  <2>3. n < y
    <3>1. k < q BY <1>11, <1>17
    <3>2. k \in 0 .. Width - 1 /\ q \in 0 .. Width - 1
      <4>1. q \in o .. q BY <1>1, <1>7, InBlockIs
      <4> QED BY <1>1, <1>7, <4>1, InBlockIs
    <3> QED BY <1>11, <3>1, <3>2, NodeOrder
  <2>4. n \notin Sources(Made)
    <3> HIDE DEF n
    <3> QED BY <1>7, <1>11, <2>3 DEF Block
  <2>5. taken' = {} BY <1>16, <2>4 DEF Sources
  <2>6. /\ pc' = a /\ offset' = k + 1 /\ Firsts(code[a].reil)[k + 2] \subseteq DOMAIN values'
    BY <1>1, <1>7, <1>9, <1>10, <1>12, <2>1, MidStep, Zenon
  <2>7. ASSUME NEW S, SolvedWith(Reil, Made, edge_states, x, y, S)
        PROVE  Agrees(Along(S, a, o, k + 1), values', origin', Tree, Loaded(a),
                      LoadedFrom(code[a].reil, o))
    <3>1. Met(a, o, k, Along(S, a, o, k), Tree) BY <1>7, <2>7
    <3> QED BY <1>1, <1>7, <1>10, <1>12, <2>1, <3>1, MidStep, Zenon
  <2> DEFINE m == Node(pc', offset')
  <2>8. /\ m = Node(a, k + 1) /\ AddressOf(m) = a /\ OffsetOf(m) = k + 1 /\ OffsetOf(x) = o
        /\ m = n + 1
    <3>1. o \in o .. q BY <1>1, <1>7, InBlockIs
    <3> QED BY <1>1, <1>7, <1>11, <2>2, <2>6, <3>1, InBlockIs
  <2>9. Stood(Reil, Made, edge_states, Tree, m, x, y, values', origin')
    <3>1. x <= m /\ m <= y
      <4> HIDE DEF n, m
      <4> QED BY <1>11, <2>2, <2>3, <2>8
    <3>2. Firsts(Reil[AddressOf(m)])[OffsetOf(m) + 1] \subseteq DOMAIN values'
      <4>1. (k + 1) + 1 = k + 2 BY <1>11
      <4> HIDE DEF m
      <4> QED BY <1>15, <2>6, <2>8, <4>1
    <3>3. \A S : Fill(Reil, S, x, m) = Along(S, a, o, k + 1)
      BY <1>11, <2>8 DEF Along
    <3>4. ASSUME NEW S, SolvedWith(Reil, Made, edge_states, x, y, S)
          PROVE  Agrees(Fill(Reil, S, x, m), values', origin', Tree,
                        LoadedFrom(Reil[AddressOf(m)], 0),
                        LoadedFrom(Reil[AddressOf(m)], OffsetOf(x)))
      <4> HIDE DEF m
      <4> QED BY <1>15, <2>7, <2>8, <3>3, <3>4
    <3> HIDE DEF m
    <3> QED BY <1>7, <1>11, <3>1, <3>2, <3>4 DEF Stood
  <2>10. Went(Reil, edge_states, Tree, taken', values', origin') BY <2>5 DEF Went
  <2>11. pc' \in Nat /\ offset' \in 0 .. Width - 1 BY <1>11, <2>2, <2>6
  <2> QED BY <1>14, <2>9, <2>10, <2>11 DEF Stands
<1>18. CASE k = q
  <2>1. ASSUME NEW e \in taken'
        PROVE  /\ e \in DOMAIN edge_states /\ OutOf(a, q, e) /\ AddressOf(e.source) = a
               /\ Agrees(edge_states[e], values', origin', Tree, Loaded(a),
                         LoadedFrom(code[a].reil, o))
    <3>1. e \in Made /\ e.source = y /\ (e.target = Node(pc', offset') \/ e.target = 0)
      BY <1>11, <1>16, <1>18
    <3>2. ri.opcode = "Jcc" /\ Value(ri.input0) # 0 <=> e.kind \notin {"kFlow", "kNativeFlow"}
      BY <1>16
    <3>3. Met(a, o, q, Along(Q, a, o, q), Tree) BY <1>9, <1>18
    <3>4. pc = a /\ offset = q BY <1>7, <1>18
    <3>5. ri = Insn(a, q) BY <1>18
    <3> HIDE DEF ri
    <3> QED BY <1>1, <1>7, <1>8, <1>10, <1>12, <3>1, <3>2, <3>3, <3>4, <3>5, EndStep
  <2>2. Went(Reil, edge_states, Tree, taken', values', origin')
    <3>1. a \in DOMAIN Reil BY <1>11 DEF Reil
    <3>2. ASSUME NEW e \in taken'
          PROVE  Agrees(edge_states[e], values', origin', Tree, LoadedFrom(Reil[a], 0), {})
      BY <1>15, <2>1 DEF Agrees
    <3> QED BY <2>1, <3>1, <3>2 DEF Went
  <2>3. ASSUME phase' = "run"
        PROVE  /\ pc' \in Nat /\ offset' \in 0 .. Width - 1
               /\ Stands(Reil, Made, edge_states, Tree, Node(pc', offset'), values', origin')
    <3>1. taken' # {}
      <4>1. n \in Sources(Made) BY <1>7, <1>11, <1>18 DEF Block
      <4>2. n \in DOMAIN flow_graph.outgoing BY <1>1, <4>1, GraphOfMaps
      <4> QED BY <1>13, <2>3, <4>2
    <3>2. PICK e \in taken' : TRUE BY <3>1
    <3>3. /\ e.kind \notin LeavingKinds /\ e.target # 0 /\ pc' \in Code
          /\ e.target = Node(pc', offset') /\ BasicBlockStart(flow_graph, e.target) # 0
      BY <1>13, <1>16, <2>3, <3>2
    <3>4. ri.opcode = "Jcc" /\ Value(ri.input0) # 0 <=> e.kind \notin {"kFlow", "kNativeFlow"}
      BY <1>16, <3>2
    <3>5. /\ Firsts(code[a].reil)[k + 1] \subseteq DOMAIN values
          /\ DOMAIN Vals(ri) = DOMAIN values \cup Writes(ri)
      BY <1>9, <1>14 DEF Met
    <3>6. pc = a /\ offset = q /\ q \in 0 .. Length(a) - 1 BY <1>7, <1>11, <1>18
    <3>7. ri = Insn(a, q) BY <1>18
    <3> HIDE DEF ri
    <3> QED BY <1>1, <1>2, <1>11, <1>18, <2>1, <3>2, <3>3, <3>4, <3>5, <3>6, <3>7, StandsNext
  <2> QED BY <1>14, <2>2, <2>3
<1> QED BY <1>17, <1>18

\* Before the run starts, the code has written nothing.
LEMMA StartKeeps ==
  ASSUME AnalysisInv, phase = "analyse" => taken = {} /\ stored = {}, Start
  PROVE  /\ flow_graph = GraphOf(Made) /\ queue = {}
         /\ Went(Reil, edge_states, Tree, taken', values', origin')
         /\ phase' = "run" =>
              /\ Typed(values', origin', memory', stored')
              /\ pc' \in Nat /\ offset' \in 0 .. Width - 1
              /\ Stands(Reil, Made, edge_states, Tree, Node(pc', offset'), values', origin')
<1>1. /\ Coded /\ flow_graph = GraphOf(Made) /\ queue = {} /\ stored = {} /\ taken = {}
      /\ taken' = {} /\ stored' = {} /\ pc' = 1 /\ offset' = 0
  BY DEF AnalysisInv, Start, vars
<1>2. PICK initial \in [Registers -> InitialValues] :
        \E unmapped \in [Values \ DOMAIN Image -> InitialMemory] :
           /\ values' = [p \in {Reg(r) : r \in Registers} |-> initial[p[2]]]
           /\ memory' = [a \in Values |-> IF a \in DOMAIN Image THEN Image[a].value
                                                                ELSE unmapped[a]]
  BY DEF Start
<1>3. PICK unmapped \in [Values \ DOMAIN Image -> InitialMemory] :
        /\ values' = [p \in {Reg(r) : r \in Registers} |-> initial[p[2]]]
        /\ memory' = [a \in Values |-> IF a \in DOMAIN Image THEN Image[a].value
                                                             ELSE unmapped[a]]
  BY <1>2
<1>4. origin' = [p \in {Reg(r) : r \in Registers} |-> "foreign"] BY DEF Start
<1>5. Typed(values', origin', memory', stored')
  <2>1. \A r \in Registers : initial[Reg(r)[2]] \in Values
    BY InitialValuesAssumption DEF Reg
  <2>2. \A a \in Values : memory'[a] \in Values
    BY <1>3, ImageAssumption, InitialValuesAssumption
  <2>3. memory' \in [Values -> Values] BY <1>3, <2>2
  <2>4. \A a \in DOMAIN Image : memory'[a] = Image[a].value BY <1>3, ImageAssumption
  <2> QED BY <1>1, <1>3, <1>4, <2>1, <2>3, <2>4 DEF Typed, Origins
<1>6. \A p \in DOMAIN values' : origin'[p] = "foreign" BY <1>3, <1>4
<1>7. Went(Reil, edge_states, Tree, taken', values', origin') BY <1>1 DEF Went
<1>8. ASSUME phase' = "run"
      PROVE  Stands(Reil, Made, edge_states, Tree, Node(1, 0), values', origin')
  <2> DEFINE n == Node(1, 0)
  <2>1. 1 \in Code /\ 1 \in Nat /\ 0 \in 0 .. Width - 1 BY Numbers DEF Code
  <2>2. n \in Nat /\ n # 0 /\ AddressOf(n) = 1 /\ OffsetOf(n) = 0
    BY <2>1, NodeOrder, NodeParts
  <2>3. BasicBlockStart(flow_graph, n) # 0 BY <1>8 DEF Start
  <2>4. n \in Targets(Made) /\ Numbered(Made) BY <1>1, MadeNumbered
  <2> HIDE DEF n
  <2>5. PICK end : Block(Made, n, end)
    <3>1. BlockAt(Made, n, BasicBlockStart(flow_graph, n), BasicBlockEnd(flow_graph, n))
      BY <1>1, <2>2, <2>3, <2>4, BlockStartEnd
    <3>2. BasicBlockStart(flow_graph, n) = n
      BY <2>2, <2>4, <3>1 DEF BlockAt, Block, Numbered
    <3> QED BY <3>1, <3>2 DEF BlockAt
  <2>6. n <= n /\ n <= end BY <2>2, <2>4, <2>5 DEF Block, Numbered
  <2>7. n \in Seen(edge_states) BY DEF Seen, n
  <2>8. Firsts(Reil[1])[0 + 1] = {}
    <3>1. Reil[1] = code[1].reil BY <2>1 DEF Reil
    <3>2. FirstsOf(code[1].reil, Firsts(code[1].reil)) BY <1>1, <2>1, FirstsAre
    <3> QED BY <3>1, <3>2 DEF FirstsOf
  <2>9. \A s, skip, late : Agrees(s, values', origin', Tree, skip, late)
    BY <1>6 DEF Agrees
  <2>10. Stood(Reil, Made, edge_states, Tree, n, n, end, values', origin')
    BY <2>2, <2>5, <2>6, <2>7, <2>8, <2>9 DEF Stood
  <2> QED BY <2>10 DEF Stands, n
<1>9. 1 \in Nat /\ 0 \in 0 .. Width - 1 BY Numbers
<1> QED BY <1>1, <1>5, <1>7, <1>8, <1>9

LEMMA RunStep ==
  ASSUME RunInv, [NextAnalysis]_allvars
  PROVE  RunInv'
<1>1. AnalysisInv /\ AnalysisInv' BY AnalysisStep DEF RunInv
<1>2. CASE Analyse /\ phase = "analyse"
  BY <1>1, <1>2 DEF RunInv, Analyse, running, machine
<1>3. ASSUME Analyse PROVE phase = "analyse"
  <2> SUFFICES ASSUME phase # "analyse" PROVE FALSE OBVIOUS
  <2>1. flow_graph = GraphOf(Made) /\ queue = {} /\ Coded BY DEF RunInv, AnalysisInv
  <2>2. flow_graph # EmptyGraph BY <2>1, NotEmpty
  <2> QED BY <1>3, <2>1, <2>2 DEF Analyse, AddFlowGraph, Update
<1>4. ASSUME UNCHANGED vars
      PROVE  /\ Reil' = Reil /\ Made' = Made /\ Tree' = Tree /\ edge_states' = edge_states
             /\ flow_graph' = flow_graph /\ queue' = queue
  BY <1>4, Unmoved DEF vars, Tree
<1>5. CASE Start
  <2>1. UNCHANGED vars /\ phase = "analyse" /\ phase' \in {"run", "left"} BY <1>5 DEF Start
  <2>2. /\ flow_graph = GraphOf(Made) /\ queue = {}
        /\ Went(Reil, edge_states, Tree, taken', values', origin')
        /\ phase' = "run" =>
             /\ Typed(values', origin', memory', stored')
             /\ pc' \in Nat /\ offset' \in 0 .. Width - 1
             /\ Stands(Reil, Made, edge_states, Tree, Node(pc', offset'), values', origin')
    BY <1>1, <1>5, StartKeeps DEF RunInv
  <2> QED BY <1>1, <1>4, <2>1, <2>2 DEF RunInv
<1>6. CASE Run
  <2>1. UNCHANGED vars /\ phase = "run" /\ phase' \in {"run", "left"} BY <1>6 DEF Run
  <2>2. flow_graph = GraphOf(Made) /\ queue = {} BY <2>1 DEF RunInv
  <2>3. claims' =>
          /\ Went(Reil, edge_states, Tree, taken', values', origin')
          /\ phase' = "run" =>
               /\ Typed(values', origin', memory', stored')
               /\ pc' \in Nat /\ offset' \in 0 .. Width - 1
               /\ Stands(Reil, Made, edge_states, Tree, Node(pc', offset'), values', origin')
    BY <1>6, RunOn
  <2> QED BY <1>1, <1>4, <2>1, <2>2, <2>3 DEF RunInv
<1>7. CASE UNCHANGED allvars
  <2>1. /\ UNCHANGED vars /\ phase' = phase /\ claims' = claims /\ taken' = taken
        /\ values' = values /\ origin' = origin /\ memory' = memory /\ stored' = stored
        /\ pc' = pc /\ offset' = offset
    BY <1>7 DEF allvars, running, machine
  <2> QED BY <1>1, <1>4, <2>1 DEF RunInv
<1> QED BY <1>2, <1>3, <1>5, <1>6, <1>7 DEF NextAnalysis, Left

LEMMA AlwaysRun == SpecAnalysis => []RunInv
<1>1. InitAnalysis => RunInv
  BY InitAnalysed DEF InitAnalysis, RunInv
<1> QED BY <1>1, RunStep, PTL DEF SpecAnalysis

-----------------------------------------------------------------------------
(* What the analysis promises.                                             *)

\* The facts of a run that has gone over an edge.
LEMMA GoneOver ==
  ASSUME RunInv, phase # "analyse", claims, NEW e \in taken
  PROVE  LET a == AddressOf(e.source) IN
         /\ e \in DOMAIN edge_states /\ a \in Code /\ Loaded(a) = LoadedFrom(Reil[a], 0)
         /\ Agrees(edge_states[e], values, origin, Tree, Loaded(a), {})
<1>1. Coded /\ Went(Reil, edge_states, Tree, taken, values, origin) BY DEF RunInv, AnalysisInv
<1>2. AddressOf(e.source) \in Code BY <1>1 DEF Went, Reil
<1>3. Loaded(AddressOf(e.source)) = LoadedFrom(Reil[AddressOf(e.source)], 0)
  BY <1>1, <1>2, LoadsAre
<1> QED BY <1>1, <1>2, <1>3 DEF Went

\* A run that branches only on values that the code has written goes over no edge without
\* a state: what a known predicate or target excludes (constants_analysis.cpp:340) is never
\* taken, and no block that a run reaches is left out of Update's queue.
THEOREM RunIsCovered == SpecAnalysis => []Covered
<1>1. RunInv => Covered
  BY GoneOver DEF Covered
<1> QED BY <1>1, AlwaysRun, PTL

\* A constant that the analysis has for a place the code has written is its value, on
\* every edge of every run: neither Merge (constants_analysis.cpp:632) keeps one that
\* another path contradicts, nor does Update (constants_analysis.cpp:902) leave one of an
\* earlier round on an edge.
THEOREM ConstantsAreSound == SpecAnalysis => []Sound
<1>1. RunInv => Sound
  <2> SUFFICES ASSUME RunInv, phase # "analyse", claims,
                      NEW e \in taken \cap DOMAIN edge_states,
                      NEW p \in DOMAIN edge_states[e] \cap DOMAIN values,
                      origin[p] # "foreign", p \notin Loaded(AddressOf(e.source))
      PROVE  edge_states[e][p] \subseteq {values[p]}
    BY DEF Sound
  <2>1. Agrees(edge_states[e], values, origin, Tree, Loaded(AddressOf(e.source)), {})
    BY GoneOver
  <2> QED BY <2>1 DEF Agrees
<1> QED BY <1>1, AlwaysRun, PTL

\* Where one edge with a state at most leads to each node, the analysis has every value
\* that the run has computed from constants of the code and the memory image alone.
THEOREM ConstantsAreFound == SpecAnalysis => []ConstantsFound
<1>1. RunInv => ConstantsFound
  <2> SUFFICES ASSUME RunInv, taken # {}, claims, Tree, NEW e \in taken,
                      NEW p \in DOMAIN values, origin[p] = "code"
      PROVE  GetOperand(edge_states[e], p) = {values[p]}
    BY DEF ConstantsFound
  <2>1. phase # "analyse" BY DEF RunInv
  <2>2. /\ e \in DOMAIN edge_states
        /\ Agrees(edge_states[e], values, origin, Tree, Loaded(AddressOf(e.source)), {})
    BY <2>1, GoneOver
  <2>3. p \in DOMAIN edge_states[e] /\ edge_states[e][p] = {values[p]}
    BY <2>2 DEF Agrees
  <2>4. p \in Places
    <3>1. flow_graph # EmptyGraph BY <2>1, NotEmpty DEF RunInv, AnalysisInv
    <3>2. IsState(edge_states[e]) BY <2>2, <3>1 DEF RunInv, AnalysisInv, Analysed, OnEdge
    <3> QED BY <2>3, <3>2 DEF IsState
  <2> QED BY <2>3, <2>4, PlacesAre DEF GetOperand
<1> QED BY <1>1, AlwaysRun, PTL
=============================================================================
