-------------------------- MODULE ResolveBranches --------------------------
(***************************************************************************)
(* What a worker of the pool does to one function: DisassembleFunction,    *)
(* and, if edges to unknown targets are left, disassembler/                *)
(* resolve_branches.cpp, which alternates between a constants analysis of   *)
(* the flow graph and new rounds of Disassemble into the same graph.        *)
(*                                                                         *)
(* The analysis is reduced to what ResolveBranches sees of it: whether an   *)
(* edge has a state, which depends on the graph, and the constant that the  *)
(* register of a branch or call holds there, which is the same in every     *)
(* round (as for "adr x0, label; br x0"); 0 if it holds none.               *)
(***************************************************************************)
EXTENDS Disassemble

VARIABLES constant,     \* the constant in the register of each branch and call
          pc,           \* where DisassembleFunction / ResolveBranches is
          zero_edges,   \* sources of edges to 0 with a state, still to look at
          jump_added,
          result        \* the local variable `resolved', which is returned

resolving == <<constant, pc, zero_edges, jump_added, result>>
allvars == <<vars, resolving>>

\* A branch or a call through a register.
Indirect(a) == DecodeInstruction(a).class \in {"branch", "call"}
               /\ DecodeInstruction(a).target = 0

InitResolve ==
  /\ Init
  /\ constant \in [Code -> 0 .. Size]
  /\ \A a \in Code : constant[a] # 0 => Indirect(a)
  /\ pc = "disassemble"
  /\ zero_edges = {}
  /\ jump_added = FALSE
  /\ result = FALSE

-----------------------------------------------------------------------------
(* The flow graph and the reach of the analysis.                           *)

\* FlowGraph::Create takes no block for a leader that is only called, nor for
\* one without a complete block, nor for one that ends outside the code.
BlockStarts ==
  {a \in DOMAIN graph.incoming \ {0} :
     /\ \E e \in graph.incoming[a] : e.kind # "kCall" \/ e.source = 0
     /\ BasicBlockStart(graph, a) # 0
     /\ BasicBlockEnd(graph, a) \in Code}

\* The blocks an analysis state flows to from the block at a: a call's Jcc has
\* a constant predicate, which makes the state on its flow edge invalid, and an
\* instruction without a Jcc flows on whatever it is.
FlowsTo(a) ==
  LET end == BasicBlockEnd(graph, a)
      insn == DecodeInstruction(end)
      jumps == {e.target : e \in {f \in graph.outgoing[end] : f.kind = "kJump"}}
      next == IF insn.class \in {"branch", "call", "return"} THEN {} ELSE {end + 1}
  IN  {BasicBlockStart(graph, t) : t \in (jumps \cup next) \ {0}} \cap BlockStarts

\* The blocks with a state: the least set that holds the entry's block and what
\* its members flow to.
WithState ==
  LET starts == BlockStarts
      flows == [a \in starts |-> FlowsTo(a)]
      closed == {S \in SUBSET starts : /\ {entry} \cap starts \subseteq S
                                       /\ \A a \in S : flows[a] \subseteq S}
  IN  {a \in starts : \A S \in closed : a \in S}

\* constants->On(edge) for the jump and call edges into 0.
ZeroEdgesWithState ==
  {BasicBlockEnd(graph, a) : a \in
     {b \in WithState : \E e \in graph.outgoing[BasicBlockEnd(graph, b)] :
                          e.target = 0 /\ e.kind \in {"kJump", "kCall"}}}

-----------------------------------------------------------------------------

\* One step of a running Disassemble.
Disassembling ==
  /\ pc \in {"disassemble", "redisassemble"}
  /\ Step
  /\ UNCHANGED resolving

\* main.cpp:55: ResolveBranches runs if the function is not resolved.
Disassembled ==
  /\ pc = "disassemble" /\ queue = {}
  /\ pc' = IF resolved(graph) THEN "done" ELSE "analyse"
  /\ UNCHANGED <<vars, constant, zero_edges, jump_added, result>>

\* The head of the loop: build the flow graph and analyse it.
Analyse ==
  /\ pc = "analyse"
  /\ zero_edges' = ZeroEdgesWithState
  /\ result' = TRUE /\ jump_added' = FALSE
  /\ pc' = "edges"
  /\ UNCHANGED <<vars, constant>>

Lowest(S) == {a \in S : \A b \in S : a <= b}

\* Mutant of ResolveJump: the code at the target is not disassembled.
ResolveJumpOnly ==
  \E a \in Lowest(zero_edges) :
    LET old == Edge(a, 0, "kJump") IN
    /\ pc = "edges"
    /\ DecodeInstruction(a).class = "branch" /\ constant[a] # 0
    /\ jump_added' = Found(graph, old)
    /\ graph' = AddEdge(RemoveEdge(graph, old), Edge(a, constant[a], "kJump"))
    /\ zero_edges' = zero_edges \ {a}
    /\ UNCHANGED <<code, entry, queue, visited, constant, pc, result>>

\* The lowest edge to 0 turns out to be a jump to a constant: replace it, and
\* disassemble from the new target with nothing visited.
ResolveJump ==
  \E a \in Lowest(zero_edges) :
    LET old == Edge(a, 0, "kJump") IN
    /\ pc = "edges"
    /\ DecodeInstruction(a).class = "branch" /\ constant[a] # 0
    /\ jump_added' = Found(graph, old)
    /\ graph' = AddEdge(RemoveEdge(graph, old), Edge(a, constant[a], "kJump"))
    /\ queue' = {constant[a]} /\ visited' = {}
    /\ zero_edges' = zero_edges \ {a}
    /\ pc' = "redisassemble"
    /\ UNCHANGED <<code, entry, constant, result>>

Redisassembled ==
  /\ pc = "redisassemble" /\ queue = {}
  /\ pc' = "edges"
  /\ UNCHANGED <<vars, constant, zero_edges, jump_added, result>>

\* Mutant of ResolveCall: the edge to 0 is kept.
ResolveCallKeepingEdge ==
  \E a \in Lowest(zero_edges) :
    /\ pc = "edges"
    /\ DecodeInstruction(a).class = "call" /\ constant[a] # 0
    /\ graph' = AddEdge(graph, Edge(a, constant[a], "kCall"))
    /\ zero_edges' = zero_edges \ {a}
    /\ UNCHANGED <<code, entry, queue, visited, constant, pc, jump_added, result>>

\* A call to a constant: replace the edge; main queues the callee.
ResolveCall ==
  \E a \in Lowest(zero_edges) :
    LET old == Edge(a, 0, "kCall") IN
    /\ pc = "edges"
    /\ DecodeInstruction(a).class = "call" /\ constant[a] # 0
    /\ graph' = AddEdge(RemoveEdge(graph, old), Edge(a, constant[a], "kCall"))
    /\ zero_edges' = zero_edges \ {a}
    /\ UNCHANGED <<code, entry, queue, visited, constant, pc, jump_added, result>>

\* The register holds no constant.
Unresolved ==
  \E a \in Lowest(zero_edges) :
    /\ pc = "edges"
    /\ constant[a] = 0
    /\ result' = FALSE
    /\ zero_edges' = zero_edges \ {a}
    /\ UNCHANGED <<vars, constant, pc, jump_added>>

\* Mutant of Again: the loop goes on as long as something is unresolved.
AgainWhileUnresolved ==
  /\ pc = "edges" /\ zero_edges = {}
  /\ pc' = IF ~resolved(graph) THEN "analyse" ELSE "done"
  /\ UNCHANGED <<vars, constant, zero_edges, jump_added, result>>

\* The foot of the loop.
Again ==
  /\ pc = "edges" /\ zero_edges = {}
  /\ pc' = IF jump_added /\ ~resolved(graph) THEN "analyse" ELSE "done"
  /\ UNCHANGED <<vars, constant, zero_edges, jump_added, result>>

Resolving == \/ Disassembling \/ Disassembled \/ Analyse \/ ResolveJump
             \/ Redisassembled \/ ResolveCall \/ Unresolved \/ Again

Done == pc = "done" /\ UNCHANGED allvars

NextResolve == Resolving \/ Done

\* One thread that goes on until it is done.
SpecResolveFair == InitResolve /\ [][NextResolve]_allvars /\ WF_allvars(Resolving)

\* The same for larger code: some step of Resolving can be taken until it is done, and
\* every step changes something, so that ENABLED, which is slow, need not be evaluated.
SpecResolve ==
  InitResolve /\ [][NextResolve]_allvars /\ ([]<>(pc = "done") \/ []<><<TRUE>>_allvars)

-----------------------------------------------------------------------------
(* The control flow of the code with its constants.                        *)

\* Branches through a register that holds a constant.
Site(a) == a \in Code /\ Indirect(a) /\ constant[a] # 0

JumpSite(a) == Site(a) /\ DecodeInstruction(a).class = "branch"

NextAddresses(a) ==
  Successors(a) \cup (IF JumpSite(a) THEN {constant[a]} ELSE {})

\* What can run from S on in at most n steps.
Within(n, S) ==
  LET within[i \in Nat] ==
        IF i = 0 THEN S
        ELSE LET before == within[i - 1]
             IN  before \cup UNION {NextAddresses(a) : a \in before}
  IN  within[n]
After(a) == Within(Size + 1, NextAddresses(a))

\* A jump through a constant may come back to where it is made.
JumpCycle == \E a \in Code : JumpSite(a) /\ a \in After(a)

\* The first address from a on that does not just run on.
FirstTransfer(a) == Min({b \in a .. Size + 1 : DecodeInstruction(b).class # "other"})

-----------------------------------------------------------------------------
(* Correctness.                                                            *)

\* Every edge to a known target is a step the code can take: no round of
\* resolving and disassembling again, on a graph whose blocks may have been cut
\* by the jump added before (resolve_branches.cpp:60), invents an edge.
EdgesAreReal ==
  LET may_run == Within(Size + 1, {entry})
  IN  \A e \in GraphEdges :
        e.target # 0 =>
          \/ e.source = 0 /\ e.target = entry
          \/ e.kind = "kCall" /\ DecodeInstruction(e.source).class = "call"
             /\ e.target \in {DecodeInstruction(e.source).target, constant[e.source]}
          \/ e.kind \in {"kJump", "kFlow"} /\ e.target \in NextAddresses(e.source)
             /\ e.source \in may_run

\* When ResolveBranches returns, all code that the edges of the graph lead to is
\* in the graph, that behind resolved jumps included.
TargetsDisassembled ==
  pc = "done" =>
    \A e \in GraphEdges :
      e.kind \in {"kJump", "kFlow"} /\ e.target # 0 =>
        FirstTransfer(e.target) \in DOMAIN graph.outgoing

\* When ResolveBranches returns, no branch or call that the analysis reaches has an edge
\* to 0 left if its register holds a constant, although each round of Disassemble starts
\* with nothing visited and adds that edge again for every one it comes across, and a
\* round works on the states from before its own changes.  (One that the analysis no
\* longer reaches may have it: a call that is resolved into the middle of a block cuts
\* the block, resolve_branches.cpp:64, and what follows the block loses its state.)
ResolvedForGood ==
  pc = "done" => \A a \in ZeroEdgesWithState : constant[a] = 0

\* ResolveBranches returns, unless a jump through a constant can lead back to
\* itself; then every round adds the edge to 0 that the next round replaces.
ReturnsUnlessCyclic == <>(pc = "done" \/ JumpCycle)

\* The test JumpConstantRegister (resolve_branches_test.cpp:64-85) of a jump through
\* a constant at the entry: it is left with one edge, to that constant.
ConstantJumpResolved ==
  JumpSite(entry) ~>
    (pc = "done" /\ EdgesAt(graph.outgoing, entry) =
                      {Edge(entry, constant[entry], "kJump")})
=============================================================================
