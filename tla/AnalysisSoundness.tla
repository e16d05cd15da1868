------------------------- MODULE AnalysisSoundness -------------------------
(***************************************************************************)
(* The constants analysis against the interpreter: the code is analysed,    *)
(* then it runs, and what the analysis says of each edge is compared with   *)
(* the values when the run goes over it.                                    *)
(*                                                                          *)
(* The analysis makes no claim about what it has not seen written: where    *)
(* one path writes a register and another leaves in it what it held when    *)
(* the function was entered, Merge keeps the written constant, and so it is *)
(* after Unkn and Sys, and for loads from memory that has been stored to.   *)
(* `origin' keeps track of where each value of the run comes from.          *)
(***************************************************************************)
EXTENDS ConstantsAnalysis, Interpreter

CONSTANTS Registers,      \* indices of the registers in use
          InitialValues,  \* bound: what registers hold at first
          InitialMemory   \* bound: what memory outside the image holds at first
ASSUME InitialValuesAssumption ==
  InitialValues \subseteq Values /\ InitialMemory \subseteq Values
ASSUME RegistersAssumption ==
  \A n \in Natives : \A k \in DOMAIN n.reil :
    {p \in Reads(n.reil[k]) : p[1] = "reg"} \subseteq {Reg(r) : r \in Registers}

VARIABLES phase,     \* "analyse", "run" or "left": the run has left the function
          origin,    \* of each value: "code", "input" (memory) or "foreign"
          stored,    \* addresses written by the run
          taken,     \* the edge just gone over, if any
          claims     \* no branch has depended on a foreign value

running == <<machine, phase, origin, stored, taken, claims>>
allvars == <<vars, running>>

InitAnalysis ==
  /\ Init
  /\ phase = "analyse" /\ pc = 0 /\ offset = 0 /\ values = Clear
  /\ memory = [a \in Values |-> 0]
  /\ origin = Clear /\ stored = {} /\ taken = {} /\ claims = TRUE

Analyse == (AddFlowGraph \/ Update) /\ UNCHANGED running

\* Any values in the registers and outside the memory image.  Where the entry is in no
\* block (see Unsplit), nothing is analysed, and nothing is said of the run.
Start ==
  /\ phase = "analyse" /\ flow_graph # EmptyGraph /\ queue = {}
  /\ \E initial \in [Registers -> InitialValues],
        unmapped \in [Values \ DOMAIN Image -> InitialMemory] :
       /\ values' = [p \in {Reg(r) : r \in Registers} |-> initial[p[2]]]
       /\ memory' = [a \in Values |-> IF a \in DOMAIN Image THEN Image[a].value
                                                            ELSE unmapped[a]]
  /\ origin' = [p \in {Reg(r) : r \in Registers} |-> "foreign"]
  /\ phase' = IF BasicBlockStart(flow_graph, Node(1, 0)) # 0 THEN "run" ELSE "left"
  /\ pc' = 1 /\ offset' = 0
  /\ UNCHANGED <<vars, stored, taken, claims>>

-----------------------------------------------------------------------------

\* What a value is made from, and where it then comes from.
Origin(operand) == IF operand[1] = "imm" THEN "code" ELSE origin[operand]
Worst(origins) == IF "foreign" \in origins THEN "foreign"
                  ELSE IF "input" \in origins THEN "input" ELSE "code"

Read(address) ==
  IF address \in stored THEN "foreign"
  ELSE IF ImageValue(address) # {} THEN "code" ELSE "input"

OriginOf(ri) ==
  Worst(CASE ri.opcode \in BinaryOpcodes  -> {Origin(ri.input0), Origin(ri.input1)}
          [] ri.opcode \in {"Str", "Sex"} -> {Origin(ri.input0)}
          [] ri.opcode = "Ite"            -> {Origin(ri.input0), Origin(ri.input1),
                                              Origin(ri.input2)}
          [] ri.opcode = "Ldm"            -> {Origin(ri.input0), Read(Value(ri.input0))})

NextOrigin(ri) ==
  CASE ri.opcode \in Writing -> [p \in DOMAIN values' |->
                                   IF p = ri.output THEN OriginOf(ri) ELSE origin[p]]
    [] ri.opcode = "Unkn"    -> [p \in DOMAIN values' |-> "foreign"]
    [] ri.opcode = "Sys"     -> [p \in DOMAIN values' |->
                                   IF p = Reg(X0) THEN "foreign" ELSE origin[p]]
    [] OTHER                 -> [p \in DOMAIN values' |-> origin[p]]

\* The edge of the flow graph the machine goes over: for a jump to a target the
\* graph does not know, its edge to 0.
EdgesTaken(node) ==
  LET jumps == Ri(node).opcode = "Jcc" /\ Value(Ri(node).input0) # 0
      out == {e \in EdgesAt(flow_graph.outgoing, node) :
                jumps <=> e.kind \notin {"kFlow", "kNativeFlow"}}
      next == {e \in out : e.target = Node(pc', offset')}
  IN  IF next # {} THEN next ELSE {e \in out : e.target = 0}

\* The machine executes the instruction; the run is over when it leaves the code,
\* calls, returns, or jumps where the flow graph does not follow.
Run ==
  LET node == Node(pc, offset)
      ri == Ri(node)
  IN  /\ phase = "run"
      /\ SingleStep(Reil)
      /\ taken' = EdgesTaken(node)
      /\ phase' = IF /\ pc' \in Code
                     /\ \A e \in taken' : e.kind \notin LeavingKinds /\ e.target # 0
                     /\ taken' = {} => node \notin DOMAIN flow_graph.outgoing
                     /\ BasicBlockStart(flow_graph, Node(pc', offset')) # 0
                  THEN "run" ELSE "left"
      /\ origin' = NextOrigin(ri)
      /\ stored' = IF ri.opcode = "Stm" THEN stored \cup {Value(ri.output)} ELSE stored
      /\ claims' = (claims /\ (ri.opcode = "Jcc" =>
                      /\ Origin(ri.input0) # "foreign"
                      /\ ri.output[1] # "off" => Origin(ri.output) # "foreign"))
      /\ UNCHANGED vars

Left == phase = "left" /\ UNCHANGED allvars

NextAnalysis == Analyse \/ Start \/ Run \/ Left

\* Weak fairness of NextAnalysis, which can change something until the run is over.
Fairness == []<>(phase = "left") \/ []<><<TRUE>>_allvars

SpecAnalysis == InitAnalysis /\ [][NextAnalysis]_allvars /\ Fairness

-----------------------------------------------------------------------------
(* Correctness.                                                             *)

\* Update returns: states do not only grow (an instruction that reads a place not
\* written yet makes its output top, and a constant later), but they settle.
AnalysisEnds == <>(phase # "analyse")

\* See Stable; nothing changes any more when the code runs.
Settled == phase = "analyse" => Stable

\* A run that branches on nothing foreign goes only over edges that have a state:
\* no edge excluded by Valid is ever taken.
Covered == phase # "analyse" /\ claims => taken \subseteq DOMAIN edge_states

\* Where the analysis has a constant on an edge for a register or temporary that
\* the code itself has written, that is its value whenever a run goes over the edge.
\* (A temporary that a load has written is not looked at on edges within the native
\* instruction: it is not read any more, see LoadsApart.)
Loaded(a) == {code[a].reil[k].output :
                k \in {j \in DOMAIN code[a].reil : code[a].reil[j].opcode = "Ldm"}}
Sound ==
  phase # "analyse" /\ claims =>
    \A e \in taken \cap DOMAIN edge_states :
      \A p \in DOMAIN edge_states[e] \cap DOMAIN values :
        origin[p] # "foreign" /\ p \notin Loaded(AddressOf(e.source)) =>
          edge_states[e][p] \subseteq {values[p]}

\* In code without joins the analysis finds every value that is computed from
\* constants of the code and of the memory image.
Tree == \A node \in DOMAIN flow_graph.incoming \ {0} :
          Cardinality(EdgesAt(flow_graph.incoming, node) \cap DOMAIN edge_states)
            <= (IF node = Node(1, 0) THEN 0 ELSE 1)
ConstantsFound ==
  taken # {} /\ claims /\ Tree =>
    \A e \in taken : \A p \in DOMAIN values :
      origin[p] = "code" => GetOperand(edge_states[e], p) = {values[p]}

\* constants_analysis_test.cpp:92: "This test just validates that the solver
\* correctly merges multiple x0 values to Top": what is not top has one value.
MergesToTop ==
  phase # "analyse" =>
    \A e \in taken \cap DOMAIN edge_states :
      \A p \in DOMAIN edge_states[e] \cap DOMAIN values :
        edge_states[e][p] \subseteq {values[p]}
=============================================================================
