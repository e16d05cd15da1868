---------------------------- MODULE FindFunctions ----------------------------
(***************************************************************************)
(* disassembler/aarch64/find_functions.cpp: where main gets the addresses  *)
(* it seeds the queue with.  One pass over every executable mapping looks   *)
(* for prologues, with three flags and a candidate start as its state.      *)
(*                                                                         *)
(* An opcode is the mask it matches; "other" matches none.  Addresses count *)
(* instructions.  The DCHECK of line 44 is compiled out, as in an optimised  *)
(* build.                                                                   *)
(***************************************************************************)
EXTENDS Integers, Sequences

CONSTANT Images   \* the images considered: sequences of mappings

Opcodes == {"pac",      \* paciasp, pacibsp
            "sub",      \* sub sp, sp, #value
            "stp_x",    \* stp x?, x?, [sp, #offset]!
            "stp_d",    \* stp d?, d?, [sp, #offset]!
            "add_x29",  \* add x29, sp, #value
            "other"}

ASSUME ImagesAssumption ==
  \A image \in Images :
    image \in Seq([address : Nat, executable : BOOLEAN, data : Seq(Opcodes)])

VARIABLES mappings,             \* memory_image.mappings()
          mapping, offset,      \* the positions of the two loops, from 1
          start_address,
          pacsp, sub, stp,      \* what the prologue at hand has
          results

flags == <<pacsp, sub, stp>>
vars == <<mappings, mapping, offset, start_address, flags, results>>

Init ==
  /\ mappings \in Images
  /\ mapping = 1 /\ offset = 1
  /\ start_address = 0
  /\ pacsp = FALSE /\ sub = FALSE /\ stp = FALSE
  /\ results = {}

Data == mappings[mapping].data
address == mappings[mapping].address + offset - 1

\* The inner loop leaves out the last instruction: offset + 4 < data.size().
Scanning == /\ mapping <= Len(mappings)
            /\ mappings[mapping].executable
            /\ offset < Len(Data)

\* The next mapping; the locals of the outer loop are declared anew.
NextMapping ==
  /\ mapping <= Len(mappings) /\ ~Scanning
  /\ mapping' = mapping + 1 /\ offset' = 1
  /\ start_address' = 0
  /\ pacsp' = FALSE /\ sub' = FALSE /\ stp' = FALSE
  /\ UNCHANGED <<mappings, results>>

\* The instruction at offset is one of these.
At(opcodes) ==
  /\ Scanning
  /\ Data[offset] \in opcodes
  /\ offset' = offset + 1
  /\ UNCHANGED <<mappings, mapping>>

StartIf(condition) ==
  start_address' = IF condition THEN address ELSE start_address

Pac ==
  /\ At({"pac"}) /\ ~pacsp
  /\ StartIf(TRUE)
  /\ pacsp' = TRUE /\ sub' = FALSE /\ stp' = FALSE
  /\ UNCHANGED results

Sub ==
  /\ At({"sub"}) /\ ~sub
  /\ StartIf(~pacsp)
  /\ sub' = TRUE /\ stp' = FALSE
  /\ UNCHANGED <<pacsp, results>>

\* Mutant of StpX: the second stp of a prologue is taken for its start.
StpXRestart ==
  /\ At({"stp_x"})
  /\ StartIf(~pacsp /\ ~sub)
  /\ stp' = TRUE
  /\ UNCHANGED <<pacsp, sub, results>>

StpX ==
  /\ At({"stp_x"})
  /\ StartIf(~pacsp /\ ~sub /\ ~stp)
  /\ stp' = TRUE
  /\ UNCHANGED <<pacsp, sub, results>>

\* Unlike StpX, it starts the function here although a pac came before.
StpD ==
  /\ At({"stp_d"})
  /\ StartIf(~sub /\ ~stp)
  /\ stp' = TRUE
  /\ UNCHANGED <<pacsp, sub, results>>

AddX29 ==
  /\ At({"add_x29"}) /\ stp
  /\ results' = results \cup {start_address}
  /\ pacsp' = FALSE /\ sub' = FALSE /\ stp' = FALSE
  /\ UNCHANGED start_address

\* What none of the masks takes in this state; among it a second pac or sub.
NoMatch == At({"other"} \cup (IF pacsp THEN {"pac"} ELSE {})
                        \cup (IF sub THEN {"sub"} ELSE {})
                        \cup (IF stp THEN {} ELSE {"add_x29"}))

\* Mutant of Clear: the stp flag is left set.
ClearExceptStp ==
  /\ NoMatch /\ (pacsp \/ sub \/ stp)
  /\ start_address' = 0
  /\ pacsp' = FALSE /\ sub' = FALSE
  /\ UNCHANGED <<stp, results>>

Clear ==
  /\ NoMatch /\ (pacsp \/ sub \/ stp)
  /\ start_address' = 0
  /\ pacsp' = FALSE /\ sub' = FALSE /\ stp' = FALSE
  /\ UNCHANGED results

Pass ==
  /\ NoMatch /\ ~(pacsp \/ sub \/ stp)
  /\ UNCHANGED <<start_address, flags, results>>

Finished == mapping > Len(mappings)
Returned == Finished /\ UNCHANGED vars

Next == NextMapping \/ Pac \/ Sub \/ StpX \/ StpD \/ AddX29 \/ Clear \/ Pass
        \/ Returned

Spec == Init /\ [][Next]_vars

-----------------------------------------------------------------------------
(* Correctness.                                                            *)

Prologue == {"pac", "sub", "stp_x", "stp_d"}
Stp == {"stp_x", "stp_d"}

\* Positions first .. last of mapping m are a prologue before its add x29: an
\* optional pac, an optional sub, and stps.
Shape(m, first, last) ==
  LET data == mappings[m].data
      pac_end == IF data[first] = "pac" THEN first + 1 ELSE first
      sub_end == IF pac_end <= last /\ data[pac_end] = "sub" THEN pac_end + 1
                                                             ELSE pac_end
  IN  sub_end <= last /\ \A k \in sub_end .. last : data[k] \in Stp

\* Prologues that no other prologue instruction stands in front of, and that the
\* loop sees to the end.
Prologues ==
  UNION {{[mapping |-> m, first |-> f, last |-> l] :
            f \in 1 .. Len(mappings[m].data), l \in 1 .. Len(mappings[m].data)} :
           m \in {k \in 1 .. Len(mappings) : mappings[k].executable}}
IsPrologue(p) ==
  LET data == mappings[p.mapping].data IN
  /\ p.first <= p.last /\ p.last + 1 < Len(data)
  /\ data[p.last + 1] = "add_x29"
  /\ p.first = 1 \/ data[p.first - 1] \notin Prologue
  /\ Shape(p.mapping, p.first, p.last)

\* The code takes the first stp d of pac, stp d for the start of the function.
StartOf(p) ==
  LET data == mappings[p.mapping].data IN
  mappings[p.mapping].address + p.first - 1
    + (IF data[p.first] = "pac" /\ data[p.first + 1] = "stp_d" THEN 1 ELSE 0)

\* Every prologue of that shape is reported, whatever half prologues, mappings
\* without code and ends of mappings the scan has passed before: no flag survives
\* from one candidate to the next.
ProloguesFound ==
  Finished => \A p \in Prologues : IsPrologue(p) => StartOf(p) \in results

\* Address r starts a run of prologue instructions that ends in stp, add x29.
StartsPrologue(r) ==
  \E m \in 1 .. Len(mappings) :
    LET data == mappings[m].data
        first == r - mappings[m].address + 1
    IN  /\ mappings[m].executable
        /\ first \in 1 .. Len(data)
        /\ \E last \in first .. Len(data) - 1 :
             /\ data[last] \in Stp /\ data[last + 1] = "add_x29"
             /\ \A k \in first .. last : data[k] \in Prologue

\* What is reported starts such a run within one executable mapping; in
\* particular no start is left over from a candidate that was given up, and 0 is
\* never reported for "none".
ResultsArePrologues == \A r \in results : StartsPrologue(r)

\* While a prologue is at hand, its candidate start and everything read since
\* are prologue instructions of the current mapping, the last one an stp if the
\* flag says so.
CandidateIsRun ==
  pacsp \/ sub \/ stp =>
    LET first == start_address - mappings[mapping].address + 1 IN
    /\ first \in 1 .. offset - 1
    /\ \A k \in first .. offset - 1 : Data[k] \in Prologue
    /\ stp <=> Data[offset - 1] \in Stp
=============================================================================
