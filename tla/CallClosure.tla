---------------------------- MODULE CallClosure ----------------------------
(***************************************************************************)
(* What disassembler/main.cpp promises: starting from the functions found  *)
(* in the image it analyses every function that is reachable along call    *)
(* edges, each one once and in any order, and then reports exactly those.  *)
(* There are no threads, locks or queues here; DisassemblerPool is the     *)
(* detailed specification and implements this one.                         *)
(***************************************************************************)

CONSTANTS Address,   \* addresses a function may start at
          Images     \* the memory images considered

VARIABLES image,     \* the loaded image, never changed
          pending,   \* functions known but not analysed yet
          done,      \* functions analysed
          report     \* the functions main reported, once it has

vars == <<image, pending, done, report>>

\* The graph the two analysis passes produce for function f of image m:
\* ResolveBranches only runs when DisassembleFunction left something open.
Analysed(m, f) == IF m.disassembled[f].resolved THEN m.disassembled[f]
                                                ELSE m.branches_resolved[f]

\* Targets f calls; 0 stands for a target that was not found.
Callees(m, f) == Analysed(m, f).calls \ {0}

Closed(m, S) == /\ m.entries \subseteq S
                /\ \A f \in S : Callees(m, f) \subseteq S

\* The smallest set that holds the entries and is closed under calls.
Reachable(m) == {f \in Address :
                   \A S \in SUBSET Address : Closed(m, S) => f \in S}

NothingReported == [printed |-> FALSE, functions |-> {}, resolved |-> {}]

Init == /\ image \in Images
        /\ pending = image.entries
        /\ done = {}
        /\ report = NothingReported

\* A call from f to a function not known yet is found.
Learn(f) ==
  /\ f \in pending
  /\ \E t \in Callees(image, f) \ (pending \cup done) :
       pending' = pending \cup {t}
  /\ UNCHANGED <<image, done, report>>

\* The analysis of f is finished: everything f calls is known.
Finish(f) ==
  /\ f \in pending
  /\ Callees(image, f) \subseteq pending \cup done
  /\ pending' = pending \ {f}
  /\ done' = done \cup {f}
  /\ UNCHANGED <<image, report>>

Report ==
  /\ pending = {}
  /\ ~report.printed
  /\ report' = [printed |-> TRUE, functions |-> done,
                resolved |-> {f \in done : Analysed(image, f).resolved}]
  /\ UNCHANGED <<image, pending, done>>

Next == Report \/ \E f \in Address : Learn(f) \/ Finish(f)

Spec == Init /\ [][Next]_vars
=============================================================================
