-------------------------- MODULE DisassemblerPool --------------------------
(***************************************************************************)
(* The thread pool of disassembler/main.cpp: main seeds a shared queue with *)
(* the functions it finds, spawns hardware_concurrency() / 2 workers, joins *)
(* them and reports.  A worker takes the lowest queued address, reserves it *)
(* with a null graph in `functions', analyses it without the locks, and     *)
(* under the locks queues the unknown call targets and publishes the graph. *)
(* What the analysis of one function yields is data of the image: see       *)
(* Disassemble and ResolveBranches for how it comes about.                  *)
(***************************************************************************)
EXTENDS Integers

CONSTANTS Address,             \* addresses a function may start at
          Images,              \* the memory images considered
          HardwareConcurrency  \* std::thread::hardware_concurrency(), may be 0

\* The part of a NativeFlowGraph main.cpp looks at: the targets of its kCall
\* edges (0 for an unknown one; the graph's own entry is one of them) and
\* resolved().
Graph == [calls : SUBSET (Address \cup {0}), resolved : BOOLEAN]

\* An image: what FindFunctions returns, and for every address the graph that
\* DisassembleFunction builds and the one ResolveBranches turns it into.
Image == [entries           : SUBSET Address,
          disassembled      : [Address -> Graph],
          branches_resolved : [Address -> Graph]]

ASSUME AddressAssumption == Address \subseteq Nat
ASSUME ImagesAssumption == Images \subseteq Image
ASSUME ConcurrencyAssumption == HardwareConcurrency \in Nat

ThreadCount == HardwareConcurrency \div 2
Worker == 1 .. ThreadCount

Main == 0     \* main as the owner of a mutex; worker i is i
Free == -1    \* an unlocked mutex

VARIABLES
  image,            \* memory_image
  queue,            \* std::set of addresses to analyse
  functions,        \* std::map: address -> {} (nullptr) or {graph}
  queue_mutex, functions_mutex,
  pc,               \* where each worker is
  address,          \* a worker's local variable `address'
  function,         \* a worker's local variable `function', {} or {graph}
  targets,          \* the kCall targets a worker has still to look at
  main_pc, thread,  \* where main is, and the index of its spawn/join loops
  report            \* the totals main logs

shared == <<queue, functions>>
locks == <<queue_mutex, functions_mutex>>
locals == <<address, function, targets>>
main == <<main_pc, thread, report>>
vars == <<image, shared, locks, pc, locals, main>>

WorkerPC == {"unborn", "start", "loop", "reserve", "unlock_queue",
             "unlock_functions", "disassemble", "resolve", "relock", "merge",
             "exit", "finished"}
MainPC == {"find", "seed", "spawn", "join", "report", "done"}

\* Addresses taken off the queue whose entry is not reserved yet.
InHand == {address[i] : i \in {j \in Worker : pc[j] = "reserve"}}

Closure == INSTANCE CallClosure WITH
  pending <- IF main_pc \in {"find", "seed"}
             THEN image.entries
             ELSE queue \cup {a \in DOMAIN functions : functions[a] = {}}
                        \cup InHand,
  done <- {a \in DOMAIN functions : functions[a] # {}}

Init ==
  /\ image \in Images
  /\ queue = {}
  /\ functions = [a \in {} |-> {}]
  /\ queue_mutex = Free /\ functions_mutex = Free
  /\ pc = [i \in Worker |-> "unborn"]
  /\ address = [i \in Worker |-> 0]
  /\ function = [i \in Worker |-> {}]
  /\ targets = [i \in Worker |-> {}]
  /\ main_pc = "find" /\ thread = 0
  /\ report = Closure!NothingReported

-----------------------------------------------------------------------------
(* A worker: disassembler_thread().                                        *)

\* std::lock takes both mutexes or waits: it backs off when it gets only one.
LockBoth(i) ==
  /\ queue_mutex = Free /\ functions_mutex = Free
  /\ queue_mutex' = i /\ functions_mutex' = i

Goto(i, l) == pc' = [pc EXCEPT ![i] = l]

Start(i) ==
  /\ pc[i] = "start"
  /\ LockBoth(i)
  /\ Goto(i, "loop")
  /\ UNCHANGED <<image, shared, locals, main>>

Lowest(S) == {a \in S : \A b \in S : a <= b}

\* Mutant of Pop: the critical section ends before the reservation.
PopThenUnlock(i) ==
  /\ pc[i] = "loop"
  /\ \E a \in Lowest(queue) :
       /\ queue' = queue \ {a}
       /\ address' = [address EXCEPT ![i] = a]
  /\ Goto(i, "reserve")
  /\ queue_mutex' = Free /\ functions_mutex' = Free
  /\ UNCHANGED <<image, functions, function, targets, main>>

\* The queue is not empty: take the lowest address off it ...
Pop(i) ==
  /\ pc[i] = "loop"
  /\ \E a \in Lowest(queue) :
       /\ queue' = queue \ {a}
       /\ address' = [address EXCEPT ![i] = a]
  /\ Goto(i, "reserve")
  /\ UNCHANGED <<image, functions, locks, function, targets, main>>

\* ... and reserve its entry: functions[address] = nullptr.
Reserve(i) ==
  /\ pc[i] = "reserve"
  /\ functions' = [b \in DOMAIN functions \cup {address[i]} |->
                     IF b = address[i] THEN {} ELSE functions[b]]
  /\ Goto(i, "unlock_queue")
  /\ UNCHANGED <<image, queue, locks, locals, main>>

UnlockQueue(i) ==
  /\ pc[i] = "unlock_queue"
  /\ queue_mutex' = Free
  /\ Goto(i, "unlock_functions")
  /\ UNCHANGED <<image, shared, functions_mutex, locals, main>>

UnlockFunctions(i) ==
  /\ pc[i] = "unlock_functions"
  /\ functions_mutex' = Free
  /\ Goto(i, "disassemble")
  /\ UNCHANGED <<image, shared, queue_mutex, locals, main>>

\* Mutant of DisassembleFunction: ResolveBranches is never called.
DisassembleOnly(i) ==
  /\ pc[i] = "disassemble"
  /\ function' = [function EXCEPT ![i] = {image.disassembled[address[i]]}]
  /\ Goto(i, "relock")
  /\ UNCHANGED <<image, shared, locks, address, targets, main>>

\* DisassembleFunction, outside the locks.
DisassembleFunction(i) ==
  LET graph == image.disassembled[address[i]] IN
  /\ pc[i] = "disassemble"
  /\ function' = [function EXCEPT ![i] = {graph}]
  /\ Goto(i, IF graph.resolved THEN "relock" ELSE "resolve")
  /\ UNCHANGED <<image, shared, locks, address, targets, main>>

\* ResolveBranches, outside the locks, only for an unresolved graph.
ResolveBranches(i) ==
  /\ pc[i] = "resolve"
  /\ function' = [function EXCEPT ![i] = {image.branches_resolved[address[i]]}]
  /\ Goto(i, "relock")
  /\ UNCHANGED <<image, shared, locks, address, targets, main>>

\* Both locks again; the loop over the kCall edges of the graph begins.
Relock(i) ==
  /\ pc[i] = "relock"
  /\ LockBoth(i)
  /\ targets' = [targets EXCEPT ![i] = UNION {graph.calls : graph \in function[i]}]
  /\ Goto(i, "merge")
  /\ UNCHANGED <<image, shared, address, function, main>>

\* Mutants of Unknown: functions.count() forgotten, target 0 not excluded.
NotQueued(t) == t # 0 /\ t \notin queue
NotKnown(t) == t \notin queue /\ t \notin DOMAIN functions

Unknown(t) == t # 0 /\ t \notin queue /\ t \notin DOMAIN functions

\* Mutant of Merge: the loop ends at the first known target.
MergeUpToKnown(i) ==
  /\ pc[i] = "merge"
  /\ \E t \in targets[i] :
       /\ queue' = IF NotKnown(t) /\ t # 0 THEN queue \cup {t} ELSE queue
       /\ targets' = [targets EXCEPT ![i] = IF NotKnown(t) /\ t # 0 THEN @ \ {t} ELSE {}]
  /\ UNCHANGED <<image, functions, locks, pc, address, function, main>>

\* One turn of that loop: queue the target unless it is known.
Merge(i) ==
  /\ pc[i] = "merge"
  /\ \E t \in targets[i] :
       /\ queue' = IF Unknown(t) THEN queue \cup {t} ELSE queue
       /\ targets' = [targets EXCEPT ![i] = @ \ {t}]
  /\ UNCHANGED <<image, functions, locks, pc, address, function, main>>

\* Move the graph into `functions'; the locks stay held for the next turn of
\* the outer loop.
Publish(i) ==
  /\ pc[i] = "merge"
  /\ targets[i] = {}
  /\ functions' = [functions EXCEPT ![address[i]] = function[i]]
  /\ function' = [function EXCEPT ![i] = {}]
  /\ Goto(i, "loop")
  /\ UNCHANGED <<image, queue, locks, address, targets, main>>

\* The queue is empty: the destructors release functions_lock, then queue_lock.
Exit(i) ==
  /\ pc[i] = "loop"
  /\ queue = {}
  /\ functions_mutex' = Free
  /\ Goto(i, "exit")
  /\ UNCHANGED <<image, shared, queue_mutex, locals, main>>

ExitQueue(i) ==
  /\ pc[i] = "exit"
  /\ queue_mutex' = Free
  /\ Goto(i, "finished")
  /\ UNCHANGED <<image, shared, functions_mutex, locals, main>>

WorkerStep(i) ==
  \/ Start(i) \/ Pop(i) \/ Reserve(i) \/ UnlockQueue(i) \/ UnlockFunctions(i)
  \/ DisassembleFunction(i) \/ ResolveBranches(i) \/ Relock(i) \/ Merge(i)
  \/ Publish(i) \/ Exit(i) \/ ExitQueue(i)

-----------------------------------------------------------------------------
(* main().                                                                 *)

LockQueue ==
  /\ main_pc = "find"
  /\ queue_mutex = Free
  /\ queue_mutex' = Main
  /\ main_pc' = "seed"
  /\ UNCHANGED <<image, shared, functions_mutex, pc, locals, thread, report>>

\* queue = FindFunctions(image), and unlock.
Seed ==
  /\ main_pc = "seed"
  /\ queue' = image.entries
  /\ queue_mutex' = Free
  /\ main_pc' = "spawn"
  /\ UNCHANGED <<image, functions, functions_mutex, pc, locals, thread, report>>

\* The workers already spawned run while main spawns the next.
Spawn ==
  /\ main_pc = "spawn" /\ thread < ThreadCount
  /\ thread' = thread + 1
  /\ Goto(thread + 1, "start")
  /\ UNCHANGED <<image, shared, locks, locals, main_pc, report>>

SpawnedAll ==
  /\ main_pc = "spawn" /\ thread = ThreadCount
  /\ main_pc' = "join" /\ thread' = 0
  /\ UNCHANGED <<image, shared, locks, pc, locals, report>>

\* Mutant of Join: the worker is not waited for.
JoinDetached ==
  /\ main_pc = "join" /\ thread < ThreadCount
  /\ thread' = thread + 1
  /\ UNCHANGED <<image, shared, locks, pc, locals, main_pc, report>>

Join ==
  /\ main_pc = "join" /\ thread < ThreadCount
  /\ pc[thread + 1] = "finished"
  /\ thread' = thread + 1
  /\ UNCHANGED <<image, shared, locks, pc, locals, main_pc, report>>

LockFunctions ==
  /\ main_pc = "join" /\ thread = ThreadCount
  /\ functions_mutex = Free
  /\ functions_mutex' = Main
  /\ main_pc' = "report"
  /\ UNCHANGED <<image, shared, queue_mutex, pc, locals, thread, report>>

\* Count and save every function.  A null graph would be dereferenced here:
\* the step then has no legal outcome, and main never gets to "done".
Report ==
  /\ main_pc = "report"
  /\ \A a \in DOMAIN functions : functions[a] # {}
  /\ report' = [printed |-> TRUE, functions |-> DOMAIN functions,
                resolved |-> {a \in DOMAIN functions :
                                \E graph \in functions[a] : graph.resolved}]
  /\ functions_mutex' = Free
  /\ main_pc' = "done"
  /\ UNCHANGED <<image, shared, queue_mutex, pc, locals, thread>>

MainStep ==
  LockQueue \/ Seed \/ Spawn \/ SpawnedAll \/ Join \/ LockFunctions \/ Report

\* The process has returned from main.
Returned == main_pc = "done" /\ UNCHANGED vars

Next == MainStep \/ Returned \/ \E i \in Worker : WorkerStep(i)

Fairness == WF_vars(MainStep) /\ \A i \in Worker : WF_vars(WorkerStep(i))

SafetySpec == Init /\ [][Next]_vars
Spec == SafetySpec /\ Fairness

-----------------------------------------------------------------------------
(* Correctness.                                                            *)

\* The variables hold values of the kinds main.cpp declares.
TypeOK ==
  /\ image \in Images
  /\ queue \subseteq Address
  /\ DOMAIN functions \subseteq Address
  /\ \A a \in DOMAIN functions : functions[a] \subseteq Graph
  /\ functions = [a \in DOMAIN functions |-> functions[a]]
  /\ queue_mutex \in Worker \cup {Main, Free}
  /\ functions_mutex \in Worker \cup {Main, Free}
  /\ pc \in [Worker -> WorkerPC]
  /\ address \in [Worker -> Address \cup {0}]
  /\ function \in [Worker -> SUBSET Graph]
  /\ targets \in [Worker -> SUBSET (Address \cup {0})]
  /\ main_pc \in MainPC
  /\ thread \in 0 .. ThreadCount
  /\ report.printed \in BOOLEAN
  /\ report.functions \subseteq Address
  /\ report.resolved \subseteq report.functions

\* Worker i has reserved its address and not published its graph yet.
Analysing(i) == pc[i] \in {"unlock_queue", "unlock_functions", "disassemble",
                           "resolve", "relock", "merge"}

\* A null entry of `functions' and a worker analysing that address go
\* together, one to one, although reservation (main.cpp:45) and publication
\* (main.cpp:71) lie in two different critical sections: no function is
\* analysed twice, none stays null, and find() at main.cpp:70 always succeeds.
Reservation ==
  /\ \A a \in DOMAIN functions :
       functions[a] = {} => \E i \in Worker : Analysing(i) /\ address[i] = a
  /\ \A i \in Worker : Analysing(i) =>
       /\ address[i] \in DOMAIN functions
       /\ functions[address[i]] = {}
       /\ \A j \in Worker \ {i} : Analysing(j) => address[j] # address[i]

\* Once seeded, every entry of the image and every callee of a published
\* function is queued, in the hand of a worker that holds both locks, or has
\* its entry in `functions': a target that several workers find at once is
\* kept by one of them (main.cpp:60-68).
NothingLost ==
  main_pc \notin {"find", "seed"} =>
    LET known == queue \cup DOMAIN functions \cup InHand IN
    /\ image.entries \subseteq known
    /\ \A a \in DOMAIN functions :
         functions[a] # {} => Closure!Callees(image, a) \subseteq known

\* What main logs and saves is exactly the closure of the image's entries
\* under calls, each with the final graph of its analysis, although a worker
\* leaves as soon as it sees an empty queue while others may still find calls.
\* With fewer than two hardware threads there is no worker, and nothing holds.
ReportComplete ==
  report.printed /\ ThreadCount > 0 =>
    /\ report.functions = Closure!Reachable(image)
    /\ report.resolved = {f \in report.functions :
                            Closure!Analysed(image, f).resolved}

\* A published graph is never replaced, reset to null, or removed.
PublishedOnce ==
  [][\A a \in DOMAIN functions : functions[a] # {} =>
       a \in DOMAIN functions' /\ functions'[a] = functions[a]]_vars

\* Every step of the pool is a step of CallClosure, or none.
ImplementsClosure == Closure!Spec

\* If the analysis of every function ends, so does the program: nobody waits
\* for a mutex for ever, and the queue runs dry.
MainFinishes == <>(main_pc = "done")
=============================================================================
