----------------------- MODULE DisassemblerPoolProofs -----------------------
(***************************************************************************)
(* Theorems about DisassemblerPool, for every set of addresses, every set   *)
(* of images and every number of hardware threads.                          *)
(***************************************************************************)
EXTENDS DisassemblerPool, TLAPS

\* Workers are numbered from 1: none of them is Main or Free.
LEMMA WorkerNumbers ==
  /\ ThreadCount \in Nat
  /\ Worker \subseteq Nat \ {0}
  /\ Main \notin Worker /\ Free \notin Worker /\ Main # Free
  /\ \A t \in 0 .. ThreadCount :
       t < ThreadCount => t + 1 \in Worker /\ t + 1 \in 0 .. ThreadCount
<1>1. ThreadCount \in Nat
  BY ConcurrencyAssumption, SMT DEF ThreadCount
<1> QED BY <1>1, SMT DEF Worker, Main, Free

\* The graphs of an image are graphs.
LEMMA ImageGraphs ==
  ASSUME NEW m \in Images, NEW a \in Address
  PROVE  /\ m.disassembled[a] \in Graph /\ m.branches_resolved[a] \in Graph
         /\ Closure!Analysed(m, a) \in Graph
         /\ Closure!Callees(m, a) \subseteq Address
<1>1. m \in Image BY ImagesAssumption
<1>2. m.disassembled[a] \in Graph /\ m.branches_resolved[a] \in Graph
  BY <1>1 DEF Image
<1> QED BY <1>2 DEF Closure!Analysed, Closure!Callees, Graph

-----------------------------------------------------------------------------
(* Type correctness.                                                       *)

\* A worker that has taken an address off the queue has a real address.
HasAddress == \A i \in Worker :
  pc[i] = "reserve" \/ Analysing(i) => address[i] \in Address

TypeInv == TypeOK /\ HasAddress

LEMMA TypeInit == Init => TypeInv
<1> SUFFICES ASSUME Init PROVE TypeInv OBVIOUS
<1> USE WorkerNumbers DEF Init
<1>1. report = [printed |-> FALSE, functions |-> {}, resolved |-> {}]
  BY DEF Closure!NothingReported
<1>2. TypeOK BY <1>1 DEF TypeOK, WorkerPC, MainPC
<1>3. HasAddress BY DEF HasAddress, Analysing
<1> QED BY <1>2, <1>3 DEF TypeInv

LEMMA TypeStep == TypeInv /\ [Next]_vars => TypeInv'
<1> SUFFICES ASSUME TypeInv, [Next]_vars PROVE TypeInv' OBVIOUS
<1> USE WorkerNumbers
<1> USE DEF TypeInv, TypeOK, HasAddress, Analysing, shared, locks, locals, main
<1>1. ASSUME NEW i \in Worker, Start(i) PROVE TypeInv'
  BY <1>1 DEF Start, LockBoth, Goto, WorkerPC
<1>2. ASSUME NEW i \in Worker, Pop(i) PROVE TypeInv'
  BY <1>2 DEF Pop, Goto, WorkerPC, Lowest
<1>3. ASSUME NEW i \in Worker, Reserve(i) PROVE TypeInv'
  <2>1. address[i] \in Address BY <1>3 DEF Reserve
  <2>2. /\ DOMAIN functions' \subseteq Address
        /\ \A a \in DOMAIN functions' : functions'[a] \subseteq Graph
        /\ functions' = [a \in DOMAIN functions' |-> functions'[a]]
    BY <1>3, <2>1 DEF Reserve
  <2>3. pc' \in [Worker -> WorkerPC] BY <1>3 DEF Reserve, Goto, WorkerPC
  <2>4. HasAddress' BY <1>3 DEF Reserve, Goto
  <2> QED BY <1>3, <2>2, <2>3, <2>4 DEF Reserve
<1>4. ASSUME NEW i \in Worker, UnlockQueue(i) PROVE TypeInv'
  BY <1>4 DEF UnlockQueue, Goto, WorkerPC
<1>5. ASSUME NEW i \in Worker, UnlockFunctions(i) PROVE TypeInv'
  BY <1>5 DEF UnlockFunctions, Goto, WorkerPC
<1>6. ASSUME NEW i \in Worker, DisassembleFunction(i) PROVE TypeInv'
  <2>1. image.disassembled[address[i]] \in Graph
    BY <1>6, ImageGraphs DEF DisassembleFunction
  <2>2. function' \in [Worker -> SUBSET Graph] BY <1>6, <2>1 DEF DisassembleFunction
  <2>3. pc' \in [Worker -> WorkerPC] BY <1>6 DEF DisassembleFunction, Goto, WorkerPC
  <2>4. HasAddress' BY <1>6 DEF DisassembleFunction, Goto
  <2> QED BY <1>6, <2>2, <2>3, <2>4 DEF DisassembleFunction
<1>7. ASSUME NEW i \in Worker, ResolveBranches(i) PROVE TypeInv'
  <2>1. image.branches_resolved[address[i]] \in Graph
    BY <1>7, ImageGraphs DEF ResolveBranches
  <2>2. function' \in [Worker -> SUBSET Graph] BY <1>7, <2>1 DEF ResolveBranches
  <2>3. pc' \in [Worker -> WorkerPC] BY <1>7 DEF ResolveBranches, Goto, WorkerPC
  <2>4. HasAddress' BY <1>7 DEF ResolveBranches, Goto
  <2> QED BY <1>7, <2>2, <2>3, <2>4 DEF ResolveBranches
<1>8. ASSUME NEW i \in Worker, Relock(i) PROVE TypeInv'
  <2>1. UNION {graph.calls : graph \in function[i]} \subseteq Address \cup {0}
    BY DEF Graph
  <2>2. targets' \in [Worker -> SUBSET (Address \cup {0})] BY <1>8, <2>1 DEF Relock
  <2>3. pc' \in [Worker -> WorkerPC] BY <1>8 DEF Relock, Goto, WorkerPC
  <2>4. HasAddress' BY <1>8 DEF Relock, Goto
  <2> QED BY <1>8, <2>2, <2>3, <2>4 DEF Relock, LockBoth
<1>9. ASSUME NEW i \in Worker, Merge(i) PROVE TypeInv'
  BY <1>9 DEF Merge, Unknown
<1>10. ASSUME NEW i \in Worker, Publish(i) PROVE TypeInv'
  <2>1. /\ DOMAIN functions' \subseteq Address
        /\ \A a \in DOMAIN functions' : functions'[a] \subseteq Graph
        /\ functions' = [a \in DOMAIN functions' |-> functions'[a]]
    BY <1>10 DEF Publish
  <2>2. function' \in [Worker -> SUBSET Graph] BY <1>10 DEF Publish
  <2>3. pc' \in [Worker -> WorkerPC] BY <1>10 DEF Publish, Goto, WorkerPC
  <2>4. HasAddress' BY <1>10 DEF Publish, Goto
  <2> QED BY <1>10, <2>1, <2>2, <2>3, <2>4 DEF Publish
<1>11. ASSUME NEW i \in Worker, Exit(i) PROVE TypeInv'
  BY <1>11 DEF Exit, Goto, WorkerPC
<1>12. ASSUME NEW i \in Worker, ExitQueue(i) PROVE TypeInv'
  BY <1>12 DEF ExitQueue, Goto, WorkerPC
<1>13. CASE MainStep
  <2>1. CASE LockQueue BY <2>1 DEF LockQueue, MainPC
  <2>2. CASE Seed
    <3>1. image.entries \subseteq Address BY ImagesAssumption DEF Image
    <3> QED BY <2>2, <3>1 DEF Seed, MainPC
  <2>3. CASE Spawn BY <2>3 DEF Spawn, Goto, WorkerPC
  <2>4. CASE SpawnedAll BY <2>4 DEF SpawnedAll, MainPC
  <2>5. CASE Join BY <2>5 DEF Join
  <2>6. CASE LockFunctions BY <2>6 DEF LockFunctions, MainPC
  <2>7. CASE Report BY <2>7 DEF Report, MainPC
  <2> QED BY <1>13, <2>1, <2>2, <2>3, <2>4, <2>5, <2>6, <2>7 DEF MainStep
<1>14. CASE UNCHANGED vars BY <1>14 DEF vars
<1> QED BY <1>1, <1>2, <1>3, <1>4, <1>5, <1>6, <1>7, <1>8, <1>9, <1>10,
           <1>11, <1>12, <1>13, <1>14 DEF Next, WorkerStep, Returned

\* TypeOK is an invariant of the pool.
THEOREM PoolTypeCorrect == SafetySpec => []TypeOK
<1>1. TypeInv => TypeOK BY DEF TypeInv
<1> QED BY <1>1, TypeInit, TypeStep, PTL DEF SafetySpec

-----------------------------------------------------------------------------
(* The inductive invariant, in named parts.                                *)

\* Where a worker may touch queue and functions: it owns both mutexes.
InBoth(i) == pc[i] \in {"loop", "reserve", "unlock_queue", "merge"}

Owners == \A i \in Worker :
  /\ InBoth(i) => queue_mutex = i /\ functions_mutex = i
  /\ pc[i] = "unlock_functions" => functions_mutex = i
  /\ pc[i] = "exit" => queue_mutex = i

\* What main's progress says of the workers.
Phases ==
  /\ main_pc \in {"find", "seed"} =>
       queue = {} /\ DOMAIN functions = {} /\ \A i \in Worker : pc[i] = "unborn"
  /\ main_pc \in {"find", "seed"} => thread = 0
  /\ main_pc = "spawn" => \A i \in Worker : i > thread => pc[i] = "unborn"
  /\ main_pc = "join" => \A i \in Worker : i <= thread => pc[i] = "finished"
  /\ main_pc \in {"report", "done"} => \A i \in Worker : pc[i] = "finished"

\* An address is queued, in hand or in `functions', and in one of them only.
Placed ==
  /\ queue \cap DOMAIN functions = {}
  /\ \A i \in Worker :
       pc[i] = "reserve" => address[i] \notin queue \cup DOMAIN functions

\* The graphs in flight and the published ones are those of the analysis, and
\* a worker that merges has queued every target it has looked at.
Graphs ==
  /\ \A i \in Worker :
       /\ pc[i] = "resolve" => ~image.disassembled[address[i]].resolved
       /\ pc[i] \in {"relock", "merge"} =>
            function[i] = {Closure!Analysed(image, address[i])}
       /\ pc[i] = "merge" =>
            /\ targets[i] \subseteq Closure!Analysed(image, address[i]).calls
            /\ Closure!Callees(image, address[i]) \subseteq
                 targets[i] \cup queue \cup DOMAIN functions
  /\ \A a \in DOMAIN functions :
       functions[a] # {} => functions[a] = {Closure!Analysed(image, a)}

\* Nothing is queued or analysed that the entries do not reach.
OnlyReachable ==
  queue \cup DOMAIN functions \cup InHand \subseteq Closure!Reachable(image)

\* A worker that may still take addresses off the queue.
Busy(i) == pc[i] \in {"loop", "reserve"} \/ Analysing(i)

\* Once a worker has left, the queue is empty or some worker is still busy.
Drained ==
  (\E i \in Worker : pc[i] \in {"exit", "finished"}) =>
    queue = {} \/ \E j \in Worker : Busy(j)

Reported ==
  /\ report.printed <=> main_pc = "done"
  /\ report.printed =>
       /\ report.functions = DOMAIN functions
       /\ report.resolved = {a \in DOMAIN functions :
                               \E graph \in functions[a] : graph.resolved}
       /\ \A a \in DOMAIN functions : functions[a] # {}

IInv == /\ TypeInv /\ Owners /\ Phases /\ Placed /\ Reservation
        /\ Graphs /\ NothingLost /\ OnlyReachable /\ Drained /\ Reported

\* Two workers are never inside both critical sections.
LEMMA Exclusion ==
  ASSUME Owners, NEW i \in Worker, NEW j \in Worker, j # i, InBoth(i)
  PROVE  ~InBoth(j) /\ pc[j] # "unlock_functions" /\ pc[j] # "exit"
BY DEF Owners

LEMMA InitIInv == Init => IInv
<1> SUFFICES ASSUME Init PROVE IInv OBVIOUS
<1> USE WorkerNumbers DEF Init
<1>1. TypeInv BY TypeInit
<1>2. Owners /\ Phases BY DEF Owners, Phases, InBoth
<1>3. InHand = {} BY DEF InHand
<1>4. Placed /\ Reservation /\ NothingLost
  BY DEF Placed, Reservation, NothingLost, Analysing
<1>5. Graphs /\ Drained BY DEF Graphs, Drained
<1>6. OnlyReachable BY <1>3 DEF OnlyReachable
<1>7. Reported BY DEF Reported, Closure!NothingReported
<1> QED BY <1>1, <1>2, <1>4, <1>5, <1>6, <1>7 DEF IInv

LEMMA OwnersStep == IInv /\ [Next]_vars => Owners'
<1> SUFFICES ASSUME IInv, [Next]_vars PROVE Owners' OBVIOUS
<1> USE WorkerNumbers
<1> USE DEF IInv, TypeInv, TypeOK, Owners, InBoth, shared, locks, locals, main
<1>1. ASSUME NEW i \in Worker, Start(i) \/ Relock(i) PROVE Owners'
  BY <1>1 DEF Start, Relock, LockBoth, Goto
<1>2. ASSUME NEW i \in Worker, Pop(i) \/ Reserve(i) PROVE Owners'
  BY <1>2 DEF Pop, Reserve, Goto
<1>3. ASSUME NEW i \in Worker, UnlockQueue(i) PROVE Owners'
  BY <1>3 DEF UnlockQueue, Goto
<1>4. ASSUME NEW i \in Worker, UnlockFunctions(i) PROVE Owners'
  BY <1>4 DEF UnlockFunctions, Goto
<1>5. ASSUME NEW i \in Worker, DisassembleFunction(i) \/ ResolveBranches(i)
      PROVE  Owners'
  BY <1>5 DEF DisassembleFunction, ResolveBranches, Goto
<1>6. ASSUME NEW i \in Worker, Merge(i) \/ Publish(i) PROVE Owners'
  BY <1>6 DEF Merge, Publish, Goto
<1>7. ASSUME NEW i \in Worker, Exit(i) PROVE Owners'
  BY <1>7 DEF Exit, Goto
<1>8. ASSUME NEW i \in Worker, ExitQueue(i) PROVE Owners'
  BY <1>8 DEF ExitQueue, Goto
<1>9. CASE MainStep
  <2>1. CASE LockQueue \/ Seed BY <2>1 DEF LockQueue, Seed, Phases
  <2>2. CASE Spawn BY <2>2 DEF Spawn, Goto
  <2>3. CASE SpawnedAll \/ Join BY <2>3 DEF SpawnedAll, Join
  <2>4. CASE LockFunctions BY <2>4 DEF LockFunctions
  <2>5. CASE Report BY <2>5 DEF Report, Phases
  <2> QED BY <1>9, <2>1, <2>2, <2>3, <2>4, <2>5 DEF MainStep
<1>10. CASE UNCHANGED vars BY <1>10 DEF vars
<1> QED BY <1>1, <1>2, <1>3, <1>4, <1>5, <1>6, <1>7, <1>8, <1>9, <1>10
        DEF Next, WorkerStep, Returned

LEMMA PhasesStep == IInv /\ [Next]_vars => Phases'
<1> SUFFICES ASSUME IInv, [Next]_vars PROVE Phases' OBVIOUS
<1> USE WorkerNumbers
<1> USE DEF IInv, TypeInv, TypeOK, Phases, shared, locks, locals, main
<1>1. ASSUME NEW i \in Worker, WorkerStep(i) PROVE Phases'
  <2>1. /\ pc[i] \notin {"unborn", "finished"}
        /\ pc' = [pc EXCEPT ![i] = pc'[i]]
        /\ UNCHANGED <<main_pc, thread>>
    BY <1>1 DEF WorkerStep, Start, Pop, Reserve, UnlockQueue, UnlockFunctions,
       DisassembleFunction, ResolveBranches, Relock, Merge, Publish, Exit,
       ExitQueue, Goto
  <2>2. i \in Int /\ thread \in Int BY SMT DEF Worker
  <2> QED BY <2>1, <2>2
<1>2. CASE MainStep
  <2>1. CASE LockQueue \/ Seed
    BY <2>1, SMT DEF LockQueue, Seed, Worker
  <2>2. CASE Spawn BY <2>2, SMT DEF Spawn, Goto, Worker
  <2>3. CASE SpawnedAll BY <2>3, SMT DEF SpawnedAll, Worker
  <2>4. CASE Join BY <2>4, SMT DEF Join, Worker
  <2>5. CASE LockFunctions BY <2>5, SMT DEF LockFunctions, Worker
  <2>6. CASE Report BY <2>6 DEF Report
  <2> QED BY <1>2, <2>1, <2>2, <2>3, <2>4, <2>5, <2>6 DEF MainStep
<1>3. CASE UNCHANGED vars BY <1>3 DEF vars
<1> QED BY <1>1, <1>2, <1>3 DEF Next, Returned

\* A worker that is outside the locks leaves everything shared alone.
LEMMA QuietWorker ==
  ASSUME TypeOK, NEW i \in Worker,
         \/ Start(i) \/ UnlockQueue(i) \/ UnlockFunctions(i)
         \/ DisassembleFunction(i) \/ ResolveBranches(i) \/ Relock(i)
         \/ Exit(i) \/ ExitQueue(i)
  PROVE  /\ UNCHANGED <<image, queue, functions, address, main>>
         /\ \A j \in Worker : j # i => pc'[j] = pc[j]
         /\ pc[i] # "reserve" /\ pc'[i] # "reserve"
         /\ \A j \in Worker : Analysing(j)' <=> Analysing(j)
<1> USE DEF TypeOK, Goto, shared, locals, main, Analysing, LockBoth
<1>1. CASE Start(i) BY <1>1 DEF Start
<1>2. CASE UnlockQueue(i) BY <1>2 DEF UnlockQueue
<1>3. CASE UnlockFunctions(i) BY <1>3 DEF UnlockFunctions
<1>4. CASE DisassembleFunction(i) BY <1>4 DEF DisassembleFunction
<1>5. CASE ResolveBranches(i) BY <1>5 DEF ResolveBranches
<1>6. CASE Relock(i) BY <1>6 DEF Relock
<1>7. CASE Exit(i) BY <1>7 DEF Exit
<1>8. CASE ExitQueue(i) BY <1>8 DEF ExitQueue
<1> QED BY <1>1, <1>2, <1>3, <1>4, <1>5, <1>6, <1>7, <1>8

\* A worker that is spawned was never started, and has nothing to analyse.
LEMMA SpawnedWorker ==
  ASSUME TypeOK, Phases, Spawn
  PROVE  /\ thread + 1 \in Worker /\ pc[thread + 1] = "unborn"
         /\ pc' = [pc EXCEPT ![thread + 1] = "start"]
         /\ \A j \in Worker : Analysing(j)' <=> Analysing(j)
<1>1. thread + 1 \in Worker /\ thread \in Nat
  BY WorkerNumbers, SMT DEF Spawn, TypeOK
<1>2. pc[thread + 1] = "unborn" BY <1>1, SMT DEF Spawn, Phases
<1> QED BY <1>1, <1>2 DEF Spawn, Goto, Analysing, TypeOK

LEMMA PlacedStep == IInv /\ [Next]_vars => Placed'
<1> SUFFICES ASSUME IInv, [Next]_vars PROVE Placed' OBVIOUS
<1> USE WorkerNumbers
<1> USE DEF IInv, TypeInv, TypeOK, Placed, shared, locks, locals, main
<1>1. ASSUME NEW i \in Worker,
             \/ Start(i) \/ UnlockQueue(i) \/ UnlockFunctions(i)
             \/ DisassembleFunction(i) \/ ResolveBranches(i) \/ Relock(i)
             \/ Exit(i) \/ ExitQueue(i)
      PROVE  Placed'
  BY <1>1, QuietWorker
<1>2. ASSUME NEW i \in Worker, Pop(i) PROVE Placed'
  <2>1. InBoth(i) BY <1>2 DEF Pop, InBoth
  <2>2. \A j \in Worker \ {i} : pc[j] # "reserve"
    BY <2>1, Exclusion DEF InBoth
  <2> QED BY <1>2, <2>2 DEF Pop, Goto, Lowest
<1>3. ASSUME NEW i \in Worker, Reserve(i) PROVE Placed'
  <2>1. InBoth(i) BY <1>3 DEF Reserve, InBoth
  <2>2. \A j \in Worker \ {i} : pc[j] # "reserve"
    BY <2>1, Exclusion DEF InBoth
  <2> QED BY <1>3, <2>2 DEF Reserve, Goto
<1>4. ASSUME NEW i \in Worker, Merge(i) PROVE Placed'
  <2>1. InBoth(i) BY <1>4 DEF Merge, InBoth
  <2>2. \A j \in Worker \ {i} : pc[j] # "reserve"
    BY <2>1, Exclusion DEF InBoth
  <2> QED BY <1>4, <2>2 DEF Merge, Unknown
<1>5. ASSUME NEW i \in Worker, Publish(i) PROVE Placed'
  BY <1>5 DEF Publish, Goto
<1>6. CASE MainStep
  <2>1. CASE LockQueue \/ Seed BY <2>1 DEF LockQueue, Seed, Phases
  <2>2. CASE Spawn BY <2>2 DEF Spawn, Goto
  <2>3. CASE SpawnedAll \/ Join \/ LockFunctions \/ Report
    BY <2>3 DEF SpawnedAll, Join, LockFunctions, Report
  <2> QED BY <1>6, <2>1, <2>2, <2>3 DEF MainStep
<1>7. CASE UNCHANGED vars BY <1>7 DEF vars
<1> QED BY <1>1, <1>2, <1>3, <1>4, <1>5, <1>6, <1>7
        DEF Next, WorkerStep, Returned

LEMMA ReservationStep == IInv /\ [Next]_vars => Reservation'
<1> SUFFICES ASSUME IInv, [Next]_vars PROVE Reservation' OBVIOUS
<1> USE WorkerNumbers
<1> USE DEF IInv, TypeInv, TypeOK, Reservation, shared, locks, locals, main
<1>1. ASSUME NEW i \in Worker,
             \/ Start(i) \/ UnlockQueue(i) \/ UnlockFunctions(i)
             \/ DisassembleFunction(i) \/ ResolveBranches(i) \/ Relock(i)
             \/ Exit(i) \/ ExitQueue(i)
      PROVE  Reservation'
  BY <1>1, QuietWorker
<1>2. ASSUME NEW i \in Worker, Pop(i) PROVE Reservation'
  <2>1. ~Analysing(i) BY <1>2 DEF Pop, Analysing
  <2>2. /\ UNCHANGED functions
        /\ \A j \in Worker : Analysing(j)' <=> Analysing(j)
        /\ \A j \in Worker : j # i => address'[j] = address[j]
    BY <1>2 DEF Pop, Goto, Analysing
  <2> QED BY <2>1, <2>2
<1>3. ASSUME NEW i \in Worker, Reserve(i) PROVE Reservation'
  <2>1. /\ ~Analysing(i) /\ Analysing(i)' /\ UNCHANGED address
        /\ address[i] \notin DOMAIN functions
        /\ \A j \in Worker : j # i => (Analysing(j)' <=> Analysing(j))
    BY <1>3 DEF Reserve, Goto, Analysing, Placed
  <2>2. /\ DOMAIN functions' = DOMAIN functions \cup {address[i]}
        /\ functions'[address[i]] = {}
        /\ \A a \in DOMAIN functions : functions'[a] = functions[a]
    BY <1>3, <2>1 DEF Reserve
  <2> QED BY <2>1, <2>2
<1>4. ASSUME NEW i \in Worker, Merge(i) PROVE Reservation'
  BY <1>4 DEF Merge, Analysing
<1>5. ASSUME NEW i \in Worker, Publish(i) PROVE Reservation'
  <2>1. /\ Analysing(i) /\ ~Analysing(i)' /\ UNCHANGED address
        /\ \A j \in Worker : j # i => (Analysing(j)' <=> Analysing(j))
    BY <1>5 DEF Publish, Goto, Analysing
  <2>2. function[i] # {}
    <3>1. function[i] = {Closure!Analysed(image, address[i])}
      BY <1>5 DEF Publish, Graphs
    <3> QED BY <3>1
  <2>3. /\ DOMAIN functions' = DOMAIN functions
        /\ functions'[address[i]] # {}
        /\ \A a \in DOMAIN functions : a # address[i] => functions'[a] = functions[a]
    BY <1>5, <2>1, <2>2 DEF Publish
  <2>4. \A a \in DOMAIN functions' : functions'[a] = {} =>
          \E j \in Worker : Analysing(j)' /\ address'[j] = a
    BY <2>1, <2>3
  <2>5. ASSUME NEW j \in Worker, Analysing(j)'
        PROVE  /\ address'[j] \in DOMAIN functions'
               /\ functions'[address'[j]] = {}
               /\ \A k \in Worker \ {j} : Analysing(k)' => address'[k] # address'[j]
    BY <2>1, <2>3, <2>5
  <2> QED BY <2>4, <2>5
<1>6. CASE MainStep
  <2>1. CASE Spawn BY <2>1, SpawnedWorker DEF Spawn
  <2>2. CASE LockQueue \/ Seed \/ SpawnedAll \/ Join \/ LockFunctions \/ Report
    BY <2>2 DEF LockQueue, Seed, SpawnedAll, Join, LockFunctions, Report, Analysing
  <2> QED BY <1>6, <2>1, <2>2 DEF MainStep
<1>7. CASE UNCHANGED vars BY <1>7 DEF vars, Analysing
<1> QED BY <1>1, <1>2, <1>3, <1>4, <1>5, <1>6, <1>7
        DEF Next, WorkerStep, Returned

\* What one worker's step does to InHand.
LEMMA InHandUnchanged ==
  ASSUME \A j \in Worker : pc'[j] = "reserve" <=> pc[j] = "reserve",
         \A j \in Worker : pc[j] = "reserve" => address'[j] = address[j]
  PROVE  InHand' = InHand
BY DEF InHand

\* Steps of main other than Seed leave the data of the workers alone.
LEMMA QuietMain ==
  ASSUME TypeOK, Phases,
         LockQueue \/ Spawn \/ SpawnedAll \/ Join \/ LockFunctions \/ Report
  PROVE  /\ UNCHANGED <<image, queue, functions, address, function, targets>>
         /\ \A j \in Worker : pc'[j] = pc[j] \/ (pc[j] = "unborn" /\ pc'[j] = "start")
<1>1. CASE Spawn BY <1>1, SpawnedWorker DEF Spawn, shared, locals, TypeOK
<1>2. CASE LockQueue \/ SpawnedAll \/ Join \/ LockFunctions \/ Report
  BY <1>2 DEF LockQueue, SpawnedAll, Join, LockFunctions, Report, shared, locals
<1> QED BY <1>1, <1>2

LEMMA GraphsStep == IInv /\ [Next]_vars => Graphs'
<1> SUFFICES ASSUME IInv, [Next]_vars PROVE Graphs' OBVIOUS
<1> USE WorkerNumbers
<1> USE DEF IInv, TypeInv, TypeOK, Graphs, shared, locks, locals, main
<1>1. ASSUME NEW i \in Worker, Start(i) \/ UnlockQueue(i) \/ UnlockFunctions(i)
      PROVE  Graphs'
  BY <1>1 DEF Start, UnlockQueue, UnlockFunctions, Goto
<1>2. ASSUME NEW i \in Worker, Exit(i) \/ ExitQueue(i) PROVE Graphs'
  BY <1>2 DEF Exit, ExitQueue, Goto
<1>3. ASSUME NEW i \in Worker, DisassembleFunction(i) PROVE Graphs'
  BY <1>3 DEF DisassembleFunction, Goto, Closure!Analysed
<1>4. ASSUME NEW i \in Worker, ResolveBranches(i) PROVE Graphs'
  BY <1>4 DEF ResolveBranches, Goto, Closure!Analysed
<1>5. ASSUME NEW i \in Worker, Relock(i) PROVE Graphs'
  <2>1. function[i] = {Closure!Analysed(image, address[i])} BY <1>5 DEF Relock
  <2>2. UNION {graph.calls : graph \in function[i]} =
          Closure!Analysed(image, address[i]).calls
    BY <2>1
  <2>3. Closure!Callees(image, address[i]) \subseteq
          Closure!Analysed(image, address[i]).calls
    BY DEF Closure!Callees
  <2> QED BY <1>5, <2>1, <2>2, <2>3 DEF Relock, Goto, LockBoth
<1>6. ASSUME NEW i \in Worker, Pop(i) PROVE Graphs'
  <2>1. InBoth(i) BY <1>6 DEF Pop, InBoth
  <2>2. \A j \in Worker \ {i} : pc[j] # "merge" BY <2>1, Exclusion DEF InBoth
  <2>3. ASSUME NEW j \in Worker, j # i
        PROVE  pc'[j] = pc[j] /\ address'[j] = address[j]
    BY <1>6, <2>3 DEF Pop, Goto
  <2> QED BY <1>6, <2>2, <2>3 DEF Pop, Goto
<1>7. ASSUME NEW i \in Worker, Reserve(i) PROVE Graphs'
  BY <1>7 DEF Reserve, Goto, Placed
<1>8. ASSUME NEW i \in Worker, Merge(i) PROVE Graphs'
  <2>1. PICK t \in targets[i] :
          /\ queue' = IF Unknown(t) THEN queue \cup {t} ELSE queue
          /\ targets' = [targets EXCEPT ![i] = @ \ {t}]
    BY <1>8 DEF Merge
  <2>2. t = 0 \/ t \in queue' \cup DOMAIN functions BY <2>1 DEF Unknown
  <2>3. 0 \notin Closure!Callees(image, address[i]) BY DEF Closure!Callees
  <2> QED BY <1>8, <2>1, <2>2, <2>3 DEF Merge
<1>9. ASSUME NEW i \in Worker, Publish(i) PROVE Graphs'
  <2>1. function[i] = {Closure!Analysed(image, address[i])} BY <1>9 DEF Publish
  <2> QED BY <1>9, <2>1 DEF Publish, Goto
<1>10. CASE Seed BY <1>10 DEF Seed, Phases
<1>11. CASE LockQueue \/ Spawn \/ SpawnedAll \/ Join \/ LockFunctions \/ Report
  BY <1>11, QuietMain
<1>12. CASE UNCHANGED vars BY <1>12 DEF vars
<1> QED BY <1>1, <1>2, <1>3, <1>4, <1>5, <1>6, <1>7, <1>8, <1>9, <1>10, <1>11,
           <1>12 DEF Next, WorkerStep, MainStep, Returned

\* Everything known stays known, whatever the step.
LEMMA KnownGrows ==
  ASSUME IInv, [Next]_vars, main_pc \notin {"find", "seed"}
  PROVE  queue \cup DOMAIN functions \cup InHand \subseteq
           queue' \cup DOMAIN functions' \cup InHand'
<1> USE WorkerNumbers
<1> USE DEF IInv, TypeInv, TypeOK, shared, locks, locals, main
<1>1. ASSUME NEW i \in Worker,
             \/ Start(i) \/ UnlockQueue(i) \/ UnlockFunctions(i)
             \/ DisassembleFunction(i) \/ ResolveBranches(i) \/ Relock(i)
             \/ Exit(i) \/ ExitQueue(i)
      PROVE  UNCHANGED <<queue, functions>> /\ InHand' = InHand
  BY <1>1, QuietWorker, InHandUnchanged
<1>2. ASSUME NEW i \in Worker, Pop(i)
      PROVE  queue \cup InHand \subseteq queue' \cup InHand' /\ UNCHANGED functions
  <2>1. PICK a \in queue : queue' = queue \ {a} /\ address' = [address EXCEPT ![i] = a]
    BY <1>2 DEF Pop, Lowest
  <2>2. a \in InHand' BY <1>2, <2>1 DEF Pop, Goto, InHand
  <2>3. InHand \subseteq InHand' BY <1>2, <2>1 DEF Pop, Goto, InHand
  <2> QED BY <1>2, <2>1, <2>2, <2>3 DEF Pop
<1>3. ASSUME NEW i \in Worker, Reserve(i)
      PROVE  /\ UNCHANGED queue
             /\ DOMAIN functions \cup InHand \subseteq DOMAIN functions' \cup InHand'
  <2>1. DOMAIN functions' = DOMAIN functions \cup {address[i]} BY <1>3 DEF Reserve
  <2>2. InHand \subseteq InHand' \cup {address[i]} BY <1>3 DEF Reserve, Goto, InHand
  <2> QED BY <1>3, <2>1, <2>2 DEF Reserve
<1>4. ASSUME NEW i \in Worker, Merge(i) \/ Publish(i)
      PROVE  /\ queue \subseteq queue' /\ DOMAIN functions' = DOMAIN functions
             /\ InHand' = InHand
  <2>1. InHand' = InHand BY <1>4, InHandUnchanged DEF Merge, Publish, Goto
  <2> QED BY <1>4, <2>1 DEF Merge, Publish
<1>5. CASE LockQueue \/ Spawn \/ SpawnedAll \/ Join \/ LockFunctions \/ Report
  BY <1>5, QuietMain, InHandUnchanged
<1>6. CASE UNCHANGED vars BY <1>6 DEF vars, InHand
<1>7. ~Seed BY DEF Seed
<1> QED BY <1>1, <1>2, <1>3, <1>4, <1>5, <1>6, <1>7
        DEF Next, WorkerStep, MainStep, Returned

\* A graph that a step publishes is that of a worker which has queued or found
\* everything the function calls.
LEMMA PublishedNow ==
  ASSUME IInv, [Next]_vars, NEW a \in DOMAIN functions', functions'[a] # {}
  PROVE  \/ a \in DOMAIN functions /\ functions[a] # {}
         \/ Closure!Callees(image, a) \subseteq queue \cup DOMAIN functions
<1> USE WorkerNumbers
<1> USE DEF IInv, TypeInv, TypeOK, shared, locks, locals, main
<1>1. ASSUME NEW i \in Worker,
             \/ Start(i) \/ UnlockQueue(i) \/ UnlockFunctions(i)
             \/ DisassembleFunction(i) \/ ResolveBranches(i) \/ Relock(i)
             \/ Exit(i) \/ ExitQueue(i)
      PROVE  UNCHANGED functions
  BY <1>1, QuietWorker
<1>2. ASSUME NEW i \in Worker, Pop(i) \/ Merge(i) PROVE UNCHANGED functions
  BY <1>2 DEF Pop, Merge
<1>3. ASSUME NEW i \in Worker, Reserve(i)
      PROVE  a \in DOMAIN functions /\ functions[a] # {}
  BY <1>3 DEF Reserve
<1>4. ASSUME NEW i \in Worker, Publish(i), a # address[i]
      PROVE  a \in DOMAIN functions /\ functions[a] # {}
  BY <1>4 DEF Publish
<1>5. ASSUME NEW i \in Worker, Publish(i), a = address[i]
      PROVE  Closure!Callees(image, a) \subseteq queue \cup DOMAIN functions
  BY <1>5 DEF Publish, Graphs
<1>6. CASE MainStep
  BY <1>6 DEF MainStep, LockQueue, Seed, Spawn, SpawnedAll, Join, LockFunctions, Report
<1>7. CASE UNCHANGED vars BY <1>7 DEF vars
<1> QED BY <1>1, <1>2, <1>3, <1>4, <1>5, <1>6, <1>7 DEF Next, WorkerStep, Returned

LEMMA ImageConstant == [Next]_vars => image' = image
BY DEF Next, vars, WorkerStep, MainStep, Returned, Start, Pop, Reserve, UnlockQueue,
   UnlockFunctions, DisassembleFunction, ResolveBranches, Relock, Merge, Publish,
   Exit, ExitQueue, LockQueue, Seed, Spawn, SpawnedAll, Join, LockFunctions, Report

LEMMA NothingLostStep == IInv /\ [Next]_vars => NothingLost'
<1> SUFFICES ASSUME IInv, [Next]_vars PROVE NothingLost' OBVIOUS
<1> USE ImageConstant
<1>1. CASE main_pc \notin {"find", "seed"}
  <2>1. queue \cup DOMAIN functions \cup InHand \subseteq
          queue' \cup DOMAIN functions' \cup InHand'
    BY <1>1, KnownGrows
  <2>2. ASSUME NEW a \in DOMAIN functions', functions'[a] # {}
        PROVE  Closure!Callees(image, a) \subseteq
                 queue \cup DOMAIN functions \cup InHand
    BY <1>1, <2>2, PublishedNow DEF IInv, NothingLost
  <2>3. image.entries \subseteq queue \cup DOMAIN functions \cup InHand
    BY <1>1 DEF IInv, NothingLost
  <2> QED BY <2>1, <2>2, <2>3 DEF NothingLost
<1>2. CASE main_pc = "find"
  <2>1. main_pc' \in {"find", "seed"}
    BY <1>2 DEF Next, vars, WorkerStep, MainStep, Returned, Start, Pop, Reserve,
       UnlockQueue, UnlockFunctions, DisassembleFunction, ResolveBranches, Relock,
       Merge, Publish, Exit, ExitQueue, LockQueue, Seed, Spawn, SpawnedAll, Join,
       LockFunctions, Report, main
  <2> QED BY <2>1 DEF NothingLost
<1>3. CASE main_pc = "seed" /\ main_pc' # "seed"
  <2>1. Seed
    BY <1>3 DEF Next, vars, WorkerStep, MainStep, Returned, Start, Pop, Reserve,
       UnlockQueue, UnlockFunctions, DisassembleFunction, ResolveBranches, Relock,
       Merge, Publish, Exit, ExitQueue, LockQueue, Spawn, SpawnedAll, Join,
       LockFunctions, Report, main
  <2> QED BY <1>3, <2>1 DEF Seed, NothingLost, IInv, Phases
<1>4. CASE main_pc = "seed" /\ main_pc' = "seed"
  BY <1>4 DEF NothingLost
<1> QED BY <1>1, <1>2, <1>3, <1>4

\* Reachable holds the entries and is closed under calls ...
LEMMA ReachableClosed ==
  ASSUME NEW m \in Images
  PROVE  Closure!Closed(m, Closure!Reachable(m))
<1>1. m.entries \subseteq Address BY ImagesAssumption DEF Image
<1>2. m.entries \subseteq Closure!Reachable(m)
  BY <1>1 DEF Closure!Reachable, Closure!Closed
<1>3. ASSUME NEW f \in Closure!Reachable(m)
      PROVE  Closure!Callees(m, f) \subseteq Closure!Reachable(m)
  <2>1. f \in Address BY DEF Closure!Reachable
  <2>2. Closure!Callees(m, f) \subseteq Address BY <2>1, ImageGraphs
  <2> QED BY <2>2 DEF Closure!Reachable, Closure!Closed
<1> QED BY <1>2, <1>3 DEF Closure!Closed

\* ... and is the smallest such set.
LEMMA ReachableLeast ==
  ASSUME NEW m, NEW S \in SUBSET Address, Closure!Closed(m, S)
  PROVE  Closure!Reachable(m) \subseteq S
BY DEF Closure!Reachable

LEMMA OnlyReachableStep == IInv /\ [Next]_vars => OnlyReachable'
<1> SUFFICES ASSUME IInv, [Next]_vars PROVE OnlyReachable' OBVIOUS
<1> USE WorkerNumbers, ImageConstant
<1> USE DEF IInv, TypeInv, TypeOK, OnlyReachable, shared, locks, locals, main
<1>0. Closure!Closed(image, Closure!Reachable(image)) BY ReachableClosed
<1>1. ASSUME NEW i \in Worker,
             \/ Start(i) \/ UnlockQueue(i) \/ UnlockFunctions(i)
             \/ DisassembleFunction(i) \/ ResolveBranches(i) \/ Relock(i)
             \/ Exit(i) \/ ExitQueue(i)
      PROVE  UNCHANGED <<queue, functions>> /\ InHand' = InHand
  BY <1>1, QuietWorker, InHandUnchanged
<1>2. ASSUME NEW i \in Worker, Pop(i) PROVE OnlyReachable'
  <2>1. PICK a \in queue : queue' = queue \ {a} /\ address' = [address EXCEPT ![i] = a]
    BY <1>2 DEF Pop, Lowest
  <2>2. InHand' \subseteq InHand \cup {a} BY <1>2, <2>1 DEF Pop, Goto, InHand
  <2> QED BY <1>2, <2>1, <2>2 DEF Pop
<1>3. ASSUME NEW i \in Worker, Reserve(i) PROVE OnlyReachable'
  <2>1. address[i] \in InHand BY <1>3 DEF Reserve, InHand
  <2>2. InHand' \subseteq InHand BY <1>3 DEF Reserve, Goto, InHand
  <2>3. DOMAIN functions' = DOMAIN functions \cup {address[i]} BY <1>3 DEF Reserve
  <2> QED BY <1>3, <2>1, <2>2, <2>3 DEF Reserve
<1>4. ASSUME NEW i \in Worker, Merge(i) PROVE OnlyReachable'
  <2>1. PICK t \in targets[i] :
          queue' = IF Unknown(t) THEN queue \cup {t} ELSE queue
    BY <1>4 DEF Merge
  <2>2. address[i] \in Closure!Reachable(image)
    BY <1>4 DEF Merge, Reservation, Analysing
  <2>3. t # 0 => t \in Closure!Callees(image, address[i])
    BY <1>4, <2>1 DEF Merge, Graphs, Closure!Callees
  <2>4. queue' \subseteq Closure!Reachable(image)
    BY <1>0, <2>1, <2>2, <2>3 DEF Closure!Closed, Unknown
  <2>5. InHand' = InHand BY <1>4, InHandUnchanged DEF Merge
  <2> QED BY <1>4, <2>4, <2>5 DEF Merge
<1>5. ASSUME NEW i \in Worker, Publish(i) PROVE OnlyReachable'
  <2>1. InHand' = InHand BY <1>5, InHandUnchanged DEF Publish, Goto
  <2> QED BY <1>5, <2>1 DEF Publish
<1>6. CASE Seed
  <2>1. InHand' = {} /\ DOMAIN functions = {} BY <1>6 DEF Seed, Phases, InHand
  <2> QED BY <1>0, <1>6, <2>1 DEF Seed, Closure!Closed
<1>7. CASE LockQueue \/ Spawn \/ SpawnedAll \/ Join \/ LockFunctions \/ Report
  BY <1>7, QuietMain, InHandUnchanged
<1>8. CASE UNCHANGED vars BY <1>8 DEF vars, InHand
<1> QED BY <1>1, <1>2, <1>3, <1>4, <1>5, <1>6, <1>7, <1>8
        DEF Next, WorkerStep, MainStep, Returned

LEMMA DrainedStep == IInv /\ [Next]_vars => Drained'
<1> SUFFICES ASSUME IInv, [Next]_vars PROVE Drained' OBVIOUS
<1> USE WorkerNumbers
<1> USE DEF IInv, TypeInv, TypeOK, Drained, Busy, shared, locks, locals, main
<1>1. ASSUME NEW i \in Worker,
             Start(i) \/ Pop(i) \/ Reserve(i) \/ UnlockQueue(i) \/ UnlockFunctions(i)
      PROVE  Drained'
  <2>1. Busy(i)' BY <1>1 DEF Start, Pop, Reserve, UnlockQueue, UnlockFunctions,
                         Goto, Analysing
  <2> QED BY <2>1
<1>2. ASSUME NEW i \in Worker, \/ DisassembleFunction(i) \/ ResolveBranches(i)
                               \/ Relock(i) \/ Merge(i) \/ Publish(i)
      PROVE  Drained'
  <2>1. Busy(i)' BY <1>2 DEF DisassembleFunction, ResolveBranches, Relock, Merge,
                         Publish, Goto, Analysing
  <2> QED BY <2>1
<1>3. ASSUME NEW i \in Worker, Exit(i) PROVE Drained' BY <1>3 DEF Exit
<1>4. ASSUME NEW i \in Worker, ExitQueue(i) PROVE Drained'
  BY <1>4 DEF ExitQueue, Goto, Analysing
<1>5. CASE Seed BY <1>5 DEF Seed, Phases
<1>6. CASE LockQueue \/ Spawn \/ SpawnedAll \/ Join \/ LockFunctions \/ Report
  BY <1>6, QuietMain DEF Analysing
<1>7. CASE UNCHANGED vars BY <1>7 DEF vars, Analysing
<1> QED BY <1>1, <1>2, <1>3, <1>4, <1>5, <1>6, <1>7
        DEF Next, WorkerStep, MainStep, Returned

LEMMA ReportedStep == IInv /\ [Next]_vars => Reported'
<1> SUFFICES ASSUME IInv, [Next]_vars PROVE Reported' OBVIOUS
<1> USE WorkerNumbers
<1> USE DEF IInv, TypeInv, TypeOK, Reported, shared, locks, locals, main
<1>1. ASSUME NEW i \in Worker, WorkerStep(i) PROVE Reported'
  <2>1. main_pc # "done" BY <1>1 DEF Phases, WorkerStep, Start, Pop, Reserve,
       UnlockQueue, UnlockFunctions, DisassembleFunction, ResolveBranches, Relock,
       Merge, Publish, Exit, ExitQueue
  <2>2. UNCHANGED main BY <1>1 DEF WorkerStep, Start, Pop, Reserve,
       UnlockQueue, UnlockFunctions, DisassembleFunction, ResolveBranches, Relock,
       Merge, Publish, Exit, ExitQueue
  <2> QED BY <2>1, <2>2
<1>2. CASE Report BY <1>2 DEF Report
<1>3. CASE LockQueue \/ Seed \/ Spawn \/ SpawnedAll \/ Join \/ LockFunctions
  BY <1>3 DEF LockQueue, Seed, Spawn, SpawnedAll, Join, LockFunctions
<1>4. CASE UNCHANGED vars BY <1>4 DEF vars
<1> QED BY <1>1, <1>2, <1>3, <1>4 DEF Next, MainStep, Returned

THEOREM PoolInvariant == SafetySpec => []IInv
<1>1. IInv /\ [Next]_vars => IInv'
  BY TypeStep, OwnersStep, PhasesStep, PlacedStep, ReservationStep, GraphsStep,
     NothingLostStep, OnlyReachableStep, DrainedStep, ReportedStep DEF IInv
<1> QED BY <1>1, InitIInv, PTL DEF SafetySpec

-----------------------------------------------------------------------------
(* What follows from it.                                                   *)

\* No two workers analyse the same function, and none is lost half-way.
THEOREM PoolReservation == SafetySpec => []Reservation
<1>1. IInv => Reservation BY DEF IInv
<1> QED BY <1>1, PoolInvariant, PTL

\* No entry and no call target is dropped, whatever the workers interleave.
THEOREM PoolNothingLost == SafetySpec => []NothingLost
<1>1. IInv => NothingLost BY DEF IInv
<1> QED BY <1>1, PoolInvariant, PTL

\* When main has joined at least one worker, all the work is done.
LEMMA JoinedMeansDone ==
  ASSUME IInv, ThreadCount > 0, main_pc \in {"report", "done"}
  PROVE  /\ queue = {} /\ InHand = {}
         /\ \A a \in DOMAIN functions : functions[a] # {}
<1> USE WorkerNumbers DEF IInv
<1>1. \A i \in Worker : pc[i] = "finished" BY DEF Phases
<1>2. 1 \in Worker BY SMT DEF Worker
<1>3. \A i \in Worker : ~Busy(i) BY <1>1 DEF Busy, Analysing
<1>4. queue = {} BY <1>1, <1>2, <1>3 DEF Drained
<1>5. InHand = {} BY <1>1 DEF InHand
<1>6. \A a \in DOMAIN functions : functions[a] # {}
  BY <1>1 DEF Reservation, Analysing
<1> QED BY <1>4, <1>5, <1>6

\* What main reports is the closure of the entries under calls.
THEOREM PoolReportComplete == SafetySpec => []ReportComplete
<1>1. IInv => ReportComplete
  <2> SUFFICES ASSUME IInv, report.printed, ThreadCount > 0
               PROVE  /\ report.functions = Closure!Reachable(image)
                      /\ report.resolved = {f \in report.functions :
                                             Closure!Analysed(image, f).resolved}
    BY DEF ReportComplete
  <2>1. main_pc = "done" BY DEF IInv, Reported
  <2>2. queue = {} /\ InHand = {} /\ \A a \in DOMAIN functions : functions[a] # {}
    BY <2>1, JoinedMeansDone
  <2>3. Closure!Closed(image, DOMAIN functions)
    BY <2>1, <2>2 DEF IInv, NothingLost, Closure!Closed
  <2>4. Closure!Reachable(image) \subseteq DOMAIN functions
    BY <2>3, ReachableLeast DEF IInv, TypeInv, TypeOK
  <2>5. DOMAIN functions \subseteq Closure!Reachable(image)
    BY DEF IInv, OnlyReachable
  <2>6. \A a \in DOMAIN functions : functions[a] = {Closure!Analysed(image, a)}
    BY <2>2 DEF IInv, Graphs
  <2>7. report.functions = DOMAIN functions
    BY DEF IInv, Reported
  <2>8. report.resolved = {a \in DOMAIN functions :
                            \E graph \in functions[a] : graph.resolved}
    BY DEF IInv, Reported
  <2> QED BY <2>4, <2>5, <2>6, <2>7, <2>8
<1> QED BY <1>1, PoolInvariant, PTL

\* A published graph stays as it is.
THEOREM PoolPublishedOnce == SafetySpec => PublishedOnce
<1> DEFINE Stays == \A a \in DOMAIN functions : functions[a] # {} =>
                      a \in DOMAIN functions' /\ functions'[a] = functions[a]
<1>1. ASSUME IInv, [Next]_vars PROVE Stays
  <2> USE <1>1 DEF IInv, TypeInv, TypeOK, shared, locks, locals, main
  <2>1. ASSUME NEW i \in Worker, Reserve(i) PROVE Stays
    BY <2>1 DEF Reserve, Placed
  <2>2. ASSUME NEW i \in Worker, Publish(i) PROVE Stays
    <3>1. functions[address[i]] = {} BY <2>2 DEF Publish, Reservation, Analysing
    <3> QED BY <2>2, <3>1 DEF Publish
  <2>3. ASSUME NEW i \in Worker,
               \/ Start(i) \/ UnlockQueue(i) \/ UnlockFunctions(i)
               \/ DisassembleFunction(i) \/ ResolveBranches(i) \/ Relock(i)
               \/ Exit(i) \/ ExitQueue(i)
        PROVE  Stays
    BY <2>3, QuietWorker
  <2>4. ASSUME NEW i \in Worker, Pop(i) \/ Merge(i) PROVE Stays
    BY <2>4 DEF Pop, Merge
  <2>5. CASE MainStep
    BY <2>5 DEF MainStep, LockQueue, Seed, Spawn, SpawnedAll, Join, LockFunctions,
       Report
  <2>6. CASE UNCHANGED vars BY <2>6 DEF vars
  <2> QED BY <2>1, <2>2, <2>3, <2>4, <2>5, <2>6 DEF Next, WorkerStep, Returned
<1>2. IInv /\ [Next]_vars => [Stays]_vars BY <1>1
<1> QED BY <1>2, PoolInvariant, PTL DEF SafetySpec, PublishedOnce

-----------------------------------------------------------------------------
(* The pool implements CallClosure.                                        *)

Pending == IF main_pc \in {"find", "seed"}
           THEN image.entries
           ELSE queue \cup {a \in DOMAIN functions : functions[a] = {}} \cup InHand
Done == {a \in DOMAIN functions : functions[a] # {}}

LEMMA ClosureInit == Init => Closure!Init
BY DEF Init, Closure!Init

\* The abstract step of every step of the pool.
LEMMA ClosureStep ==
  ASSUME ThreadCount > 0, IInv, IInv', [Next]_vars
  PROVE  [Closure!Next]_Closure!vars
<1> USE WorkerNumbers, ImageConstant
<1> USE DEF IInv, TypeInv, TypeOK, shared, locks, locals, main
<1> DEFINE Stutters == Pending' = Pending /\ Done' = Done /\ report' = report
<1>a. ASSUME Stutters PROVE [Closure!Next]_Closure!vars
  BY <1>a DEF Closure!vars, Pending, Done
<1>1. ASSUME NEW i \in Worker,
             \/ Start(i) \/ UnlockQueue(i) \/ UnlockFunctions(i)
             \/ DisassembleFunction(i) \/ ResolveBranches(i) \/ Relock(i)
             \/ Exit(i) \/ ExitQueue(i)
      PROVE  Stutters
  <2>1. InHand' = InHand BY <1>1, QuietWorker, InHandUnchanged
  <2>2. UNCHANGED <<image, queue, functions, main_pc, report>> BY <1>1, QuietWorker
  <2> QED BY <2>1, <2>2 DEF Pending, Done
<1>2. ASSUME NEW i \in Worker, Pop(i) PROVE Stutters
  <2>1. main_pc \notin {"find", "seed"} /\ UNCHANGED main
    BY <1>2 DEF Pop, Phases
  <2>2. PICK a \in queue : queue' = queue \ {a} /\ address' = [address EXCEPT ![i] = a]
    BY <1>2 DEF Pop, Lowest
  <2>3. InHand' = InHand \cup {a} BY <1>2, <2>2 DEF Pop, Goto, InHand
  <2> QED BY <1>2, <2>1, <2>2, <2>3 DEF Pop, Pending, Done
<1>3. ASSUME NEW i \in Worker, Reserve(i) PROVE Stutters
  <2>1. main_pc \notin {"find", "seed"} /\ UNCHANGED main
    BY <1>3 DEF Reserve, Phases
  <2>2. /\ address[i] \notin DOMAIN functions
        /\ DOMAIN functions' = DOMAIN functions \cup {address[i]}
        /\ functions'[address[i]] = {}
        /\ \A a \in DOMAIN functions : functions'[a] = functions[a]
    BY <1>3 DEF Reserve, Placed
  <2>3. InHand = InHand' \cup {address[i]} BY <1>3 DEF Reserve, Goto, InHand
  <2>4. Done' = Done BY <2>2 DEF Done
  <2>5. Pending' = Pending BY <1>3, <2>1, <2>2, <2>3 DEF Reserve, Pending
  <2> QED BY <2>1, <2>4, <2>5
<1>4. ASSUME NEW i \in Worker, Merge(i) PROVE [Closure!Next]_Closure!vars
  <2>1. main_pc \notin {"find", "seed"} /\ UNCHANGED main
    BY <1>4 DEF Merge, Phases
  <2>2. InHand' = InHand BY <1>4, InHandUnchanged DEF Merge
  <2>3. PICK t \in targets[i] :
          queue' = IF Unknown(t) THEN queue \cup {t} ELSE queue
    BY <1>4 DEF Merge
  <2>4. CASE ~Unknown(t)
    <3>1. queue' = queue BY <2>3, <2>4
    <3> QED BY <1>4, <1>a, <2>1, <2>2, <3>1 DEF Merge, Pending, Done
  <2>5. CASE Unknown(t)
    <3>1. queue' = queue \cup {t} BY <2>3, <2>5
    <3>2. address[i] \in Pending
      BY <1>4, <2>1 DEF Merge, Reservation, Analysing, Pending
    <3>3. t \in Closure!Callees(image, address[i])
      BY <1>4, <2>3, <2>5 DEF Merge, Graphs, Closure!Callees, Unknown
    <3>4. InBoth(i) BY <1>4 DEF Merge, InBoth
    <3>5. InHand = {} BY <1>4, <3>4, Exclusion DEF InHand, InBoth, Merge
    <3>6. t \notin Pending \cup Done
      BY <2>1, <2>5, <3>5 DEF Unknown, Pending, Done
    <3>7. Pending' = Pending \cup {t} /\ Done' = Done
      BY <1>4, <2>1, <2>2, <3>1 DEF Merge, Pending, Done
    <3>8. PICK f \in Address : f = address[i]
      BY <1>4 DEF Merge, HasAddress, Analysing
    <3>9. Closure!Learn(f)
      BY <1>4, <2>1, <3>2, <3>3, <3>6, <3>7, <3>8 DEF Closure!Learn, Pending, Done
    <3> QED BY <3>9 DEF Closure!Next
  <2> QED BY <2>4, <2>5
<1>5. ASSUME NEW i \in Worker, Publish(i) PROVE [Closure!Next]_Closure!vars
  <2>1. main_pc \notin {"find", "seed"} /\ UNCHANGED main
    BY <1>5 DEF Publish, Phases
  <2>2. InHand' = InHand BY <1>5, InHandUnchanged DEF Publish, Goto
  <2>3. address[i] \in DOMAIN functions /\ functions[address[i]] = {}
    BY <1>5 DEF Publish, Reservation, Analysing
  <2>4. Closure!Callees(image, address[i]) \subseteq Pending \cup Done
    BY <1>5, <2>1 DEF Publish, Graphs, Pending, Done
  <2>5. function[i] = {Closure!Analysed(image, address[i])}
    BY <1>5 DEF Publish, Graphs
  <2>6. /\ DOMAIN functions' = DOMAIN functions /\ functions'[address[i]] = function[i]
        /\ \A a \in DOMAIN functions : a # address[i] => functions'[a] = functions[a]
    BY <1>5, <2>3 DEF Publish
  <2>7. functions'[address[i]] # {} BY <2>5, <2>6
  <2>8. Done' = Done \cup {address[i]} BY <2>3, <2>6, <2>7 DEF Done
  <2>9. InBoth(i) BY <1>5 DEF Publish, InBoth
  <2>10. InHand = {} BY <1>5, <2>9, Exclusion DEF InHand, InBoth, Publish
  <2>11. address[i] \notin queue BY <2>3 DEF Placed
  <2>12. Pending' = Pending \ {address[i]}
    BY <1>5, <2>1, <2>2, <2>3, <2>6, <2>7, <2>10, <2>11 DEF Publish, Pending
  <2>13. address[i] \in Pending BY <2>1, <2>3 DEF Pending
  <2>14. PICK f \in Address : f = address[i]
    BY <1>5 DEF Publish, HasAddress, Analysing
  <2>15. Closure!Finish(f)
    BY <2>1, <2>4, <2>8, <2>12, <2>13, <2>14 DEF Closure!Finish, Pending, Done
  <2> QED BY <2>15 DEF Closure!Next
<1>6. CASE LockQueue BY <1>6, <1>a DEF LockQueue, Pending, Done
<1>7. CASE Seed
  <2>1. InHand' = {} /\ DOMAIN functions = {} BY <1>7 DEF Seed, Phases, InHand
  <2> QED BY <1>7, <1>a, <2>1 DEF Seed, Pending, Done
<1>8. CASE Spawn \/ SpawnedAll \/ Join \/ LockFunctions
  <2>1. InHand' = InHand BY <1>8, QuietMain, InHandUnchanged
  <2>2. main_pc \notin {"find", "seed"} /\ main_pc' \notin {"find", "seed"}
    BY <1>8 DEF Spawn, SpawnedAll, Join, LockFunctions
  <2> QED BY <1>8, <1>a, <2>1, <2>2
          DEF Spawn, SpawnedAll, Join, LockFunctions, Pending, Done
<1>9. CASE Report
  <2>1. queue = {} /\ InHand = {} /\ \A a \in DOMAIN functions : functions[a] # {}
    BY <1>9, JoinedMeansDone DEF Report
  <2>2. Pending = {} /\ Done = DOMAIN functions
    BY <1>9, <2>1 DEF Report, Pending, Done
  <2>3. ~report.printed BY <1>9 DEF Report, Reported
  <2>4. InHand' = InHand BY <1>9 DEF Report, InHand
  <2>5. Pending' = Pending /\ Done' = Done
    BY <1>9, <2>4 DEF Report, Pending, Done
  <2>6. \A a \in DOMAIN functions : functions[a] = {Closure!Analysed(image, a)}
    BY <2>1 DEF Graphs
  <2>7. {a \in DOMAIN functions : \E graph \in functions[a] : graph.resolved} =
          {f \in Done : Closure!Analysed(image, f).resolved}
    BY <2>2, <2>6
  <2>8. report' = [printed |-> TRUE, functions |-> Done,
                   resolved |-> {f \in Done : Closure!Analysed(image, f).resolved}]
    BY <1>9, <2>2, <2>7 DEF Report
  <2>9. Closure!Report
    BY <2>2, <2>3, <2>5, <2>8 DEF Closure!Report, Pending, Done
  <2> QED BY <2>9 DEF Closure!Next
<1>10. CASE UNCHANGED vars BY <1>10, <1>a DEF vars, Pending, Done, InHand
<1> QED BY <1>a, <1>1, <1>2, <1>3, <1>4, <1>5, <1>6, <1>7, <1>8, <1>9, <1>10
        DEF Next, WorkerStep, MainStep, Returned

\* With at least one worker, the pool implements CallClosure.
THEOREM PoolImplementsClosure ==
  ASSUME ThreadCount > 0
  PROVE  SafetySpec => ImplementsClosure
<1>1. IInv /\ IInv' /\ [Next]_vars => [Closure!Next]_Closure!vars BY ClosureStep
<1> QED BY <1>1, ClosureInit, PoolInvariant, PTL
        DEF SafetySpec, ImplementsClosure, Closure!Spec
=============================================================================
