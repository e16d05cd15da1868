# A verification project for REIL

The repository disassembles aarch64 memory images: it finds functions, follows
their control flow, resolves branches through registers with a data-flow
analysis on an intermediate language (REIL), and saves one control flow graph
per function. This directory models that program in TLA+, checks the models with
TLC and proves the most important results with TLAPS. `PROJECT.json` lists the
runs, the theorems, the hazards, and for every definition the lines it models.

    tlc -config pool.cfg MCDisassemblerPool.tla      a run
    tlapm DisassemblerPoolProofs.tla                 the proofs of a module

## The system

| Part | Source | State | Operations | Talks to |
|---|---|---|---|---|
| Disassembler pool | `disassembler/main.cpp` | `queue`, `functions`, a mutex for each; per thread an address and a graph | seed, spawn, pop and reserve, analyse, merge callees, publish, join, report | all threads share the two globals; calls the next four parts |
| Function finder | `disassembler/aarch64/find_functions.cpp` | three flags, a candidate start, results | one step per instruction | reads the memory image |
| Function disassembly | `disassembler/disassembler.cpp`, `aarch64/disassemble.cpp` | worklist, visited set | one step per address | fills a native flow graph |
| Branch resolver | `disassembler/resolve_branches.cpp` | the graph, two flags | analyse, resolve an edge, disassemble on | native flow graph, REIL flow graph, constants analysis |
| Native flow graph | `flow_graph/native_flow_graph.cpp` | two maps of the same edges | add, remove, block searches, save, load | used by all of the above |
| REIL flow graph | `flow_graph/flow_graph.cpp` | the same on REIL nodes | create from a native graph | instruction provider |
| Instruction provider, session | `flow_graph/instruction_provider.cpp`, `analysis/session.h` | weak map and ring of translations; a provider per thread | lookup | translator |
| Constants analysis | `analysis/constants_analysis.cpp` | a lattice state per block, a worklist | transform, merge, update, query | REIL flow graph |
| Memory image | `memory_image/memory_image.cpp` | mappings | read, access checks, load | everyone |
| Interpreter, emulator | `reil/interpreter.cpp`, `reil/aarch64/emulator.cpp` | registers, memory, offset | step | translation |
| Immediates, REIL, translation | `reil/immediate.cpp`, `reil/reil.cpp`, `reil/translation.cpp` | fixed-width integers; instruction lists | arithmetic, emit, finalise | translator, interpreter, analysis |
| Decoder, translator, printer | `reil/aarch64/*` | none | a function for each class of instruction | interpreter, through the emulator |

Concurrency is in the pool alone; each worker has its own copy of the image, its
own instruction provider, and for each function its own session. What is hard
elsewhere is order: leaders, edges and resolved targets are found in any order,
and the graph is read while it is half built. Nothing is persisted but the
final graphs, so there is no recovery to model. What makes each part correct:

* pool: every function reachable by calls is analysed once and reported with
  its final graph, for any schedule; the program ends;
* function finder: reports prologues and only prologues;
* disassembly: the graph is the control flow of the code whatever the order in
  which its parts were found, and its blocks cover the code;
* resolver: edges it adds are real, it leaves nothing that its analysis reaches unresolved, it returns;
* native flow graph: both maps hold the same edges, blocks are maximal runs;
* analyses and interpreter: the analysis is sound with respect to the interpreter;
* provider and image: users see a memory without a history, whatever is cached;
* immediates: every operator has the result it has on integers, and returns;
* decoder, translator, emulator: an instruction does what the Arm manual says of it.

## The modules

**`CallClosure`** is the abstract specification of the whole program: known
functions become analysed ones, analysed functions add their callees, and once
nothing is pending the result is reported. It has no threads.

**`DisassemblerPool`** is `main.cpp`, with one action per statement that other
threads could see the effect of: `Start` and `Relock` are the two `std::lock`
calls (which hold none of the mutexes while they wait, so taking both is one
step), `Pop` and `Reserve` lines 43-45, `UnlockQueue`, `UnlockFunctions` lines
49-50, `DisassembleFunction` and `ResolveBranches` lines 52-57, `Merge` one turn
of the loop of lines 60-68 and `Publish` lines 70-71. `Exit` and `ExitQueue` are
the destructors of the two locks. `main` runs beside the workers, also while it
still spawns them. `functions` maps an address to `{}` for a null pointer and to
`{graph}`; of a graph only its call targets and `resolved()` matter here, and
which graph an address gets is part of the image. `Report` cannot happen while
an entry is null, where the code would dereference it. The refinement mapping
takes queued, popped and null addresses for pending ones.

**`FindFunctions`** is the scan for prologues, one action per branch of the
`else if` chain, opcodes reduced to the mask they match. The DCHECK is compiled
out in the model and stated as a property.

**`NativeFlowGraph`** holds the operators of the graph on a graph value, used by
all the other modules; the largest leader at or before a node and the first
outgoing edge from it are what the reverse iterator and `lower_bound` of the code
find. **`NativeFlowGraphStore`** is one graph object under any calls, and
**`EdgeSet`** what it promises: a set of edges.

**`Disassemble`** is the worklist of `aarch64/disassemble.cpp` on a code of
abstract instructions: a class, as the `switch` tells them apart, and a target.
Addresses count instructions, so +4 is +1. A branch to the absolute address 0,
which the code cannot tell from an unknown target, is left out.

**`ResolveBranches`** extends it with the loop of `resolve_branches.cpp`: one
action for the analysis, one for each way an edge to 0 is dealt with, and the
steps of `Disassemble` in between. The constants analysis is reduced to which
blocks have a state - blocks of the REIL graph that the entry reaches, see
`BlockStarts` and `FlowsTo` - and to one constant per register branch.

**`Reil`** has the instructions and operands of the intermediate language, with
values of one width. **`FlowGraph`** is `FlowGraph::Create`: it makes the graph of
REIL nodes from a native graph and the REIL code of each native instruction,
with the edge maps and block searches of `NativeFlowGraph` on nodes in the place
of addresses. A node is the number `address * Width + offset`, which keeps the
order of the code's comparison.

**`ConstantsAnalysis`** is `constants_analysis.cpp`: the states with their three
kinds of knowledge (absent, `{}` for top, `{c}`), `Merge`, a transformer for each
kind of opcode, `AtImpl` and the worklist of `Update`, one action per turn of its
loop. The code it works on is what `Disassemble` gives (`NativeEdges` is what the run
`disassemble` shows it to produce), so the blocks that a branch fails to split are
missing here as well. Where they hide the entry (the code runs into an unsplit loop before
anything else) nothing is analysed, and `Start` says nothing of the run.

**`Interpreter`** is `interpreter.cpp`, which the repository's README calls the
intended semantics: one action per kind of REIL instruction.
**`AnalysisSoundness`** composes the two: code is analysed, then it runs from any
initial values, and each edge the run goes over is compared with the state the
analysis has there. The analysis knows nothing of values that were in a register
when the function was entered, that a system call or an instruction without a
translation left there, or that were stored to memory, and takes no care to keep
them apart from constants (see `constants_top`). The variable `origin` follows each value of
the run, and `Sound` speaks of those that the code or the memory image made;
`claims` is false once a branch has depended on any other, since the analysis
may then have excluded the way the run takes.

What the analysis gets are native instructions with the REIL code of each, any that satisfy
`NativesAssumption`. It says of the code what `translator.cpp` and `translation.cpp` make so:
operands are of the right kind (`Operates`); jumps inside an instruction go forward, since
every label is placed behind the jumps to it, and not behind the last instruction, since
`Finalise` keeps the `Nop` there, while the others end the code, with the hint of their class
(`Jumps`); a temporary is written before it is read, on every way (`WrittenFirst`), since
`Tmp` makes a new one for each result and only `CountLeadingZeroBits` writes one on several ways; and
`Ldm` always writes a new one, which is read before the next jump or label (`LoadsApart`):
in CAS it is compared in front of the jump. Because the transformer of `Ldm` may
leave its output out of the state, two ways that meet behind a load could keep a value
of only one; `Sound` leaves out what loads write, on edges within their instruction, and
`LoadsApart` says that nothing reads it there. `RegistersAssumption` says that the
registers which the code reads have initial values.

**`MemoryImage`** is `memory_image.cpp`, with its sums modulo 2^64 (`AddressBits`):
the four access checks, `Read`, `AddMapping`, `Load`. **`InstructionProvider`** is the
cache on top of it. A translation is an object with a number, an address and its
bytes; it is alive as long as the ring `cache__` or a user points to it, `cache_`
holds numbers that may be dead, and `Lock` is `weak_ptr::lock`. The users are those of
the code: `FlowGraph::Create` and `At` hold what they get and drop it, `Instruction`
and `NextInstruction` look it up anew, `TransformLdm` loads data.
**`InstructionMemory`** is what all of them should see: an answer for each address
that depends on the image alone. `ImplementsMemory` says that they do.

**`Immediate`** is `immediate.cpp` on bytes of `ByteBits` bits. The thresholds of the
code, below which it multiplies and divides words and from which on it takes
another algorithm, are constants, so that small operands take every path. It rests on
**`Numerals`**: powers of two, and the number that digits stand for, as recursive functions.
**`LongDivision`** is the loop of `binary_long_divide` and `binary_long_modulus`, one
action per iteration; **`Arithmetic`** makes calls of every operator and compares the
results with the integers.

**`Decoder`** has one operator for each `Decode...` function, from the fields of a word to an
opcode and operands. **`Translation`** has the labels and the loop of `Finalise`, and what the
interpreter does with the code that is left: the translations that jump inside an
instruction (CAS, CCMP, CLZ, CLS) are run through it. **`Translator`** has one action for
each `Translate...` function; the REIL that one emits is written as the values its
temporaries get, in the order in which it reads and writes registers. `SingleStep` is
that of the emulator. **`A64`** is what the instructions should do, written from the Arm
manual and not from the code: sets of bits for logical operations, signed numbers for
overflow, no decoding, no REIL. Its comments marked "Exception" name where the
translator knowingly does less, or something else: pointer authentication, CRC32,
system registers and CASP have no effect, CAS leaves its first register as it is, BLR
of x30 jumps to the address it has just linked, and the smallest number divided by -1
is 0. **`Idioms`** has the two side by side, as the instances `Cpu` and `Arm` over the same
variables: it states the refinement, and properties of sequences of instructions.

The `MC` modules hold the images and codes the runs use. Operators called
"Mutant of X" are X with a plausible mistake in it: putting one in X's place
makes the property named in `PROJECT.json` fail.

## The runs

| Run | Shows | Instance |
|---|---|---|
| `pool` | reservations are one to one, nothing is lost, what is published stays, the report is the closure, the pool implements `CallClosure`, `main` returns | 3 workers, 7 images of 4 functions |
| `functions` | all prologues are found, only prologues are, the candidate is always a run of prologue instructions | all codes of up to 6 instructions; all pairs of adjacent mappings of up to 2 |
| `graph` | the maps are mirrors, the object is a set of edges, block searches find maximal runs | up to 4 of 23 edges |
| `disassemble` | what is visited, that the edges are those of the code, that blocks hold only visited code and cover it | all codes of 5 instructions of 8, all entries |
| `resolve` | added edges are real, targets are disassembled, nothing the analysis reaches is left to resolve, the loop ends | all codes of 4 instructions with jumps and calls through registers, all constants |
| `constants` | the analysis ends in a solution of its equations, never dereferences a missing state, excludes no edge a run takes, is right about every value computed by the code, and in code without joins finds all of them | all codes of 4 native instructions of 16, all initial values of 2 registers |
| `provider` | one live translation per address, the last ones stay alive and no others, users see a memory without a history | 6 images of up to 2 mappings, 8 addresses, ring of 2, 4 translations |
| `arithmetic` | all operators are those of the integers, the invariant and the result of the long division, calls return | all operands of 1 and 2 bytes of 3 bits, corners of 3 to 5 bytes |
| `translate` | every instruction implements A64; comparisons branch on the relation the condition is named for; carries, products, remainders and stack frames fit together | every form of 28 classes of instructions on corner values; 122 sequences of 2 and 3 instructions |
| `disassemble_split`, `resolve_loop`, `constants_top` | disagreements, below | |

Bounds. Two workers can collide on one callee and the third can see the queue
empty at the same time; more workers add only more of the same, and the theorems
hold for any number. Four functions are enough for a callee found by two callers
while it is queued, in hand, reserved, or published. Five instructions are enough
for a block with two leaders inside it, a branch elsewhere that finds them in
either order, and code that runs into a loop that is not split; properties of blocks were also checked on other instruction mixes
while the model was written. Six instructions hold the longest prologue shape
with what precedes and follows it. In `graph`, an entry edge, two leaders and an
end are four edges. In `constants`, four native instructions are up to twenty REIL
instructions: enough for a branch, a write on one side, and a join or a loop, and
for a jump within an instruction that forks a state; a larger mix of twenty
instructions was run on codes of three. Values are modulo 8, so that all addresses
of the code and of memory are among them. Only `MaxEdges`, `MaxMade` and `MaxHeld` bound a guard.

In `provider`, four translations overrun the ring of two twice, with one more held by a
user; the images have a mapping that ends at the top of the address space, one that
starts at 0, two that touch with different permissions in either order, an
instruction cut off by the end of its mapping, and gaps. Mappings lie within the
address space and do not overlap (`Loadable`): the loader of the repository writes none that do. The instructions of `provider` have two
bytes and addresses three bits, so every address is one.

In `arithmetic`, bytes have three bits, words two bytes: operands of one and two bytes are
all of them, those of three bytes are wide for multiplication and division, those of
four are the first on which a long division does not return, those of five the
first for sums. In `translate`, bytes have one bit: registers have eight and four
bits, halves two, and the ratios of all sizes are those of the code. Signed offsets
have three bits instead of seven to 26, pages eight bytes. Every class of
instruction is run in every form its fields can choose, from states with all flags
(where flags matter) and with corner values in up to three registers and at
addresses that wrap. Left out are words the manual calls unpredictable, and a few that
it leaves unallocated and the decoder does not. The program is apart from the data, so
code that changes itself is not in the model.

Fairness. `DisassemblerPool` assumes that every thread that can go on does so
eventually (weak fairness per thread). A thread waiting in `std::lock` is
enabled only while both mutexes are free, so weak fairness does not even assume
that waiting threads are served in any order; it is enough because a worker
leaves its critical section with the locks free only to work or to leave, and
the set of addresses to work on is finite. That `DisassembleFunction` and
`ResolveBranches` return is part of the assumption; `resolve` says when they do. `Disassemble`,
`ResolveBranches` and `Arithmetic` are sequential: weak fairness of the next step is
that the program runs. `ResolveBranches` (in `SpecResolve`, for `resolve`; `resolve_loop`
has it as `WF_allvars`) and `AnalysisSoundness` state it without ENABLED (a step
can change something until the function has returned), because TLC evaluates that
operator slowly on definitions of this size. `InstructionProvider` and `Translator`
are driven by their users and promise nothing of their own accord.

Deadlock is checked but in `provider` (which ends when the bound on translations is
reached), `arithmetic` (when a call has returned) and `translate` (when the program
counter leaves the program); elsewhere, a program that has returned stutters.

## What was found

* `resolve_loop`: if the code behind a resolved jump leads back to the jump,
  `Disassemble` adds the edge to 0 again in every round, and `ResolveBranches`
  never returns. `adr x0, loop; ... loop: ...; br x0` is enough.
* `disassemble_split`: a backward branch within its own straight-line block does
  not split it, because the branch has no edge yet when the block is looked up.
  The first part of the block has no end and is missing from the flow graph.
  `EdgesMatch` and `AllInBlocks` except exactly this case (`Unsplit`, with the code that
  runs straight into such a loop). A jump that `ResolveBranches` has resolved is added
  without `AddBranchEdge` and splits no block at all; a call it has resolved cuts its
  block short (`resolve_branches.cpp:64`), and a jump behind it that the analysis does
  not reach any more may keep its edge to 0 when `ResolveBranches` returns.
* `constants_top`: a place that a state does not have gives way in `Merge` to the
  constant another state has for it. After `cbz x1, L; mov x0, #1; L:` the analysis
  says that `x0` is 1, whatever `x0` was on the other path; the same happens after
  an instruction without a translation, which clears the state, and
  `ResolveBranches` takes such a value for the target of a branch.

Worth knowing, and no disagreement with anything written down: with fewer than
two hardware threads the pool has no worker and reports nothing
(`ReportComplete` excepts it); a prologue that starts with `paciasp` and goes on
with an `stp` of vector registers is reported one instruction late (`StartOf`
says so); the last instruction of a mapping is never looked at; the DCHECK of
`find_functions.cpp:44` does not hold for a `paciasp` with a `sub sp` or an `stp` directly
in front of it (the model goes on as an optimised build does, and finds the prologue). Where a
function calls itself, the state on the call is merged into the states at the entry, but a
change of it queues nothing: that block may have been analysed before the call was (`Settled`
excepts it).

Of the image and the provider: an address one past the end of an executable mapping
counts as executable, since a size of 0 is asked for, and gives an unallocated
instruction; if a mapping that is not executable ends where an executable one
begins, the first instruction of the latter cannot be read; nothing is granted
in a mapping that reaches 2^64. A load that runs over 2^64 may be granted although
`Read` has no such bytes; `InstructionMemory` leaves its value open.

Of immediates: the long quotient of `rhs * 2^k` by `rhs` is one too small and the
remainder `rhs` (`Divided` says so), and a long remainder has eight bits more than its operands;
products of up to four bytes have 64 bits, others the double size; an arithmetic shift
by more than the size forgets the sign; loops over the bytes of a result count in
a `uint8_t`, so operands of 128 bytes or more are never done. No aarch64 translation
reaches any of these: it divides at most 64 bits and takes counts modulo the size.

## What is proved

`DisassemblerPoolProofs` proves for every set of addresses, every image and every
number of threads that the pool is type correct, keeps `Reservation`,
`NothingLost`, `ReportComplete` and `PublishedOnce`, and implements
`CallClosure` (the last for at least one worker). It assumes only what the
module's ASSUMEs say of the constants. None of these is inductive alone. The
invariant `IInv` adds who owns the mutexes at which program counter (`Owners`),
how far main and the workers are (`Phases`), that what a worker has popped is in
neither collection (`Placed`), that local and published graphs are those of the
image (`Graphs`), that only reachable functions are ever known (`OnlyReachable`),
that after a worker has left, the queue refills only by workers still running
(`Drained`), and what the report holds (`Reported`). `ReportComplete` follows when all
workers are gone: nothing is queued, in hand or null, so `functions` is closed
under calls by `NothingLost`, and within the closure by `OnlyReachable`. The
refinement maps `Merge` to `Learn`, `Publish` to `Finish`, `Report` to `Report`
and every other step to a stutter.

`FindFunctionsProofs` proves for images of any size that the candidate is always
a run of prologue instructions of the mapping at hand, that only starts of
prologues are reported, and that every prologue is (`FindFunctionsComplete`). For
the last, the invariant says of each prologue of the mapping how much of it lies before
the offset, and that the flags and the candidate then say just that.

`InstructionProviderProofs` proves for any images, a ring of any size and any number of
translations and users that what is alive is what the cache finds (`LiveAreCached`), that
the ring keeps the last `RingSize` translations and no others (`RecentKept`), and that the
whole implements `InstructionMemory` (`ProviderIsMemory`). It assumes
that the ring has a place, that `Null` is not a number, and for the last that images are
`Loadable`. The invariant adds where each
recent translation lies: in the place its number has modulo `RingSize`, and every pointer
in the ring is one of these (`RingInv`). A new translation takes the place of the
oldest, because `RingSize` numbers in a row have different remainders (`Remainders`) and
the next one has that of the first (`NextRemainder`). The cache's entry is overwritten only
when `Lock` has found nothing alive at the address, so no other pointer is lost (`MadeCache`).
For the refinement, the access checks are worked out modulo the size of the address
space, and `CodeInv` keeps what a translation holds equal to what the image has.

`NativeFlowGraphProofs` has the lemmas on which the proofs about graphs rest. A graph is
`GraphOf` a set of edges, and `AddEdge`, `RemoveEdge` and loading give `GraphOf` the set with
or without an edge, so nothing is said of the two maps again. `BlockStartEnd` is what
the searches of a basic block find: the run from a leader to the first edge, if any, and
the two of them the same one. `NativeFlowGraphStoreProofs` has the properties of `graph` for
any set of edges: type, mirror, maximal runs, and the refinement of `EdgeSet`.

`ResolveBranchesProofs` begins with one round, `Disassemble`: it proves for code of any size,
made of any instructions, what the run `disassemble` shows. The invariant `IInv` says that what is queued or visited is
reachable and that nothing which follows it is lost (`ReachInv`); that the edges are those of
what has been visited, between its transfers and those with the ones of instructions that run on
into a leader (`EdgesInv`); that everything begins with a leader or behind an instruction
that runs on (`PrecededInv`); that an instruction which runs on is followed at once, as the
lowest address of the queue is next (`NextInv`); and that a block which runs into a leader ends
there, or an unsplit loop follows (`SplitInv`). With an empty queue, `ReachInv` makes the visited set
closed, and the least such set is what the code reaches. `NextInv` is what makes
`AddBranchEdge` right: when it looks a block up, there is no hole in front of it.

It then does the same for any number of rounds. `visited` is emptied by each,
so `HistoryInv` says that there is a set of all that has been disassembled so far: edges come
from it, and what they lead to is in it or in the queue. `RealInv` is that edges are those
of the code and of the constants, `ZeroInv` that what is still to look at has its edge to 0, and that
a round which has resolved no jump has left nothing else to resolve. Only `ZeroEdgesWithState`
is ever resolved, which is why `NothingLeftToResolve` speaks of the edges that the analysis reaches.

`AnalysisSoundnessProofs` proves the safety properties of `constants` for any code of any
instructions that satisfy the assumptions above, any memory image, registers and initial values.

* Of the graphs: `NativeEdgesAre` and `CreateIs` work out the edges that `Disassemble` and then
  `FlowGraph::Create` make, `BlockWithin` that a block of the second lies within one native
  instruction and has a jump at most at its end. The native graph may let a block run on where it
  lacks an edge (an unsplit loop), but `Create` puts a native flow at the end of
  every instruction in it; what lies behind the last block is in none.
* Of the analysis: `Settled` holds only when the queue is empty. `AnalysisInv` says all along
  that each block which a state leads to is queued or `Solved` (`Analysed`), that what is queued is
  the target of an edge, and that the states have only temporaries written so far in their
  instruction (`OnEdge`). For a block that a call of the function itself leads to,
  `Solved` asks only that it was solved with some set of states which includes those that arrive
  over other edges now: a change on the call edge queues nothing.
* Of the run: `Covered` and `Sound` speak of the edges just gone over and say nothing of the
  nodes between. `RunInv` says that the run is in a block which the analysis has looked at, and that
  whatever states its block is solved with, carried on to the node, agree with the values
  (`Stands`). The state `Agrees` when it has each place that the code has written, with the value
  or top, and in code without joins (`Tree`) with the value. Each instruction keeps that
  (`Executes`), so does the merge at the start of a block (`Merged`), and where the run
  leaves a block the edge it takes is valid, so that it has a state (`TakenAgrees`, `EndStep`).
  A load from an address that the image does not hold leaves the old state, and therefore `Agrees`
  leaves out what loads have still to write.

The library's induction theorems cannot be used here. Where an argument goes by induction over
addresses or instructions, it takes the least one of which the claim fails (`Least`, from the theorem that
`<` on the numbers is well founded) and shows that there is none.

`ArithmeticProofs` proves the safety properties of `arithmetic` for operands of every width and
bytes of any number of bits. Apart from what the inputs are (`InputsAssumption`: two operands of
one width, whose size fits into a `uint16_t`) it assumes that two factors which are multiplied
as words have a product that is a word (`ImmediateAssumption`), and of the lattice what the
comment at `immediate.cpp:270` works out: the sums of a diagonal fit into 16 bits
(`LatticeAssumption`). The argument has four layers.

* Numbers. `TwoTo`, `Suffixes`, the carries of a sum and the diagonals of a product are
  recursive functions. That such a function exists is proved and not assumed: `RecursionUpTo`
  builds it up to any bound, as the set of bounds for which it exists has no least
  member missing. `Parts` and `PartsOf` say what quotient and remainder are, and that nothing
  else is; every statement about `\div` and `%` is brought back to them.
* Numerals. What digits stand for is the first of a row of numbers of which each is a digit plus
  the base times the next (`SumsUp`), and such a row is unique (`NumberIs`). To prove
  what an operator computes is therefore to name the row: `CarriedIs` takes the row of the
  columns, adds the carry that arrives and takes off the one that leaves; `ProperParts` has
  the row of the quotients, `CombinationIs` that of a linear combination, `Cut` a row in two pieces.
* Operators. `PlusIs`, `MinusIs`, `LessIs`, `BitwiseIs`, `ShiftLeftIs`, `ShiftRightIs`, `AshrIs`,
  `SignExtendIs` and `MultiplyIs` say of each what its bytes stand for. A carry of a sum is 0 or
  1 and of a difference 0 or -1 (`CarryIsBit`); a shifted byte has the bits of two, which do not
  overlap (`Straddle`). The products on the diagonals are the digits of the product, proved a row of
  the lattice at a time (`ConvolutionIs`); their halves may be summed up one diagonal apart
  (`ColumnsAre`), the sums stay below the square of the base, so that the `uint16_t` drops
  nothing, and the last carry is 0 because the product has a place in twice the width (`LatticeIs`).
* Calls. `CallIInv` says that `pair` is what the operands stand for, and that a long division which
  has begun satisfies `DivisionIInv`; with it each action returns what `ResultsExact` and `Divided` ask
  for. `LoopInvariant` alone is not inductive for the exception that `Divided` makes:
  `DivisionIInv` adds that the dividend is twice the divisor exactly if the left operand is the
  right one shifted, and that this carries on down to the last bit.

The last part of `ArithmeticProofs` is about the emulator, because it rests on the same lemmas
about powers, quotients and recursive functions. `ConditionsMean` proves `ConditionMeaning`:
CMP; B.cond and CMP; CCMP; B.cond and CMP; SBCS; B.cond, decoded, translated and interpreted, branch if and
only if the numbers in the registers are in the relation that the condition is named for,
whatever the registers hold. Of the constants it assumes that a register has 4 and 8 bytes of
any number of bits (`W` and `X` are 32 and 64 in the code) and an instruction 4, that a signed field
has room for the offset of the branch (`SizesAssumption`), and that a program is started at its
first instruction with registers and flags that a machine can have (`StartsAssumption`).
It goes in five layers.

* Flags. `AddedIs` and `SubtractedIs`: the carry that `AddWithCarry` takes from a sum one bit wider and
  the overflow it takes from three sign bits are the unsigned and the signed overflow that `A64`
  defines by numbers; `ConditionIs`: the emulator tests a condition as `A64` does.
* Relations. `RelationIs`: after a difference the flags say which number is less, with and without
  a sign. `WideRelationIs`: with the borrow of the low words carried in, those of the high words
  say it of the numbers in two registers.
* Decoding. `AddDecoded` and its like say what the words of a sequence are decoded to, and `OpcodesApart` that
  an opcode has one translation, so that `Translates` selects the action of a step.
* Code that jumps inside an instruction. `Finalise` is characterised by a row of codes of which each has one
  label less (`FinaliseIs`, `Erasing`), `Execute` by a row of outcomes (`ExecuteIs`); `FinalChoice` and
  `ChoiceRun` go through them for the conditional compare, in both ways to translate its branch.
* Sequences. The inductive invariant `Comparisons` says of each instruction of a sequence what
  the flags mean in front of it: in front of B.cond, that its condition holds if and only if the whole
  relation does; in front of CCMP, that its condition is the first relation; in front of SBCS, that
  the flags are those of the difference of the low words. `ConditionMeaning` itself is about the end
  of a sequence and says nothing of the flags on the way.

The inductive invariants of the emulator are in `IdiomsInvariants`, which `MCTranslator` extends, so that
TLC can be asked whether they hold on the instance of `translate` as well: they do, with `Comparisons`
and `Computing` added to the INVARIANTS of `translate.cfg`.

`IdiomsComputed` proves `IdiomsCompute`, under the same assumptions: after ADDS; ADC and SUBS; SBC
two registers hold the sum and the difference of the numbers in two pairs, after MUL; UMULH the
product, after UDIV; MSUB and SDIV; MSUB quotient and remainder, and after STP and LDP with write-back
the registers are popped as they were pushed and the stack pointer is what it was (`StartsAssumption`
has it in x30, as the runs do, to compare it with). Quotients by 0, and the one of the least number by
-1, are left out, as `IdiomsCompute` leaves them out. The inductive invariant `Computing` says of the
place behind the first instruction of each sequence what that has left for the second: a low half and
the carry, the low half of a product, a quotient, 16 bytes on the stack.

* Sums. `TotalIs` says what `AddWithCarry` leaves, `TwoDigits` that a low digit, the carry that it leaves
  and a high digit make up the sum, `CarriedSum` that this holds of sums and of differences.
* Products. `Mul` adds the multiplicand for each bit of the multiplier: `MulIs` names the row of its
  partial sums and shows it to be multiplication modulo the width; `ProductFits`, that a product has
  two halves, which MUL and UMULH take.
* Quotients. The interpreter divides magnitudes and puts the sign back with masks. `MagnitudeIs`,
  `OrJoins` and `NegatedIs` say what the masks compute, `SdivIs` that the quotient is rounded to 0. MSUB
  computes modulo the width: `CongruentDifference` and `SmallAgain` show that nothing is lost,
  because a remainder is small.
* Frames. `PackedIs` says that the two registers that STP packs into one number are what LDP
  takes apart, `AddressesApart` that 16 bytes have as many addresses, even where these wrap
  around, `StoredLoads` that what `SetMemory` stores as bytes `GetMemory` reads, and `MovedBack`
  that raising the stack pointer undoes lowering it.

What is only model-checked. Liveness is out of the provers' reach: that the pool, `Disassemble`,
`ResolveBranches`, `Update` and the calls of `Immediate` return (`MainFinishes`, `ReturnsUnlessCyclic`,
`AnalysisEnds`, `CallsReturn`). That each instruction by itself does what the manual says
(`ImplementsA64`) is a statement about every form of every instruction, on sets of bits and folds of
which the provers know nothing.

## Not modelled

* `reil/aarch64/printer.cpp`, and all output operators: formatting, which nothing reads back.
* The SIMD loads and stores of the decoder, whose translations are one `Unkn`; where in a
  word the fields of an instruction lie; `Translation::DecodeBitMasks`, which nothing calls;
  the names of registers. `kPositionIndependent` changes only how a pc-relative value
  is written, `kPureReil` aborts on `Ite`.
* `karatsuba_multiply`: it is called on 128 bytes and more, where it does not return.
* The map of providers per thread of `Session`: `instruction_provider()` searches it without
  the lock it inserts under, but each session of the program is used by one thread.
* The limit on the size of a block, saving and loading in `FlowGraph`; `LoadBinexport2`, an
  importer of another tool's files with an address of one binary hard-coded in it;
  `GlobalConstantsAnalysis`, which is declared only.
* Logging, command lines, build files, tests.

## Plan

All parts that keep state or decide anything are modelled, and every safety invariant that the passing
runs check is proved. What would come next is `ImplementsA64`, one class of instructions at a time: `AddStep`,
`CarryStep`, `ProductStep`, `QuotientStep`, `PushStep` and `PopStep` have the form that each class needs.
