------------------------- MODULE MCDisassemblerPool -------------------------
(***************************************************************************)
(* Small images for DisassemblerPool: who calls whom among three functions *)
(* (shapes), with calls that only ResolveBranches finds, and every image   *)
(* of two functions (all).                                                 *)
(***************************************************************************)
EXTENDS DisassemblerPool

Two == 1 .. 2
Three == 1 .. 3
Four == 1 .. 4

\* The image with these entries and direct calls, and calls through a register
\* that ResolveBranches finds; every function has its own entry edge.
Shape(entries, direct, indirect) ==
  [entries |-> entries,
   disassembled |->
     [a \in Address |->
       [calls |-> {a} \cup direct[a] \cup (IF indirect[a] = {} THEN {} ELSE {0}),
        resolved |-> indirect[a] = {}]],
   branches_resolved |->
     [a \in Address |->
       [calls |-> {a} \cup direct[a] \cup indirect[a],
        resolved |-> 0 \notin indirect[a]]]]

Calls(pairs) == [a \in Address |-> {p[2] : p \in {q \in pairs : q[1] = a}}]
None == Calls({})

\* Over 1 .. 4: a chain, a diamond, two functions that find the same third
\* one at once, a cycle, all independent, a target that stays unknown, a
\* function nobody calls, and an image without functions.
Shapes == {
  Shape({1}, Calls({<<1, 2>>, <<2, 3>>, <<3, 4>>}), None),
  Shape({1}, Calls({<<1, 2>>, <<1, 3>>, <<2, 4>>, <<3, 4>>}), None),
  Shape({2, 3}, Calls({<<2, 1>>, <<3, 4>>}), Calls({<<2, 4>>, <<3, 1>>})),
  Shape({2}, Calls({<<1, 3>>, <<3, 2>>, <<2, 1>>}), None),
  Shape({1, 2, 3, 4}, None, None),
  Shape({3}, Calls({<<3, 1>>}), Calls({<<1, 0>>, <<3, 4>>})),
  Shape({}, None, None)}

\* Every image of the addresses: direct calls to any of them or to nowhere, and
\* any call targets that ResolveBranches can put in the place of "nowhere".
All ==
  {Shape(e, d, n) : e \in SUBSET Address, d \in [Address -> SUBSET Address],
                    n \in [Address -> SUBSET (Address \cup {0})]}
=============================================================================
