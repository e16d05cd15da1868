SPECIFICATION SpecResolve
CONSTANTS
  Size = 4
  Instructions <- Calling
INVARIANTS EdgesAreReal TargetsDisassembled ResolvedForGood
PROPERTIES ReturnsUnlessCyclic
