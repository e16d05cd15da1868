SPECIFICATION Spec
CONSTANTS
  Edges <- MixedEdges
  MaxEdges = 4
INVARIANTS TypeOK Mirror BlocksAreRuns
PROPERTIES ImplementsEdgeSet
